------------------------------- MODULE Votes --------------------------------
(***************************************************************************)
(* Votes on threads and replies: vote_thread and vote_reply of             *)
(* backend/src/forum/service.py with the triggers of migration             *)
(* e81647b2ac9c, which keep upvote_count and downvote_count.               *)
(*                                                                         *)
(* Threads and replies are voted on by the same code, and an item stands   *)
(* for either.  The database runs at READ COMMITTED: a request reads the   *)
(* caller's vote in one statement and writes it in a later one, whose      *)
(* trigger updates the counters under the item's row lock, so the write    *)
(* and its trigger are one step.                                           *)
(***************************************************************************)
EXTENDS Integers, FiniteSets

CONSTANTS
  Items,       \* threads and replies that are not deleted
  Users,
  Requests,    \* vote requests in flight at once
  NoOne,       \* no user, no item
  MaxVotes     \* bound: vote requests in a behaviour

ASSUME VotersAssumption == IsFiniteSet(Users) /\ NoOne \notin Users /\ NoOne \notin Items
ASSUME BoundsAssumption == MaxVotes \in Nat

VARIABLES
  vote,        \* the rows of thread_vote and reply_vote
  upvotes,     \* upvote_count
  downvotes,   \* downvote_count
  request,     \* what each request wants and what it read
  started,     \* vote requests so far
  overlapped   \* history: have votes of one user on one item overlapped?

vars == <<vote, upvotes, downvotes, request, started, overlapped>>

Ballot == {"up", "down"}
Idle == [user |-> NoOne, item |-> NoOne, want |-> "none", seen |-> "none"]
Request == [user : Users \cup {NoOne}, item : Items \cup {NoOne},
            want : Ballot \cup {"none"}, seen : Ballot \cup {"none"}]

TypeOK ==
  /\ vote \in [Items -> [Users -> Ballot \cup {"none"}]]
  /\ upvotes \in [Items -> Int]
  /\ downvotes \in [Items -> Int]
  /\ request \in [Requests -> Request]
  /\ started \in 0..MaxVotes
  /\ overlapped \in BOOLEAN

Init ==
  /\ vote = [i \in Items |-> [u \in Users |-> "none"]]
  /\ upvotes = [i \in Items |-> 0]
  /\ downvotes = [i \in Items |-> 0]
  /\ request = [q \in Requests |-> Idle]
  /\ started = 0
  /\ overlapped = FALSE

\* The SELECT: the caller's vote as of now.
ReadVote(q, u, i, want) ==
  /\ request[q] = Idle
  /\ started < MaxVotes
  /\ overlapped' = (overlapped \/ \E p \in Requests : request[p].user = u /\ request[p].item = i)
  /\ request' = [request EXCEPT ![q] = [user |-> u, item |-> i, want |-> want, seen |-> vote[i][u]]]
  /\ started' = started + 1
  /\ UNCHANGED <<vote, upvotes, downvotes>>

\* What the row becomes, and what the trigger adds to each counter.
Write(q, row, up, down) ==
  LET r == request[q] IN
  /\ vote' = [vote EXCEPT ![r.item][r.user] = row]
  /\ upvotes' = [upvotes EXCEPT ![r.item] = @ + up]
  /\ downvotes' = [downvotes EXCEPT ![r.item] = @ + down]
  /\ request' = [request EXCEPT ![q] = Idle]
  /\ UNCHANGED <<started, overlapped>>

\* The request ends with the tables as they were.
NoChange(q) ==
  /\ request' = [request EXCEPT ![q] = Idle]
  /\ UNCHANGED <<vote, upvotes, downvotes, started, overlapped>>

One(b, x) == IF b = x THEN 1 ELSE 0
Row(q) == vote[request[q].item][request[q].user]

\* No row was seen.  The INSERT fails on the primary key if there is one now.
InsertVote(q) ==
  /\ request[q].want # "none"
  /\ request[q].seen = "none"
  /\ LET w == request[q].want IN
     IF Row(q) = "none" THEN Write(q, w, One(w, "up"), One(w, "down")) ELSE NoChange(q)

\* Mutant of DeleteVote: the counters lose a vote even when no row is left.
DeleteVoteUnchecked(q) ==
  /\ request[q].want # "none"
  /\ request[q].seen = request[q].want
  /\ LET old == request[q].seen IN Write(q, "none", - One(old, "up"), - One(old, "down"))

\* The same vote was seen.  The DELETE removes the row as it is now, if any.
DeleteVote(q) ==
  /\ request[q].want # "none"
  /\ request[q].seen = request[q].want
  /\ LET old == Row(q) IN
     IF old # "none" THEN Write(q, "none", - One(old, "up"), - One(old, "down")) ELSE NoChange(q)

\* Mutant of FlipVote: the trigger does not take the vote from the other
\* counter, as before migration e81647b2ac9c it did not fire at all.
FlipVoteOneSided(q) ==
  /\ request[q].want # "none"
  /\ request[q].seen \notin {"none", request[q].want}
  /\ LET w == request[q].want IN
     IF Row(q) # "none" THEN Write(q, w, One(w, "up"), One(w, "down")) ELSE NoChange(q)

\* The other vote was seen.  The UPDATE sets the row's value and its trigger
\* moves one vote across, whatever the row held; with no row it fails.
FlipVote(q) ==
  /\ request[q].want # "none"
  /\ request[q].seen \notin {"none", request[q].want}
  /\ LET w == request[q].want
         n == One(w, "up") - One(w, "down")
     IN IF Row(q) # "none" THEN Write(q, w, n, - n) ELSE NoChange(q)

Next ==
  \E q \in Requests :
    \/ \E u \in Users, i \in Items, want \in Ballot : ReadVote(q, u, i, want)
    \/ InsertVote(q) \/ DeleteVote(q) \/ FlipVote(q)

Spec == Init /\ [][Next]_vars

-----------------------------------------------------------------------------
(* Properties *)

Voters(i, B) == {u \in Users : vote[i][u] \in B}

\* Whatever the interleaving, inserts, deletes and flips that lose a race
\* keep the two counters together equal to the number of vote rows.
TotalMatchesRows ==
  \A i \in Items : upvotes[i] + downvotes[i] = Cardinality(Voters(i, Ballot))

\* models.py:308: each counter is the number of rows with that vote.
CountersMatchRows ==
  \A i \in Items :
    /\ upvotes[i] = Cardinality(Voters(i, {"up"}))
    /\ downvotes[i] = Cardinality(Voters(i, {"down"}))

\* Each counter is exact as long as the votes of one user on one item have not
\* overlapped, whatever other users do meanwhile.
CountersDriftOnlyByOverlap == overlapped \/ CountersMatchRows
=============================================================================
