------------------------------ MODULE ThreadPage ------------------------------
(***************************************************************************)
(* The page of a thread: frontend/src/hooks/useThreadPage.ts against       *)
(* get_replies, create_reply and vote_reply of backend/src/forum.          *)
(*                                                                         *)
(* A browser shows one page of replies. Going to a page, posting and       *)
(* voting are calls of the API that nothing cancels and that nothing keeps *)
(* apart: each is answered when the server and the network please, and     *)
(* what is done with the answer depends on what was on the screen when the *)
(* call was made. Meanwhile others post to the same thread.                *)
(*                                                                         *)
(* Replies are numbered by created_at, the start of their transaction.     *)
(* Soft-deleted replies are still listed, so deletion changes no page.     *)
(***************************************************************************)
EXTENDS Naturals, FiniteSets, Sequences, SequencesExt

CONSTANTS
  Calls,        \* bound: coroutines of the hook in flight at once
  PageSize,     \* PAGE_SIZE of the hook, page_size of get_replies
  First,        \* replies of the thread when the page is opened
  MaxReplies,   \* bound: replies of a behaviour
  MaxTexts,     \* bound: texts typed into the reply box
  Votable,      \* bound: replies this user votes on
  ParentOf,     \* parent_reply_id of each reply, 0 if it has none
  Faults,       \* which answers may go wrong
  MaxFaults     \* bound: how many of them

Ids == 1..MaxReplies

ASSUME BoundsAssumption ==
  /\ {PageSize, First, MaxReplies, MaxTexts, MaxFaults} \subseteq Nat
  /\ PageSize > 0
  /\ First <= MaxReplies
  /\ Votable \subseteq Ids
ASSUME ParentAssumption ==
  /\ ParentOf \in [Ids -> Ids \cup {0}]
  /\ \A k \in Ids : ParentOf[k] < k
ASSUME FaultsAssumption == Faults \subseteq {"refused", "lost"}

VARIABLES
  begun,        \* how many replies have a created_at
  rows,         \* the replies that are committed
  votes,        \* this user's row of reply_vote for each reply
  copies,       \* how often each text was posted
  page, pages, total, replies, loading, cache,  \* React state of the hook
  draft,        \* replyBody: the text in the reply box, 0 when it is blank
  call,         \* the calls in flight
  faults,       \* answers of each kind that went wrong
  typed,        \* history: texts typed so far
  shownPage,    \* history: the page of the list shown, 0 if fetches crossed or failed
  spliced,      \* history: a reply was appended while the list was moving
  smudged,      \* history: votes on the screen had a rival, or failed
  spoilt,       \* history: the box was used while a post was in flight
  owed          \* history: the own reply that should be on the page

server == <<begun, rows, votes, copies>>
screen == <<page, pages, total, replies, loading, cache>>
history == <<typed, shownPage, spliced, smudged, spoilt, owed>>
vars == <<server, screen, draft, call, faults, history>>

Ballot == {"up", "down"}
Item == [id : Ids, vote : Ballot \cup {"none"}]
Kind == {"list", "post", "vote"}
NoCall == [kind |-> "none", met |-> {}]
NobodyOwed == [id |-> 0, rank |-> 0]

Voted == {k \in Ids : votes[k] # "none"}

TypeOK ==
  /\ begun \in 0..MaxReplies
  /\ rows \subseteq 1..begun
  /\ votes \in [Ids -> Ballot \cup {"none"}]
  /\ Voted \subseteq rows
  /\ copies \in [1..MaxTexts -> 0..MaxReplies]
  /\ page \in 1..(MaxReplies + 1)
  /\ pages \in 1..(MaxReplies + 1)
  /\ total \in 0..(MaxReplies + 1)
  /\ replies \in Seq(Item)
  /\ loading \in BOOLEAN
  /\ cache \subseteq rows
  /\ draft \in 0..typed
  /\ \A c \in Calls :
       \/ call[c] = NoCall
       \/ call[c].kind = "list" /\ call[c].at \in {"sent", "counted", "read", "parents"}
       \/ call[c].kind = "post" /\ call[c].at \in {"sent", "begun", "done"}
       \/ call[c].kind = "vote" /\ call[c].at \in {"sent", "seen", "done"} /\ call[c].id \in rows
  /\ \A c \in Calls : call[c].met \subseteq Kind
  /\ faults \in [Faults -> Nat]
  /\ typed \in 0..MaxTexts
  /\ shownPage \in 0..(MaxReplies + 1)
  /\ {spliced, smudged, spoilt} \subseteq BOOLEAN
  /\ owed \in [id : Ids \cup {0}, rank : 0..MaxReplies]

\* How many pages n replies take; get_replies says 1 for none at all.
PagesOf(n) == (n + PageSize - 1) \div PageSize

Shown == {replies[i].id : i \in DOMAIN replies}
Rank(k) == Cardinality({j \in rows : j <= k})
Pending(kind) == {c \in Calls : call[c].kind = kind}
Settled == \A c \in Calls : call[c] = NoCall

\* A fetch knows the parents of the render it was started in.
FetchOf(p) == [kind |-> "list", at |-> "sent", page |-> p, total |-> 0,
               items |-> <<>>, known |-> cache, want |-> {}, met |-> {}]

\* Call c becomes r, among the other calls in flight: each notes the others.
Begin(c, r) ==
  LET others == {d \in Calls \ {c} : call[d] # NoCall} IN
  call' = [d \in Calls |->
             IF d = c THEN [r EXCEPT !.met = @ \cup {call[e].kind : e \in others}]
             ELSE IF d \in others THEN [call[d] EXCEPT !.met = @ \cup {r.kind}]
             ELSE call[d]]
End(c) == call' = [call EXCEPT ![c] = NoCall]

\* The thread has been loaded, and the first page is being fetched.
Init ==
  /\ begun = First
  /\ rows = 1..First
  /\ votes = [k \in Ids |-> "none"]
  /\ copies = [t \in 1..MaxTexts |-> 0]
  /\ page = 1 /\ pages = 1 /\ total = 0 /\ replies = <<>> /\ loading = TRUE /\ cache = {}
  /\ draft = 0
  /\ \E c \in Calls : call = [d \in Calls |-> IF d = c THEN FetchOf(1) ELSE NoCall]
  /\ faults = [k \in Faults |-> 0]
  /\ typed = 0 /\ shownPage = 0
  /\ spliced = FALSE /\ smudged = FALSE /\ spoilt = FALSE
  /\ owed = NobodyOwed

-----------------------------------------------------------------------------
(* Others *)

\* A reply answers one that is there, or none: create_reply refuses others.
ParentIsThere(k) == ParentOf[k] \in rows \cup {0}

\* Another user's reply takes its created_at, and is committed later.
OtherBegins ==
  /\ begun < MaxReplies
  /\ ParentIsThere(begun + 1)
  /\ begun' = begun + 1
  /\ UNCHANGED <<rows, votes, copies, screen, draft, call, faults, history>>

OtherCommits(k) ==
  /\ k \in (1..begun) \ rows
  /\ \A c \in Pending("post") : call[c].at = "begun" => call[c].id # k
  /\ rows' = rows \cup {k}
  /\ UNCHANGED <<begun, votes, copies, screen, draft, call, faults, history>>

-----------------------------------------------------------------------------
(* Fetching a page *)

\* Mutant of Fetch: the effect runs with the page of the render before.
FetchOfOldPage(c, p) ==
  /\ page' = p
  /\ loading' = TRUE
  /\ Begin(c, FetchOf(page))

\* setPage and the effect it triggers. Nothing cancels the fetch before it.
Fetch(c, p) ==
  /\ page' = p
  /\ loading' = TRUE
  /\ Begin(c, FetchOf(p))

\* Mutant of GoToPage: Prev is offered on the first page.
GoToPageZero(c, p) ==
  /\ call[c] = NoCall
  /\ pages > 1
  /\ Fetch(c, page - 1)
  /\ owed' = NobodyOwed
  /\ UNCHANGED <<server, pages, total, replies, cache, draft, faults, typed, shownPage, spliced,
                 smudged, spoilt>>

\* The pages that PageNav offers: those near the page shown, the last, and Prev.
Offered == {p \in 1..pages : p = pages \/ (page <= p + 2 /\ p <= page + 2)} \cup {page - 1}

\* goToPage, by one of its buttons. Going to the page shown does nothing.
GoToPage(c, p) ==
  /\ call[c] = NoCall
  /\ pages > 1
  /\ p \in Offered \ {0, page}
  /\ Fetch(c, p)
  /\ owed' = NobodyOwed
  /\ UNCHANGED <<server, pages, total, replies, cache, draft, faults, typed, shownPage, spliced,
                 smudged, spoilt>>

\* get_replies counts the replies in one statement ...
Count(c) ==
  /\ c \in Pending("list") /\ call[c].at = "sent"
  /\ call' = [call EXCEPT ![c].at = "counted", ![c].total = Cardinality(rows)]
  /\ UNCHANGED <<server, screen, draft, faults, history>>

\* ... and reads the page in another, in the order of created_at.
Slice(p) ==
  LET here == {k \in rows : PagesOf(Rank(k)) = p}
      order == CHOOSE s \in [1..Cardinality(here) -> here] :
                 \A i, j \in DOMAIN s : i < j => s[i] < s[j]
  IN [i \in DOMAIN order |-> [id |-> order[i], vote |-> votes[order[i]]]]

Read(c) ==
  /\ c \in Pending("list") /\ call[c].at = "counted"
  /\ call' = [call EXCEPT ![c].at = "read", ![c].items = Slice(call[c].page)]
  /\ UNCHANGED <<server, screen, draft, faults, history>>

\* The answer replaces the list, whatever page is being shown by now. Parents
\* that are neither on the page nor known are asked for next.
Missing(r) ==
  LET here == {r.items[i].id : i \in DOMAIN r.items}
  IN {ParentOf[k] : k \in here} \ (here \cup r.known \cup {0})

ShowList(c) ==
  /\ c \in Pending("list") /\ call[c].at = "read"
  /\ replies' = call[c].items
  /\ total' = call[c].total
  /\ pages' = IF call[c].total = 0 THEN 1 ELSE PagesOf(call[c].total)
  /\ LET want == Missing(call[c]) IN
       IF want = {} THEN End(c) /\ loading' = FALSE
       ELSE /\ call' = [call EXCEPT ![c].at = "parents", ![c].want = want]
            /\ UNCHANGED loading
  /\ shownPage' = IF call[c].met \cap {"list", "post"} = {} THEN call[c].page ELSE 0
  /\ spliced' = FALSE
  /\ smudged' = ("vote" \in call[c].met)
  /\ UNCHANGED <<server, page, cache, draft, faults, typed, spoilt, owed>>

\* The route /replies/{id}/parent answers with the parent of the id it is given,
\* and with an error if there is none.
ParentsSent(want) == {ParentOf[k] : k \in want} \ {0}

ShowParents(c) ==
  /\ c \in Pending("list") /\ call[c].at = "parents"
  /\ cache' = cache \cup ParentsSent(call[c].want)
  /\ loading' = FALSE
  /\ End(c)
  /\ UNCHANGED <<server, page, pages, total, replies, draft, faults, history>>

-----------------------------------------------------------------------------
(* Posting *)

\* The user types a text, or goes on with the one in the box.
Type ==
  /\ typed < MaxTexts
  /\ typed' = typed + 1
  /\ draft' = typed + 1
  /\ spoilt' = (spoilt \/ Pending("post") # {})
  /\ UNCHANGED <<server, screen, call, faults, shownPage, spliced, smudged, owed>>

\* Mutant of Submit: the box is emptied before the answer is known.
SubmitClears(c) ==
  /\ call[c] = NoCall
  /\ draft # 0
  /\ draft' = 0
  /\ Begin(c, [kind |-> "post", at |-> "sent", id |-> 0, text |-> draft, page |-> page,
               total |-> total, len |-> Len(replies), known |-> cache,
               sound |-> shownPage # 0, met |-> {}])
  /\ spoilt' = (spoilt \/ Pending("post") # {})
  /\ UNCHANGED <<server, screen, faults, typed, shownPage, spliced, smudged, owed>>

\* submitReply up to its await. It goes on with the page, the total and the
\* length of the list of this moment. The button is not disabled meanwhile.
Submit(c) ==
  /\ call[c] = NoCall
  /\ draft # 0
  /\ Begin(c, [kind |-> "post", at |-> "sent", id |-> 0, text |-> draft, page |-> page,
               total |-> total, len |-> Len(replies), known |-> cache,
               sound |-> shownPage # 0, met |-> {}])
  /\ spoilt' = (spoilt \/ Pending("post") # {})
  /\ UNCHANGED <<server, screen, draft, faults, typed, shownPage, spliced, smudged, owed>>

\* create_reply: the transaction begins, and commits.
PostBegins(c) ==
  /\ c \in Pending("post") /\ call[c].at = "sent"
  /\ begun < MaxReplies
  /\ ParentIsThere(begun + 1)
  /\ begun' = begun + 1
  /\ call' = [call EXCEPT ![c].at = "begun", ![c].id = begun + 1]
  /\ UNCHANGED <<rows, votes, copies, screen, draft, faults, history>>

PostCommits(c) ==
  /\ c \in Pending("post") /\ call[c].at = "begun"
  /\ rows' = rows \cup {call[c].id}
  /\ copies' = [copies EXCEPT ![call[c].text] = @ + 1]
  /\ call' = [call EXCEPT ![c].at = "done"]
  /\ UNCHANGED <<begun, votes, screen, draft, faults, history>>

\* Mutant of NewLastPage: the new reply is not counted.
NewLastPageOfOld(c) == IF call[c].total = 0 THEN 1 ELSE PagesOf(call[c].total)

\* newLastPage, from the total of when the reply was submitted.
NewLastPage(c) == PagesOf(call[c].total + 1)

\* Mutant of Fits: the length of the list is not looked at.
FitsAnyway(c) == NewLastPage(c) = call[c].page

\* The reply belongs on the page that was shown, and the page was not full.
Fits(c) == NewLastPage(c) = call[c].page /\ call[c].len < PageSize

\* submitReply after its await: append, or fetch this page or the new last one.
PostAnswered(c) ==
  /\ c \in Pending("post") /\ call[c].at = "done"
  /\ draft' = 0
  /\ \/ /\ Fits(c)
        /\ replies' = Append(replies, [id |-> call[c].id, vote |-> "none"])
        /\ total' = call[c].total + 1
        /\ spliced' = (spliced \/ call[c].met \cap {"list", "post"} # {})
        /\ smudged' = (smudged \/ "list" \in call[c].met)
        /\ End(c)
        /\ UNCHANGED <<page, loading>>
     \/ /\ ~Fits(c)
        /\ NewLastPage(c) = call[c].page
        /\ loading' = TRUE
        /\ Begin(c, [FetchOf(call[c].page) EXCEPT
                       !.known = call[c].known,
                       !.met = IF page = call[c].page THEN {} ELSE {"post"}])
        /\ UNCHANGED <<page, total, replies, spliced, smudged>>
     \/ /\ NewLastPage(c) \notin {call[c].page, page}
        /\ Fetch(c, NewLastPage(c))
        /\ UNCHANGED <<total, replies, spliced, smudged>>
     \/ /\ NewLastPage(c) = page
        /\ page # call[c].page
        /\ End(c)
        /\ UNCHANGED <<page, loading, total, replies, spliced, smudged>>
  /\ owed' = IF call[c].met = {} /\ call[c].sound /\ Rank(call[c].id) = call[c].total + 1
               THEN [id |-> call[c].id, rank |-> Rank(call[c].id)]
               ELSE NobodyOwed
  /\ UNCHANGED <<server, pages, cache, faults, typed, shownPage, spoilt>>

-----------------------------------------------------------------------------
(* Voting *)

\* A click on an arrow of a reply, up or down, drawn while no list is loading.
Vote(c, k, want) ==
  /\ call[c] = NoCall
  /\ ~loading
  /\ k \in Shown \cap Votable
  /\ Begin(c, [kind |-> "vote", at |-> "sent", id |-> k, want |-> want, vote |-> "none",
               met |-> {}])
  /\ UNCHANGED <<server, screen, draft, faults, history>>

\* vote_reply looks for the user's vote in one statement ...
VoteReads(c) ==
  /\ c \in Pending("vote") /\ call[c].at = "sent"
  /\ call' = [call EXCEPT ![c].at = "seen", ![c].vote = votes[call[c].id]]
  /\ UNCHANGED <<server, screen, draft, faults, history>>

\* ... and writes in another: the vote that was asked for is taken back if it
\* was there, else it is stored or the other one flipped. The answer says which.
Outcome(r) == IF r.vote = r.want THEN "none" ELSE r.want

\* A row that came meanwhile breaks the key of one stored, and a row that went
\* cannot be flipped. Deleting it once more is no error.
Conflicts(r) ==
  \/ r.vote = "none" /\ votes[r.id] # "none"
  \/ r.vote \notin {"none", r.want} /\ votes[r.id] = "none"

VoteCommits(c) ==
  /\ c \in Pending("vote") /\ call[c].at = "seen"
  /\ ~Conflicts(call[c])
  /\ votes' = [votes EXCEPT ![call[c].id] = Outcome(call[c])]
  /\ call' = [call EXCEPT ![c].at = "done", ![c].vote = Outcome(call[c])]
  /\ UNCHANGED <<begun, rows, copies, screen, draft, faults, history>>

\* The transaction is rolled back, and the handler raises. The middleware, which
\* catches that, runs it again ...
VoteRunsAgain(c) ==
  /\ c \in Pending("vote") /\ call[c].at = "seen"
  /\ Conflicts(call[c])
  /\ call' = [call EXCEPT ![c].at = "sent"]
  /\ UNCHANGED <<server, screen, draft, faults, history>>

\* ... or the page gets an error, and does nothing with it.
VoteConflicts(c) ==
  /\ c \in Pending("vote") /\ call[c].at = "seen"
  /\ Conflicts(call[c])
  /\ End(c)
  /\ UNCHANGED <<server, screen, draft, faults, history>>

\* Mutant of VoteAnswered: the arrow clicked is lit, whatever the answer says.
VoteAnsweredLights(c) ==
  /\ c \in Pending("vote") /\ call[c].at = "done"
  /\ replies' = [i \in DOMAIN replies |->
                   IF replies[i].id = call[c].id THEN [replies[i] EXCEPT !.vote = call[c].want]
                   ELSE replies[i]]
  /\ smudged' = (smudged \/ call[c].met \cap {"list", "vote"} # {})
  /\ End(c)
  /\ UNCHANGED <<server, page, pages, total, loading, cache, draft, faults, typed, shownPage,
                 spliced, spoilt, owed>>

\* The answer is put into the list as it is now, if the reply is on it.
VoteAnswered(c) ==
  /\ c \in Pending("vote") /\ call[c].at = "done"
  /\ replies' = [i \in DOMAIN replies |->
                   IF replies[i].id = call[c].id THEN [replies[i] EXCEPT !.vote = call[c].vote]
                   ELSE replies[i]]
  /\ smudged' = (smudged \/ call[c].met \cap {"list", "vote"} # {})
  /\ End(c)
  /\ UNCHANGED <<server, page, pages, total, loading, cache, draft, faults, typed, shownPage,
                 spliced, spoilt, owed>>

-----------------------------------------------------------------------------
(* Answers that go wrong *)

Fault(k) ==
  /\ k \in Faults
  /\ SumFunctionOnSet(faults, Faults) < MaxFaults
  /\ faults' = [faults EXCEPT ![k] = @ + 1]

Happened(k) == k \in Faults /\ faults[k] > 0

\* What a call that failed leaves behind in the history.
Failed(c) ==
  /\ shownPage' = IF call[c].kind = "list" /\ call[c].at # "parents" THEN 0 ELSE shownPage
  /\ smudged' = (smudged \/ (call[c].kind = "vote" /\ call[c].at = "done"))
  /\ spoilt' = (spoilt \/ (call[c].kind = "post" /\ call[c].at = "done"))

\* The server answers with an error, before or after it did what was asked. The
\* list stays, and so does the draft; a fetch is over.
Refused(c) ==
  /\ call[c] # NoCall
  /\ call[c].at \in {"sent", "done"}
  /\ Fault("refused")
  /\ loading' = IF call[c].kind = "list" THEN FALSE ELSE loading
  /\ End(c)
  /\ Failed(c)
  /\ UNCHANGED <<server, page, pages, total, replies, cache, draft, typed, spliced, owed>>

\* No answer: fetch rejects, nobody catches it, and the coroutine is over.
Lost(c) ==
  /\ call[c] # NoCall
  /\ call[c].at \notin {"begun", "seen"}
  /\ Fault("lost")
  /\ End(c)
  /\ Failed(c)
  /\ UNCHANGED <<server, screen, draft, typed, spliced, owed>>

-----------------------------------------------------------------------------

Serve(c) ==
  \/ Count(c) \/ Read(c) \/ ShowList(c) \/ ShowParents(c)
  \/ PostBegins(c) \/ PostCommits(c) \/ PostAnswered(c)
  \/ VoteReads(c) \/ VoteCommits(c) \/ VoteAnswered(c)
  \/ VoteRunsAgain(c) \/ VoteConflicts(c)

Next ==
  \/ OtherBegins
  \/ \E k \in Ids : OtherCommits(k)
  \/ Type
  \/ \E c \in Calls :
       \/ \E p \in 1..(MaxReplies + 1) : GoToPage(c, p)
       \/ \E k \in Votable, want \in Ballot : Vote(c, k, want)
       \/ Submit(c) \/ Serve(c) \/ Refused(c) \/ Lost(c)

Spec == Init /\ [][Next]_vars

-----------------------------------------------------------------------------
(* Properties *)

\* The list under a page number is the list of that page, once nothing is being
\* fetched, unless the fetch crossed another fetch or a post, or the last one
\* failed (setPage and the effect of useThreadPage.ts:123).
PageShownIsPageAsked == Pending("list") # {} \/ shownPage \in {0, page}

\* No reply is listed twice and no page is longer than a page, however count,
\* list, posts of others and the append interleave (useThreadPage.ts:154), until
\* a reply is appended while a fetch or another post is in flight.
PageIsWellFormed ==
  spliced \/ (Len(replies) <= PageSize /\ Cardinality(Shown) = Len(replies))

\* After posting, the user sees the reply (useThreadPage.ts:145): if the client's
\* count was right, nothing crossed the post, no page was asked for since, and
\* the fetch of the reply's page, where one was made, did not fail.
OwnReplyIsShown ==
  \/ ~Settled \/ shownPage = 0
  \/ owed.id = 0 \/ Rank(owed.id) # owed.rank
  \/ owed.id \in Shown

\* The arrows show the votes that are stored (useThreadPage.ts:254), however they
\* are cast, flipped and taken back, until a vote crosses another vote or a fetch,
\* a reply is appended whose post crossed a fetch, or the answer to a vote is lost
\* or refused after it was stored. The next list that crosses no vote mends them.
ArrowsShowStoredVotes ==
  \/ smudged \/ Pending("vote") # {}
  \/ \A i \in DOMAIN replies : replies[i].vote = votes[replies[i].id]

\* A text that was typed is posted once, or still in the box to be posted, unless
\* the box was used during a post or the answer to a post was lost.
TextIsPostedOnce ==
  \/ spoilt
  \/ /\ \A t \in 1..typed : copies[t] <= 1
     /\ typed > 0 => copies[typed] = 1 \/ draft = typed
     /\ draft # 0 /\ copies[draft] = 1 => Pending("post") # {}
=============================================================================
