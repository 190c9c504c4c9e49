------------------------------- MODULE Forum --------------------------------
(***************************************************************************)
(* The threads of one topic and their replies: the handlers of             *)
(* backend/src/forum/forum_routes.py with the triggers of migrations       *)
(* dbf6e01bd472 (counts) and 937ffa3d466e (last activity).                 *)
(*                                                                         *)
(* Each request is a transaction at READ COMMITTED that first reads the    *)
(* row it is about, checks it, and writes in a later statement.  A row's   *)
(* created_at is the start of its transaction, which is the check, so a    *)
(* row may be committed after a younger one.  created_at names the row:    *)
(* rows are numbered in the order their transactions began.                *)
(*                                                                         *)
(* Every write to replies goes through the thread's row and then the       *)
(* topic's row, whose locks are held until the commit, so the INSERT or    *)
(* UPDATE, its triggers and the commit are one step.  The soft-delete of a *)
(* thread is not: its trigger reads the topic and the other threads before *)
(* it takes the topic's lock.  While it runs it holds its own row, and     *)
(* requests that would write that row wait.                                *)
(***************************************************************************)
EXTENDS Integers, FiniteSetsExt

CONSTANTS
  Requests,    \* requests in flight at once
  MaxRows      \* bound: threads and replies ever created

ASSUME RowsAssumption == MaxRows \in Nat

Rows == 1..MaxRows
Null == 0      \* a NULL reference or timestamp

VARIABLES
  threads,     \* committed rows of thread
  home,        \* thread_id of each committed row of reply, Null for other rows
  deleted,     \* rows with is_deleted
  locked,      \* threads with is_locked
  replyCount,  \* thread.reply_count
  lastReply,   \* thread.last_activity
  lastAt,      \* thread.last_activity_at
  topic,       \* the counts and the last activity of the topic
  request,     \* the requests in flight
  clock,       \* the last created_at given out
  overlapped   \* history: were two requests in flight at once?

tables == <<threads, home, deleted, locked, replyCount, lastReply, lastAt, topic>>
vars == <<tables, request, clock, overlapped>>

LiveThreads == threads \ deleted
LiveReplies(t) == {r \in Rows : home[r] = t} \ deleted
Replies == {r \in Rows : home[r] # Null}

Idle == [op |-> "idle", on |-> Null, in |-> Null, pick |-> Null]

Request ==
  [op : {"idle", "newThread", "newReply", "dropReply", "dropThread", "pick", "repoint", "count",
         "lock", "unlock"},
   on : Rows \cup {Null}, in : Rows \cup {Null}, pick : Rows \cup {Null}]

TypeOK ==
  /\ threads \subseteq Rows
  /\ home \in [Rows -> Rows \cup {Null}]
  /\ deleted \subseteq threads \cup Replies
  /\ locked \subseteq threads
  /\ replyCount \in [Rows -> Nat]
  /\ lastReply \in [Rows -> Rows \cup {Null}]
  /\ lastAt \in [Rows -> Rows \cup {Null}]
  /\ topic \in [threads : Nat, replies : Nat, last : Rows \cup {Null}, lastAt : Rows \cup {Null}]
  /\ request \in [Requests -> Request]
  /\ clock \in Rows \cup {0}
  /\ overlapped \in BOOLEAN

Init ==
  /\ threads = {} /\ deleted = {} /\ locked = {}
  /\ home = [r \in Rows |-> Null]
  /\ replyCount = [r \in Rows |-> 0]
  /\ lastReply = [r \in Rows |-> Null]
  /\ lastAt = [r \in Rows |-> Null]
  /\ topic = [threads |-> 0, replies |-> 0, last |-> Null, lastAt |-> Null]
  /\ request = [q \in Requests |-> Idle]
  /\ clock = 0
  /\ overlapped = FALSE

-----------------------------------------------------------------------------
(* The first half of each request: load, check. *)

Begin(q, r) ==
  /\ request[q] = Idle
  /\ request' = [request EXCEPT ![q] = r]
  /\ overlapped' = (overlapped \/ \E p \in Requests : request[p] # Idle)
  /\ UNCHANGED tables

\* create_thread: the topic exists and is not locked; no code locks a topic.
BeginThread(q) ==
  /\ clock < MaxRows
  /\ clock' = clock + 1
  /\ Begin(q, [op |-> "newThread", on |-> clock + 1, in |-> Null, pick |-> Null])

\* create_reply: the thread is there, not deleted and not locked.
BeginReply(q, t) ==
  /\ clock < MaxRows
  /\ t \in LiveThreads \ locked
  /\ clock' = clock + 1
  /\ Begin(q, [op |-> "newReply", on |-> clock + 1, in |-> t, pick |-> Null])

\* delete_reply, by the author or an admin.
BeginDropReply(q, r) ==
  /\ r \in Replies \ deleted
  /\ Begin(q, [op |-> "dropReply", on |-> r, in |-> home[r], pick |-> Null])
  /\ UNCHANGED clock

\* delete_thread, by the author or an admin.
BeginDropThread(q, t) ==
  /\ t \in LiveThreads
  /\ Begin(q, [op |-> "dropThread", on |-> t, in |-> t, pick |-> Null])
  /\ UNCHANGED clock

\* update_thread with is_locked.  The session writes the column only if the
\* value differs from the one it loaded; other columns are not modelled.
BeginSetLock(q, t) ==
  /\ t \in LiveThreads
  /\ Begin(q, [op |-> IF t \in locked THEN "unlock" ELSE "lock", on |-> t, in |-> t, pick |-> Null])
  /\ UNCHANGED clock

-----------------------------------------------------------------------------
(* The second half: write, triggers, commit. *)

Ends(q) == request' = [request EXCEPT ![q] = Idle] /\ UNCHANGED <<clock, overlapped>>

\* No soft-delete of thread t is between its UPDATE and its commit.
RowIsFree(t) ==
  \A q \in Requests : request[q].op \in {"pick", "repoint", "count"} => request[q].on # t

\* Mutant of Touched: the timestamp is overwritten by an older one.
TouchedAlways(t, at) == [topic EXCEPT !.last = t, !.lastAt = at]

\* The topic after activity in thread t at time "at".
Touched(t, at) ==
  IF topic.lastAt = Null \/ at >= topic.lastAt
  THEN [topic EXCEPT !.last = t, !.lastAt = at]
  ELSE topic

CommitThread(q) ==
  LET t == request[q].on IN
  /\ request[q].op = "newThread"
  /\ threads' = threads \cup {t}
  /\ topic' = [Touched(t, t) EXCEPT !.threads = @ + 1]
  /\ Ends(q)
  /\ UNCHANGED <<home, deleted, locked, replyCount, lastReply, lastAt>>

\* The checks of BeginReply are not repeated.
CommitReply(q) ==
  LET r == request[q].on
      t == request[q].in
  IN
  /\ request[q].op = "newReply"
  /\ RowIsFree(t)
  /\ home' = [home EXCEPT ![r] = t]
  /\ replyCount' = [replyCount EXCEPT ![t] = @ + 1]
  /\ lastReply' = [lastReply EXCEPT ![t] = r]
  /\ lastAt' = [lastAt EXCEPT ![t] = r]
  /\ topic' = [Touched(t, r) EXCEPT !.replies = @ + 1]
  /\ Ends(q)
  /\ UNCHANGED <<threads, deleted, locked>>

\* Mutants of LatestReply: deleted replies are not left out; oldest first.
LatestReplyOfAll(t, r) ==
  LET rest == {s \in Rows : home[s] = t} \ {r} IN IF rest = {} THEN Null ELSE Max(rest)
LatestReplyAscending(t, r) ==
  LET rest == LiveReplies(t) \ {r} IN IF rest = {} THEN Null ELSE Min(rest)

\* The most recent live reply of t other than r.
LatestReply(t, r) ==
  LET rest == LiveReplies(t) \ {r} IN IF rest = {} THEN Null ELSE Max(rest)

\* What the triggers do when reply r of thread t becomes deleted.
DropReplyEffect(t, r) ==
  /\ deleted' = deleted \cup {r}
  /\ replyCount' = [replyCount EXCEPT ![t] = @ - 1]
  /\ topic' = [topic EXCEPT !.replies = @ - 1]
  /\ lastReply' = [lastReply EXCEPT ![t] = LatestReply(t, r)]
  /\ lastAt' = [lastAt EXCEPT ![t] = IF LatestReply(t, r) = Null THEN t ELSE LatestReply(t, r)]
  /\ UNCHANGED <<threads, home, locked>>

\* Mutant of CommitDropReply: the trigger does not look at OLD.is_deleted.
CommitDropReplyTwice(q) ==
  LET r == request[q].on
      t == request[q].in
  IN
  /\ request[q].op = "dropReply"
  /\ RowIsFree(t)
  /\ DropReplyEffect(t, r)
  /\ Ends(q)

\* The triggers act only if this UPDATE is the one that sets is_deleted.
CommitDropReply(q) ==
  LET r == request[q].on
      t == request[q].in
  IN
  /\ request[q].op = "dropReply"
  /\ IF r \in deleted THEN UNCHANGED tables ELSE RowIsFree(t) /\ DropReplyEffect(t, r)
  /\ Ends(q)

CommitSetLock(q) ==
  LET t == request[q].on IN
  /\ request[q].op \in {"lock", "unlock"}
  /\ RowIsFree(t)
  /\ locked' = IF request[q].op = "lock" THEN locked \cup {t} ELSE locked \ {t}
  /\ Ends(q)
  /\ UNCHANGED <<threads, home, deleted, replyCount, lastReply, lastAt, topic>>

\* Mutant of MarkThread: the trigger does not look at OLD.is_deleted.
MarkThreadTwice(q) ==
  LET t == request[q].on IN
  /\ request[q].op = "dropThread"
  /\ RowIsFree(t)
  /\ request' = [request EXCEPT ![q].op = IF topic.last = t THEN "pick" ELSE "count"]
  /\ UNCHANGED <<tables, clock, overlapped>>

\* UPDATE thread takes the thread's row, unless it is deleted already; the
\* trigger asks whether it was the last thread of the topic.
MarkThread(q) ==
  LET t == request[q].on IN
  /\ request[q].op = "dropThread"
  /\ RowIsFree(t)
  /\ IF t \in deleted
     THEN Ends(q)
     ELSE /\ request' = [request EXCEPT ![q].op = IF topic.last = t THEN "pick" ELSE "count"]
          /\ UNCHANGED <<clock, overlapped>>
  /\ UNCHANGED tables

\* COALESCE(last_activity_at, created_at)
Activity(t) == IF lastAt[t] = Null THEN t ELSE lastAt[t]

\* Mutant of OtherThreads: deleted threads are not left out.
OtherThreadsOfAll(t) == threads \ {t}

\* The threads that may take the place of t.
OtherThreads(t) == LiveThreads \ {t}

\* The trigger reads the next most recent thread, and its last_activity_at.
PickThread(q) ==
  /\ request[q].op = "pick"
  /\ LET rest == OtherThreads(request[q].on) IN
     IF rest = {}
     THEN request' = [request EXCEPT ![q].op = "repoint", ![q].in = Null]
     ELSE \E t \in rest :
            /\ \A s \in rest : Activity(s) <= Activity(t)
            /\ request' = [request EXCEPT ![q].op = "repoint", ![q].in = t, ![q].pick = lastAt[t]]
  /\ UNCHANGED <<tables, clock, overlapped>>

\* The triggers write the topic, and the transaction commits.
CommitDropThread(q) ==
  LET t == request[q].on IN
  /\ request[q].op \in {"repoint", "count"}
  /\ deleted' = deleted \cup {t}
  /\ topic' = IF request[q].op = "repoint"
              THEN [topic EXCEPT !.threads = @ - 1, !.last = request[q].in,
                                 !.lastAt = request[q].pick]
              ELSE [topic EXCEPT !.threads = @ - 1]
  /\ Ends(q)
  /\ UNCHANGED <<threads, home, locked, replyCount, lastReply, lastAt>>

Next ==
  \E q \in Requests :
    \/ BeginThread(q)
    \/ \E t \in Rows : BeginReply(q, t) \/ BeginDropThread(q, t) \/ BeginSetLock(q, t)
    \/ \E r \in Rows : BeginDropReply(q, r)
    \/ CommitThread(q) \/ CommitReply(q) \/ CommitDropReply(q) \/ CommitSetLock(q)
    \/ MarkThread(q) \/ PickThread(q) \/ CommitDropThread(q)

Spec == Init /\ [][Next]_vars

-----------------------------------------------------------------------------
(* Properties *)

\* thread_count and reply_count are exact whatever overlaps: the topic counts
\* its live threads and every live reply, those of deleted threads included.
CountsExact ==
  /\ topic.threads = Cardinality(LiveThreads)
  /\ topic.replies = Cardinality(Replies \ deleted)
  /\ \A t \in threads : replyCount[t] = Cardinality(LiveReplies(t))

\* thread.last_activity is a live reply of the thread, with its created_at,
\* as long as there is one, however inserts and soft-deletes overlap.
LastReplyIsLive ==
  \A t \in threads :
    IF LiveReplies(t) = {}
    THEN lastReply[t] = Null /\ lastAt[t] \in {Null, t}
    ELSE lastReply[t] \in LiveReplies(t) /\ lastAt[t] = lastReply[t]

\* Only the soft-delete of a thread takes the topic's last activity back: a
\* row that is committed late never does.
TopicMovesForward ==
  [][topic'.lastAt < topic.lastAt => LiveThreads' # LiveThreads /\ threads' = threads]_vars

\* Migration 937ffa3d466e:99-102: the topic's last thread is a live one, and
\* there is one unless no live thread remains.
TopicPointsAtLiveThread ==
  IF LiveThreads = {} THEN topic.last = Null ELSE topic.last \in LiveThreads

\* Only requests that overlap make the topic point at a thread that is gone,
\* or at none.
TopicIsStaleOnlyByOverlap == overlapped \/ TopicPointsAtLiveThread

\* As long as no requests overlap, thread.last_activity is the newest live reply.
LastReplyIsNewest ==
  overlapped
    \/ \A t \in threads : LiveReplies(t) # {} => lastReply[t] = Max(LiveReplies(t))

\* Migration 937ffa3d466e:93: the topic's two fields are kept in sync, so both
\* are null or neither is.
TopicFieldsInSync == topic.last = Null <=> topic.lastAt = Null
=============================================================================
