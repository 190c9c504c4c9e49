---------------------------- MODULE ForumProofs -----------------------------
(***************************************************************************)
(* The threads of a topic and their replies, for any number of rows and of *)
(* requests in flight.                                                     *)
(***************************************************************************)
EXTENDS Forum, FiniteSetTheorems, WellFoundedInduction, TLAPS

-----------------------------------------------------------------------------
(* Sets of rows                                                            *)

LEMMA RowsAreFinite ==
  ASSUME NEW S \in SUBSET Rows PROVE IsFiniteSet(S) /\ Cardinality(S) \in Nat
<1>1. IsFiniteSet(Rows)
  BY RowsAssumption, FS_Interval DEF Rows
<1>2. QED
  BY <1>1, FS_Subset, FS_CardinalityType

\* Rows has no infinite ascent, so a set of rows that is not empty has a newest.
LEMMA NewestRow ==
  ASSUME NEW S \in SUBSET Rows, S # {}
  PROVE  Max(S) \in S /\ \A x \in S : x <= Max(S)
<1> DEFINE T == {MaxRows - x : x \in S}
<1>1. \A x \in S : x \in Nat /\ x <= MaxRows
  BY RowsAssumption DEF Rows
<1>2. T \subseteq Nat /\ T # {}
  BY <1>1, RowsAssumption
<1>3. \E m \in T : \A y \in T : ~(<<y, m>> \in OpToRel(<, Nat))
  BY <1>2, WFMin, NatLessThanWellFounded
<1>4. PICK m \in T : \A y \in T : ~(y < m)
  BY <1>2, <1>3 DEF OpToRel
<1>5. PICK x \in S : m = MaxRows - x
  OBVIOUS
<1>6. ASSUME NEW y \in S PROVE x >= y
  <2>1. ~(MaxRows - y < m)
    BY <1>4
  <2>2. QED
    BY <1>1, <1>5, <2>1, RowsAssumption
<1>7. Max(S) \in S /\ \A y \in S : Max(S) >= y
  BY <1>5, <1>6 DEF Max
<1>8. QED
  BY <1>1, <1>7

-----------------------------------------------------------------------------
(* The invariant                                                           *)

Creating(r) == r.op \in {"newThread", "newReply"}
Dropping(r) == r.op \in {"pick", "repoint", "count"}
OnThread(r) == r.op \in {"dropThread", "pick", "repoint", "count", "lock", "unlock"}

\* A number is a thread or a reply of one, or not committed yet.
Numbering ==
  /\ \A r \in Rows : home[r] # Null => home[r] \in threads /\ r \notin threads
  /\ \A r \in threads \cup Replies : r <= clock
  /\ \A r \in Rows \ threads : replyCount[r] = 0 /\ lastReply[r] = Null /\ lastAt[r] = Null

\* What a request is about.
Names(r) ==
  /\ Creating(r) => r.on \in Rows \ (threads \cup Replies) /\ r.on <= clock
  /\ r.op = "newReply" => r.in \in threads
  /\ r.op = "dropReply" => r.on \in Replies /\ r.in = home[r.on]
  /\ OnThread(r) => r.on \in threads
  /\ Dropping(r) => r.on \notin deleted

\* No two requests make one row, or soft-delete one thread, at once.
OwnRows ==
  \A p, q \in Requests :
    /\ request[p].on = request[q].on
    /\ (Creating(request[p]) /\ Creating(request[q]))
       \/ (Dropping(request[p]) /\ Dropping(request[q]))
    => p = q

Inv ==
  /\ TypeOK
  /\ Numbering
  /\ \A q \in Requests : Names(request[q])
  /\ OwnRows
  /\ CountsExact
  /\ LastReplyIsLive

-----------------------------------------------------------------------------
LEMMA IdleType == Idle \in Request /\ Names(Idle) /\ ~Creating(Idle) /\ ~Dropping(Idle)
BY DEF Idle, Request, Names, Creating, Dropping, OnThread

LEMMA Put ==
  ASSUME request \in [Requests -> Request], NEW q \in Requests, NEW r \in Request,
         request' = [request EXCEPT ![q] = r]
  PROVE  /\ request' \in [Requests -> Request]
         /\ request'[q] = r
         /\ \A p \in Requests \ {q} : request'[p] = request[p]
OBVIOUS

LEMMA RowSets ==
  ASSUME TypeOK
  PROVE  /\ Null \notin Rows /\ clock \in Nat
         /\ LiveThreads \in SUBSET Rows /\ Replies \ deleted \in SUBSET Rows
         /\ \A t : LiveReplies(t) \in SUBSET Rows
BY DEF TypeOK, Null, Rows, LiveThreads, LiveReplies, Replies

LEMMA InitInv == Init => Inv
<1> SUFFICES ASSUME Init PROVE Inv
  OBVIOUS
<1>1. TypeOK
  <2>1. request \in [Requests -> Request]
    BY IdleType DEF Init
  <2>2. replyCount \in [Rows -> Nat] /\ home \in [Rows -> Rows \cup {Null}]
        /\ lastReply \in [Rows -> Rows \cup {Null}] /\ lastAt \in [Rows -> Rows \cup {Null}]
    BY DEF Init
  <2>3. QED
    BY <2>1, <2>2 DEF Init, TypeOK
<1>2. threads = {} /\ Replies = {} /\ LiveThreads = {}
  BY DEF Init, Replies, LiveThreads
<1>3. Numbering
  BY <1>2 DEF Init, Numbering
<1>4. (\A q \in Requests : Names(request[q])) /\ OwnRows
  BY IdleType DEF Init, OwnRows
<1>5. CountsExact /\ LastReplyIsLive
  <2>1. Cardinality({}) = 0 /\ Replies \ deleted = {}
    BY <1>2, FS_EmptySet
  <2>2. QED
    BY <1>2, <2>1 DEF Init, CountsExact, LastReplyIsLive
<1>6. QED
  BY <1>1, <1>3, <1>4, <1>5 DEF Inv

\* A request begins, or goes on, and no table changes.
LEMMA Moved ==
  ASSUME Inv, NEW q \in Requests, NEW r \in Request, request' = [request EXCEPT ![q] = r],
         UNCHANGED tables, overlapped' \in BOOLEAN, clock' \in Rows \cup {0}, clock' >= clock,
         IF Creating(r)
         THEN r.on \in Rows /\ clock < r.on /\ r.on <= clock' /\ (r.op = "newReply" => r.in \in threads)
         ELSE Names(r),
         \A p \in Requests \ {q} :
           Dropping(r) /\ Dropping(request[p]) => request[p].on # r.on
  PROVE  Inv'
<1>1. /\ request' \in [Requests -> Request]
      /\ request'[q] = r
      /\ \A p \in Requests \ {q} : request'[p] = request[p]
  BY Put DEF Inv, TypeOK
<1>2. TypeOK'
  BY <1>1 DEF Inv, TypeOK, tables, Replies
<1>3. clock \in Int /\ clock' \in Int /\ \A p \in threads \cup Replies : p \in Int /\ p <= clock
  BY RowsAssumption DEF Inv, TypeOK, Numbering, Rows, Replies
<1>4. Numbering'
  <2>1. \A p \in (threads \cup Replies)' : p <= clock'
    <3>1. (threads \cup Replies)' = threads \cup Replies
      BY DEF tables, Replies
    <3>2. QED
      BY <1>3, <3>1
  <2>2. QED
    BY <2>1 DEF Inv, Numbering, tables
<1>5. ASSUME NEW p \in Requests PROVE Names(request[p])'
  <2>1. CASE p # q
    <3>1. Names(request[p]) /\ request'[p] = request[p] /\ request[p] \in Request
      BY <1>1, <2>1 DEF Inv, TypeOK
    <3>2. Creating(request[p]) => request[p].on <= clock'
      BY <1>3, <3>1, RowsAssumption DEF Names, Rows
    <3>3. QED
      BY <3>1, <3>2 DEF Names, tables, Replies, Creating, OnThread, Dropping
  <2>2. CASE p = q
    <3>1. Creating(r) => r.on \in Rows \ (threads \cup Replies)
      BY <1>3, RowsAssumption DEF Rows
    <3>2. QED
      BY <1>1, <2>2, <3>1 DEF Names, tables, Replies, Creating, OnThread, Dropping
  <2>3. QED
    BY <2>1, <2>2
<1>6. OwnRows'
  <2>1. ~(Creating(r) /\ Dropping(r))
    BY DEF Creating, Dropping
  <2>2. \A p \in Requests \ {q} : Creating(r) /\ Creating(request[p]) => request[p].on # r.on
    BY <1>3, RowsAssumption DEF Inv, Names, Rows
  <2>3. QED
    BY <1>1, <2>1, <2>2 DEF Inv, OwnRows
<1>7. CountsExact' /\ LastReplyIsLive'
  BY DEF Inv, CountsExact, LastReplyIsLive, tables, LiveThreads, LiveReplies, Replies
<1>8. QED
  BY <1>2, <1>4, <1>5, <1>6, <1>7 DEF Inv

LEMMA BeginCreate ==
  ASSUME Inv, NEW q \in Requests, NEW r, Begin(q, r),
         clock < MaxRows, clock' = clock + 1, r.on = clock + 1,
         \/ r = [op |-> "newThread", on |-> clock + 1, in |-> Null, pick |-> Null]
         \/ \E t \in threads :
              r = [op |-> "newReply", on |-> clock + 1, in |-> t, pick |-> Null]
  PROVE  Inv'
<1>1. clock \in Nat /\ clock + 1 \in Rows /\ threads \subseteq Rows
  BY RowsAssumption DEF Inv, TypeOK, Rows
<1>2. r \in Request /\ Creating(r) /\ ~Dropping(r) /\ (r.op = "newReply" => r.in \in threads)
  BY <1>1 DEF Request, Creating, Dropping
<1>3. /\ request' = [request EXCEPT ![q] = r] /\ UNCHANGED tables
      /\ overlapped' \in BOOLEAN
  BY DEF Begin, Inv, TypeOK
<1>4. clock < r.on /\ r.on <= clock' /\ clock' \in Rows \cup {0} /\ clock' >= clock
  BY <1>1
<1>5. QED
  BY <1>1, <1>2, <1>3, <1>4, Moved

LEMMA BeginOther ==
  ASSUME Inv, NEW q \in Requests, NEW r \in Request, Begin(q, r), UNCHANGED clock,
         ~Creating(r), ~Dropping(r), Names(r)
  PROVE  Inv'
<1>1. /\ request' = [request EXCEPT ![q] = r] /\ UNCHANGED tables
      /\ overlapped' \in BOOLEAN /\ clock' \in Rows \cup {0} /\ clock' >= clock
  BY RowsAssumption DEF Begin, Inv, TypeOK, Rows
<1>2. QED
  BY <1>1, Moved

LEMMA BeginStep ==
  ASSUME Inv, NEW q \in Requests,
         \/ BeginThread(q)
         \/ \E t \in Rows :
              BeginReply(q, t) \/ BeginDropThread(q, t) \/ BeginSetLock(q, t)
              \/ BeginDropReply(q, t)
  PROVE  Inv'
<1>1. threads \subseteq Rows /\ \A r \in Rows : home[r] \in Rows \cup {Null}
  BY DEF Inv, TypeOK
<1>2. CASE BeginThread(q)
  BY <1>2, BeginCreate DEF BeginThread
<1>3. ASSUME NEW t \in Rows, BeginReply(q, t) PROVE Inv'
  <2>1. t \in threads
    BY <1>3 DEF BeginReply, LiveThreads
  <2>2. QED
    BY <1>3, <2>1, BeginCreate DEF BeginReply
<1>4. ASSUME NEW t \in Rows, BeginDropThread(q, t) PROVE Inv'
  <2> DEFINE r == [op |-> "dropThread", on |-> t, in |-> t, pick |-> Null]
  <2>1. t \in threads
    BY <1>4 DEF BeginDropThread, LiveThreads
  <2>2. r \in Request /\ ~Creating(r) /\ ~Dropping(r) /\ Names(r)
    BY <2>1 DEF Request, Creating, Dropping, Names, OnThread
  <2>3. QED
    BY <1>4, <2>2, BeginOther DEF BeginDropThread
<1>5. ASSUME NEW t \in Rows, BeginSetLock(q, t) PROVE Inv'
  <2> DEFINE r == [op |-> IF t \in locked THEN "unlock" ELSE "lock", on |-> t, in |-> t,
                   pick |-> Null]
  <2>1. t \in threads
    BY <1>5 DEF BeginSetLock, LiveThreads
  <2>2. r \in Request /\ ~Creating(r) /\ ~Dropping(r) /\ Names(r)
    BY <2>1 DEF Request, Creating, Dropping, Names, OnThread
  <2>3. QED
    BY <1>5, <2>2, BeginOther DEF BeginSetLock
<1>6. ASSUME NEW t \in Rows, BeginDropReply(q, t) PROVE Inv'
  <2> DEFINE r == [op |-> "dropReply", on |-> t, in |-> home[t], pick |-> Null]
  <2>1. t \in Replies
    BY <1>6 DEF BeginDropReply
  <2>2. r \in Request /\ ~Creating(r) /\ ~Dropping(r) /\ Names(r)
    BY <1>1, <2>1 DEF Request, Creating, Dropping, Names, OnThread
  <2>3. QED
    BY <1>6, <2>2, BeginOther DEF BeginDropReply
<1>7. QED
  BY <1>2, <1>3, <1>4, <1>5, <1>6

\* A request ends and has changed nothing.
LEMMA EndsOnly == ASSUME Inv, NEW q \in Requests, Ends(q), UNCHANGED tables PROVE Inv'
<1>1. request' = [request EXCEPT ![q] = Idle] /\ overlapped' \in BOOLEAN
      /\ clock' \in Rows \cup {0} /\ clock' >= clock
  BY RowsAssumption DEF Ends, Inv, TypeOK, Rows
<1>2. QED
  BY <1>1, IdleType, Moved

LEMMA MarkStep == ASSUME Inv, NEW q \in Requests, MarkThread(q) PROVE Inv'
<1>1. CASE Ends(q)
  BY <1>1, EndsOnly DEF MarkThread
<1>2. CASE request[q].on \notin deleted
  <2> DEFINE op == IF topic.last = request[q].on THEN "pick" ELSE "count"
  <2> DEFINE r == [request[q] EXCEPT !.op = op]
  <2>1. request[q] \in Request /\ request[q].op = "dropThread" /\ Names(request[q])
        /\ RowIsFree(request[q].on) /\ UNCHANGED <<tables, clock, overlapped>>
        /\ request' = [request EXCEPT ![q] = r]
    BY <1>2 DEF Inv, TypeOK, MarkThread
  <2>2. op \in {"pick", "count"}
    OBVIOUS
  <2> HIDE DEF op
  <2>3. r \in Request /\ r.on = request[q].on /\ r.op \in {"pick", "count"}
    BY <2>1, <2>2 DEF Request
  <2> HIDE DEF r
  <2>4. ~Creating(r) /\ Names(r)
    BY <1>2, <2>1, <2>3 DEF Creating, Names, OnThread, Dropping
  <2>5. \A p \in Requests \ {q} : Dropping(request[p]) => request[p].on # r.on
    BY <2>1, <2>3 DEF RowIsFree, Dropping
  <2>6. overlapped' \in BOOLEAN /\ clock' \in Rows \cup {0} /\ clock' >= clock
    BY <2>1, RowsAssumption DEF Inv, TypeOK, Rows
  <2>7. QED
    BY <2>1, <2>3, <2>4, <2>5, <2>6, Moved
<1>3. QED
  BY <1>1, <1>2 DEF MarkThread

LEMMA PickStep == ASSUME Inv, NEW q \in Requests, PickThread(q) PROVE Inv'
<1>1. request[q] \in Request /\ request[q].op = "pick" /\ Names(request[q])
      /\ UNCHANGED <<tables, clock, overlapped>>
  BY DEF Inv, TypeOK, PickThread
<1>2. ASSUME NEW r \in Request, r.on = request[q].on, r.op = "repoint",
             request' = [request EXCEPT ![q] = r]
      PROVE  Inv'
  <2>1. ~Creating(r) /\ Names(r)
    BY <1>1, <1>2 DEF Creating, Names, OnThread, Dropping
  <2>2. \A p \in Requests \ {q} : Dropping(request[p]) => request[p].on # r.on
    BY <1>1, <1>2 DEF Inv, OwnRows, Dropping
  <2>3. overlapped' \in BOOLEAN /\ clock' \in Rows \cup {0} /\ clock' >= clock
    BY <1>1, RowsAssumption DEF Inv, TypeOK, Rows
  <2>4. QED
    BY <1>1, <1>2, <2>1, <2>2, <2>3, Moved
<1>3. CASE OtherThreads(request[q].on) = {}
  <2> DEFINE r == [request[q] EXCEPT !.op = "repoint", !.in = Null]
  <2>1. request' = [request EXCEPT ![q] = r]
    BY <1>1, <1>3 DEF PickThread, Request, Inv, TypeOK
  <2>2. r \in Request /\ r.on = request[q].on /\ r.op = "repoint"
    BY <1>1 DEF Request
  <2>3. QED
    BY <1>2, <2>1, <2>2
<1>4. CASE OtherThreads(request[q].on) # {}
  <2>1. PICK t \in OtherThreads(request[q].on) :
          request' = [request EXCEPT ![q].op = "repoint", ![q].in = t, ![q].pick = lastAt[t]]
    BY <1>4 DEF PickThread
  <2> DEFINE r == [request[q] EXCEPT !.op = "repoint", !.in = t, !.pick = lastAt[t]]
  <2>2. t \in Rows /\ lastAt[t] \in Rows \cup {Null}
    BY DEF OtherThreads, LiveThreads, Inv, TypeOK
  <2>3. request' = [request EXCEPT ![q] = r]
    BY <2>1
  <2>4. r \in Request /\ r.on = request[q].on /\ r.op = "repoint"
    BY <1>1, <2>2 DEF Request
  <2>5. QED
    BY <1>2, <2>3, <2>4
<1>5. QED
  BY <1>3, <1>4

-----------------------------------------------------------------------------
(* The commits                                                             *)

LEMMA Ended ==
  ASSUME Inv, NEW q \in Requests, Ends(q)
  PROVE  /\ request' \in [Requests -> Request] /\ request'[q] = Idle
         /\ \A p \in Requests \ {q} : request'[p] = request[p]
         /\ OwnRows' /\ UNCHANGED <<clock, overlapped>>
<1>1. /\ request' \in [Requests -> Request] /\ request'[q] = Idle
      /\ \A p \in Requests \ {q} : request'[p] = request[p]
      /\ UNCHANGED <<clock, overlapped>>
  BY Put, IdleType DEF Inv, TypeOK, Ends
<1>2. QED
  BY <1>1, IdleType DEF Inv, OwnRows

LEMMA TouchedType ==
  ASSUME TypeOK, NEW t \in Rows, NEW at \in Rows
  PROVE  /\ Touched(t, at) \in [threads : Nat, replies : Nat, last : Rows \cup {Null},
                                lastAt : Rows \cup {Null}]
         /\ Touched(t, at).threads = topic.threads /\ Touched(t, at).replies = topic.replies
         /\ Touched(t, at).lastAt >= topic.lastAt
<1>1. /\ topic \in [threads : Nat, replies : Nat, last : Rows \cup {Null},
                    lastAt : Rows \cup {Null}]
      /\ at \in Int /\ topic.lastAt \in Int /\ at >= 0
  BY RowsAssumption DEF TypeOK, Rows, Null
<1>2. CASE topic.lastAt = Null \/ at >= topic.lastAt
  <2>1. Touched(t, at) = [topic EXCEPT !.last = t, !.lastAt = at] /\ at >= topic.lastAt
    BY <1>1, <1>2 DEF Touched, Null
  <2>2. QED
    BY <1>1, <2>1
<1>3. CASE ~(topic.lastAt = Null \/ at >= topic.lastAt)
  <2>1. Touched(t, at) = topic
    BY <1>3 DEF Touched
  <2>2. QED
    BY <1>1, <2>1
<1>4. QED
  BY <1>2, <1>3

LEMMA CommitThreadStep == ASSUME Inv, NEW q \in Requests, CommitThread(q) PROVE Inv'
<1> DEFINE t == request[q].on
<1> DEFINE touched == Touched(t, t)
<1>1. /\ request[q].op = "newThread" /\ threads' = threads \cup {t}
      /\ topic' = [touched EXCEPT !.threads = @ + 1] /\ Ends(q)
      /\ UNCHANGED <<home, deleted, locked, replyCount, lastReply, lastAt>>
  BY DEF CommitThread
<1>2. Creating(request[q]) /\ t \in Rows \ (threads \cup Replies) /\ t <= clock
  BY <1>1 DEF Inv, Names, Creating
<1>3. touched \in [threads : Nat, replies : Nat, last : Rows \cup {Null},
                   lastAt : Rows \cup {Null}]
      /\ touched.threads = topic.threads /\ touched.replies = topic.replies
  BY <1>2, TouchedType DEF Inv
<1>4. /\ topic' \in [threads : Nat, replies : Nat, last : Rows \cup {Null},
                     lastAt : Rows \cup {Null}]
      /\ topic'.threads = topic.threads + 1 /\ topic'.replies = topic.replies
  BY <1>1, <1>3
<1> HIDE DEF touched, t
<1>5. UNCHANGED <<Replies, home, deleted>>
  BY <1>1 DEF Replies
<1>6. t \notin deleted /\ LiveReplies(t) = {} /\ \A s : LiveReplies(s)' = LiveReplies(s)
  BY <1>1, <1>2 DEF Inv, TypeOK, Numbering, LiveReplies, RowSets, Null, Rows
<1>7. TypeOK'
  BY <1>1, <1>2, <1>4, <1>5, Ended DEF Inv, TypeOK
<1>8. Numbering'
  <2>1. clock' = clock
    BY <1>1, Ended
  <2>2. \A r \in Rows : home'[r] # Null => home'[r] \in threads' /\ r \notin threads'
    BY <1>1, <1>2 DEF Inv, Numbering, Replies
  <2>3. \A r \in threads' \cup Replies' : r <= clock'
    BY <1>1, <1>2, <1>5, <2>1 DEF Inv, Numbering
  <2>4. QED
    BY <1>1, <2>2, <2>3 DEF Inv, Numbering
<1>9. ASSUME NEW p \in Requests PROVE Names(request[p])'
  <2>1. CASE p = q
    BY <2>1, Ended, <1>1 DEF Names, Idle, Creating, OnThread, Dropping
  <2>2. CASE p # q
    <3>1. Names(request[p]) /\ request'[p] = request[p] /\ clock' = clock
      BY <1>1, <2>2, Ended DEF Inv
    <3>2. Creating(request[p]) => request[p].on # t
      BY <1>2, <2>2 DEF Inv, OwnRows, t
    <3>3. QED
      BY <1>1, <1>5, <3>1, <3>2 DEF Names
  <2>3. QED
    BY <2>1, <2>2
<1>10. CountsExact'
  <2>1. LiveThreads' = LiveThreads \cup {t} /\ t \notin LiveThreads
    BY <1>1, <1>2, <1>6 DEF LiveThreads
  <2>2. Cardinality(LiveThreads') = Cardinality(LiveThreads) + 1
    BY <2>1, RowSets, RowsAreFinite, FS_AddElement DEF Inv
  <2>3. replyCount[t] = 0 /\ Cardinality(LiveReplies(t)) = 0
    BY <1>2, <1>6, FS_EmptySet DEF Inv, Numbering
  <2>4. QED
    BY <1>1, <1>4, <1>5, <1>6, <2>2, <2>3 DEF Inv, CountsExact
<1>11. LastReplyIsLive'
  <2>1. lastReply[t] = Null /\ lastAt[t] = Null
    BY <1>2 DEF Inv, Numbering
  <2>2. QED
    BY <1>1, <1>6, <2>1 DEF Inv, LastReplyIsLive
<1>12. QED
  BY <1>1, <1>7, <1>8, <1>9, <1>10, <1>11, Ended DEF Inv

LEMMA CommitReplyStep == ASSUME Inv, NEW q \in Requests, CommitReply(q) PROVE Inv'
<1>1. request[q].op = "newReply" /\ Names(request[q]) /\ Creating(request[q])
  BY DEF Inv, CommitReply, Creating
<1>2. PICK r \in Rows, t \in threads : r = request[q].on /\ t = request[q].in
  BY <1>1 DEF Names
<1>3. /\ home' = [home EXCEPT ![r] = t] /\ replyCount' = [replyCount EXCEPT ![t] = @ + 1]
      /\ lastReply' = [lastReply EXCEPT ![t] = r] /\ lastAt' = [lastAt EXCEPT ![t] = r]
      /\ topic' = [Touched(t, r) EXCEPT !.replies = @ + 1]
      /\ Ends(q) /\ UNCHANGED <<threads, deleted, locked>>
  BY <1>2 DEF CommitReply
<1>4. r \notin threads \cup Replies /\ r <= clock /\ t \in Rows
  BY <1>1, <1>2 DEF Names, Inv, TypeOK
<1>5. Touched(t, r) \in [threads : Nat, replies : Nat, last : Rows \cup {Null},
                         lastAt : Rows \cup {Null}]
      /\ Touched(t, r).threads = topic.threads /\ Touched(t, r).replies = topic.replies
  BY <1>4, TouchedType DEF Inv
<1>6. /\ topic' \in [threads : Nat, replies : Nat, last : Rows \cup {Null},
                     lastAt : Rows \cup {Null}]
      /\ topic'.threads = topic.threads /\ topic'.replies = topic.replies + 1
  BY <1>3, <1>5
<1>7. Null \notin Rows /\ r \notin deleted /\ home[r] = Null
      /\ home \in [Rows -> Rows \cup {Null}]
  BY <1>4, RowSets DEF Inv, TypeOK, Replies
<1>8. Replies' = Replies \cup {r} /\ LiveReplies(t)' = LiveReplies(t) \cup {r}
      /\ r \notin LiveReplies(t)
      /\ \A s : s # t /\ s # Null => LiveReplies(s)' = LiveReplies(s)
  BY <1>3, <1>4, <1>7 DEF Replies, LiveReplies
<1>9. TypeOK'
  BY <1>3, <1>4, <1>6, <1>8, Ended DEF Inv, TypeOK
<1>10. Numbering'
  <2>1. clock' = clock
    BY <1>3, Ended
  <2>2. \A s \in Rows : home'[s] # Null => home'[s] \in threads' /\ s \notin threads'
    BY <1>3, <1>4, <1>7 DEF Inv, Numbering
  <2>3. \A s \in threads' \cup Replies' : s <= clock'
    BY <1>3, <1>4, <1>8, <2>1 DEF Inv, Numbering
  <2>4. \A s \in Rows \ threads' :
          replyCount'[s] = 0 /\ lastReply'[s] = Null /\ lastAt'[s] = Null
    BY <1>3, <1>4 DEF Inv, Numbering, TypeOK
  <2>5. QED
    BY <2>2, <2>3, <2>4 DEF Numbering
<1>11. ASSUME NEW p \in Requests PROVE Names(request[p])'
  <2>1. CASE p = q
    BY <2>1, Ended, <1>3 DEF Names, Idle, Creating, OnThread, Dropping
  <2>2. CASE p # q
    <3>1. Names(request[p]) /\ request'[p] = request[p] /\ clock' = clock
      BY <1>3, <2>2, Ended DEF Inv
    <3>2. Creating(request[p]) => request[p].on # r
      BY <1>1, <1>2, <2>2 DEF Inv, OwnRows
    <3>3. request[p].op = "dropReply" => request[p].on # r
      BY <1>4, <3>1 DEF Names
    <3>4. request[p].op = "dropReply" => home'[request[p].on] = home[request[p].on]
      BY <1>3, <1>7, <3>1, <3>3 DEF Names, Replies
    <3>5. QED
      BY <1>3, <1>8, <3>1, <3>2, <3>4 DEF Names, Creating, OnThread, Dropping
  <2>3. QED
    BY <2>1, <2>2
<1>12. CountsExact'
  <2>1. Cardinality(LiveReplies(t)') = Cardinality(LiveReplies(t)) + 1
    BY <1>8, RowSets, RowsAreFinite, FS_AddElement DEF Inv
  <2>2. (Replies \ deleted)' = (Replies \ deleted) \cup {r} /\ r \notin Replies \ deleted
    BY <1>3, <1>4, <1>7, <1>8
  <2>3. Cardinality((Replies \ deleted)') = Cardinality(Replies \ deleted) + 1
    BY <2>2, RowSets, RowsAreFinite, FS_AddElement DEF Inv
  <2>4. LiveThreads' = LiveThreads
    BY <1>3 DEF LiveThreads
  <2>5. \A s \in threads : replyCount'[s] = Cardinality(LiveReplies(s)')
    <3>1. \A s \in threads : s # t => replyCount'[s] = replyCount[s] /\ s # Null
      BY <1>3, <1>7 DEF Inv, TypeOK
    <3>2. replyCount'[t] = replyCount[t] + 1
      BY <1>3, <1>4 DEF Inv, TypeOK
    <3>3. QED
      BY <1>8, <2>1, <3>1, <3>2 DEF Inv, CountsExact
  <2>6. QED
    BY <1>3, <1>6, <2>3, <2>4, <2>5 DEF Inv, CountsExact
<1>13. LastReplyIsLive'
  <2>1. \A s \in threads : s # t => lastReply'[s] = lastReply[s] /\ lastAt'[s] = lastAt[s] /\ s # Null
    BY <1>3, <1>7 DEF Inv, TypeOK
  <2>2. lastReply'[t] = r /\ lastAt'[t] = r
    BY <1>3, <1>4 DEF Inv, TypeOK
  <2>3. QED
    BY <1>3, <1>8, <2>1, <2>2 DEF Inv, LastReplyIsLive
<1>14. QED
  BY <1>3, <1>9, <1>10, <1>11, <1>12, <1>13, Ended DEF Inv

LEMMA CommitDropReplyStep == ASSUME Inv, NEW q \in Requests, CommitDropReply(q) PROVE Inv'
<1>1. request[q].op = "dropReply" /\ Names(request[q])
  BY DEF Inv, CommitDropReply
<1>2. PICK r \in Replies, t \in threads : r = request[q].on /\ t = request[q].in /\ t = home[r]
  BY <1>1 DEF Names, Inv, Numbering, Replies
<1>3. CASE r \in deleted
  BY <1>2, <1>3, EndsOnly DEF CommitDropReply
<1>4. CASE r \notin deleted
  <2>1. DropReplyEffect(t, r) /\ Ends(q)
    BY <1>2, <1>4 DEF CommitDropReply
  <2> DEFINE next == LatestReply(t, r)
  <2>2. r \in Rows /\ t \in Rows /\ Null \notin Rows
    BY <1>2, RowSets DEF Inv, TypeOK, Replies
  <2>3. /\ LiveReplies(t)' = LiveReplies(t) \ {r} /\ r \in LiveReplies(t)
        /\ \A s : s # t => LiveReplies(s)' = LiveReplies(s)
        /\ UNCHANGED <<home, threads, Replies, locked>>
    BY <1>2, <1>4, <2>1, <2>2 DEF DropReplyEffect, LiveReplies, Replies
  <2>4. IF LiveReplies(t) \ {r} = {} THEN next = Null ELSE next \in LiveReplies(t) \ {r}
    <3>1. LiveReplies(t) \ {r} \in SUBSET Rows
      BY RowSets DEF Inv
    <3>2. QED
      BY <3>1, NewestRow DEF LatestReply
  <2>5. next \in Rows \cup {Null}
    BY <2>4 DEF LiveReplies
  <2>6. /\ replyCount' = [replyCount EXCEPT ![t] = @ - 1]
        /\ topic' = [topic EXCEPT !.replies = @ - 1]
        /\ lastReply' = [lastReply EXCEPT ![t] = next]
        /\ lastAt' = [lastAt EXCEPT ![t] = IF next = Null THEN t ELSE next]
        /\ deleted' = deleted \cup {r}
    BY <2>1 DEF DropReplyEffect
  <2> HIDE DEF next
  <2>7. /\ Cardinality(LiveReplies(t)') = Cardinality(LiveReplies(t)) - 1
        /\ replyCount[t] = Cardinality(LiveReplies(t)) /\ replyCount[t] - 1 \in Nat
    <3>1. IsFiniteSet(LiveReplies(t)) /\ Cardinality(LiveReplies(t)) \in Nat
      BY RowSets, RowsAreFinite DEF Inv
    <3>2. Cardinality(LiveReplies(t)') = Cardinality(LiveReplies(t)) - 1
          /\ Cardinality(LiveReplies(t)) # 0
      BY <2>3, <3>1, FS_RemoveElement, FS_EmptySet
    <3>3. QED
      BY <1>2, <3>1, <3>2 DEF Inv, CountsExact
  <2>8. /\ Cardinality((Replies \ deleted)') = Cardinality(Replies \ deleted) - 1
        /\ topic.replies = Cardinality(Replies \ deleted) /\ topic.replies - 1 \in Nat
    <3>1. IsFiniteSet(Replies \ deleted) /\ Cardinality(Replies \ deleted) \in Nat
      BY RowSets, RowsAreFinite DEF Inv
    <3>2. (Replies \ deleted)' = (Replies \ deleted) \ {r} /\ r \in Replies \ deleted
      BY <1>2, <1>4, <2>3, <2>6
    <3>3. PICK S : S = Replies \ deleted
      OBVIOUS
    <3>4. Cardinality(S \ {r}) = Cardinality(S) - 1 /\ Cardinality(S) # 0
      BY <3>1, <3>2, <3>3, FS_RemoveElement, FS_EmptySet
    <3>5. (Replies \ deleted)' = S \ {r} /\ Cardinality(S) \in Nat
      BY <3>1, <3>2, <3>3
    <3>6. topic.replies = Cardinality(S)
      BY <3>3 DEF Inv, CountsExact
    <3>7. Cardinality((Replies \ deleted)') = Cardinality(S \ {r})
      BY <3>5, Zenon
    <3>8. topic.replies - 1 \in Nat
      BY <3>4, <3>5, <3>6
    <3>9. QED
      BY <3>3, <3>4, <3>6, <3>7, <3>8, Zenon
  <2>9. LiveThreads' = LiveThreads /\ \A s \in threads : s \in deleted' <=> s \in deleted
    BY <1>2, <2>3, <2>6 DEF LiveThreads, Inv, Numbering, Replies
  <2>10. TypeOK'
    <3>1. topic' \in [threads : Nat, replies : Nat, last : Rows \cup {Null},
                      lastAt : Rows \cup {Null}]
      BY <2>6, <2>8 DEF Inv, TypeOK
    <3>2. replyCount' \in [Rows -> Nat] /\ lastReply' \in [Rows -> Rows \cup {Null}]
          /\ lastAt' \in [Rows -> Rows \cup {Null}]
      BY <2>2, <2>5, <2>6, <2>7 DEF Inv, TypeOK
    <3>3. deleted' \subseteq threads' \cup Replies'
      BY <1>2, <2>3, <2>6 DEF Inv, TypeOK
    <3>4. QED
      BY <2>1, <2>3, <3>1, <3>2, <3>3, Ended DEF Inv, TypeOK
  <2>11. Numbering'
    <3>1. clock' = clock
      BY <2>1, Ended
    <3>2. \A s \in Rows \ threads' :
            replyCount'[s] = 0 /\ lastReply'[s] = Null /\ lastAt'[s] = Null
      BY <2>3, <2>6 DEF Inv, Numbering, TypeOK
    <3>3. QED
      BY <2>3, <3>1, <3>2 DEF Inv, Numbering
  <2>12. ASSUME NEW p \in Requests PROVE Names(request[p])'
    <3>1. CASE p = q
      BY <2>1, <3>1, Ended DEF Names, Idle, Creating, OnThread, Dropping
    <3>2. CASE p # q
      <4>1. Names(request[p]) /\ request'[p] = request[p] /\ clock' = clock
        BY <2>1, <3>2, Ended DEF Inv
      <4>2. QED
        BY <2>3, <2>9, <4>1 DEF Names, Creating, OnThread, Dropping
    <3>3. QED
      BY <3>1, <3>2
  <2>13. CountsExact'
    <3>1. \A s \in threads : s # t => replyCount'[s] = replyCount[s]
      BY <2>6 DEF Inv, TypeOK
    <3>2. replyCount'[t] = replyCount[t] - 1 /\ topic'.replies = topic.replies - 1
          /\ topic'.threads = topic.threads
      BY <2>2, <2>6 DEF Inv, TypeOK
    <3>3. \A s \in threads : replyCount'[s] = Cardinality(LiveReplies(s)')
      BY <2>3, <2>7, <3>1, <3>2 DEF Inv, CountsExact
    <3>4. QED
      BY <2>3, <2>8, <2>9, <3>2, <3>3 DEF Inv, CountsExact
  <2>14. LastReplyIsLive'
    <3>1. \A s \in threads : s # t => lastReply'[s] = lastReply[s] /\ lastAt'[s] = lastAt[s]
      BY <2>6 DEF Inv, TypeOK
    <3>2. lastReply'[t] = next /\ lastAt'[t] = IF next = Null THEN t ELSE next
      BY <2>2, <2>6 DEF Inv, TypeOK
    <3>3. next = Null <=> LiveReplies(t) \ {r} = {}
      BY <2>2, <2>4 DEF LiveReplies
    <3>4. QED
      BY <2>3, <2>4, <3>1, <3>2, <3>3 DEF Inv, LastReplyIsLive
  <2>15. QED
    BY <2>1, <2>10, <2>11, <2>12, <2>13, <2>14, Ended DEF Inv
<1>5. QED
  BY <1>3, <1>4

LEMMA CommitSetLockStep == ASSUME Inv, NEW q \in Requests, CommitSetLock(q) PROVE Inv'
<1>1. /\ request[q].on \in threads /\ Ends(q)
      /\ locked' \in {locked \cup {request[q].on}, locked \ {request[q].on}}
      /\ UNCHANGED <<threads, home, deleted, replyCount, lastReply, lastAt, topic>>
  BY DEF Inv, Names, OnThread, CommitSetLock
<1>2. UNCHANGED <<Replies, LiveThreads>> /\ \A s : LiveReplies(s)' = LiveReplies(s)
  BY <1>1 DEF Replies, LiveThreads, LiveReplies
<1>3. TypeOK' /\ Numbering'
  BY <1>1, <1>2, Ended DEF Inv, TypeOK, Numbering
<1>4. \A p \in Requests : Names(request[p])'
  BY <1>1, <1>2, Ended DEF Inv, Names, Idle, Creating, OnThread, Dropping
<1>5. CountsExact' /\ LastReplyIsLive'
  BY <1>1, <1>2 DEF Inv, CountsExact, LastReplyIsLive
<1>6. QED
  BY <1>1, <1>3, <1>4, <1>5, Ended DEF Inv

LEMMA CommitDropThreadStep == ASSUME Inv, NEW q \in Requests, CommitDropThread(q) PROVE Inv'
<1>1. Names(request[q]) /\ Dropping(request[q]) /\ OnThread(request[q])
      /\ request[q] \in Request
  BY DEF Inv, TypeOK, CommitDropThread, Dropping, OnThread
<1>2. PICK t \in threads : t = request[q].on /\ t \notin deleted
  BY <1>1 DEF Names
<1>3. /\ deleted' = deleted \cup {t} /\ Ends(q)
      /\ UNCHANGED <<threads, home, locked, replyCount, lastReply, lastAt>>
      /\ topic' = IF request[q].op = "repoint"
                  THEN [topic EXCEPT !.threads = @ - 1, !.last = request[q].in,
                                     !.lastAt = request[q].pick]
                  ELSE [topic EXCEPT !.threads = @ - 1]
  BY <1>2 DEF CommitDropThread
<1>4. t \in Rows /\ Null \notin Rows /\ t \notin Replies /\ home[t] = Null
  BY RowSets DEF Inv, TypeOK, Numbering, Replies
<1>5. UNCHANGED Replies /\ (Replies \ deleted)' = Replies \ deleted
      /\ \A s : s # Null => LiveReplies(s)' = LiveReplies(s)
  BY <1>3, <1>4 DEF Replies, LiveReplies
<1>6. /\ Cardinality(LiveThreads') = Cardinality(LiveThreads) - 1
      /\ topic.threads = Cardinality(LiveThreads) /\ topic.threads - 1 \in Nat
  <2>1. IsFiniteSet(LiveThreads) /\ Cardinality(LiveThreads) \in Nat
    BY RowSets, RowsAreFinite DEF Inv
  <2>2. LiveThreads' = LiveThreads \ {t} /\ t \in LiveThreads
    BY <1>2, <1>3 DEF LiveThreads
  <2>3. Cardinality(LiveThreads \ {t}) = Cardinality(LiveThreads) - 1
        /\ Cardinality(LiveThreads) # 0
    BY <2>1, <2>2, FS_RemoveElement, FS_EmptySet
  <2>4. QED
    BY <2>1, <2>2, <2>3 DEF Inv, CountsExact
<1>7. /\ topic' \in [threads : Nat, replies : Nat, last : Rows \cup {Null},
                     lastAt : Rows \cup {Null}]
      /\ topic'.threads = topic.threads - 1 /\ topic'.replies = topic.replies
  <2>1. topic \in [threads : Nat, replies : Nat, last : Rows \cup {Null},
                   lastAt : Rows \cup {Null}]
        /\ request[q].in \in Rows \cup {Null} /\ request[q].pick \in Rows \cup {Null}
    BY <1>1 DEF Inv, TypeOK, Request
  <2>2. QED
    BY <1>3, <1>6, <2>1
<1>8. TypeOK'
  BY <1>3, <1>5, <1>7, Ended DEF Inv, TypeOK
<1>9. Numbering'
  BY <1>3, <1>5, Ended DEF Inv, Numbering
<1>10. ASSUME NEW p \in Requests PROVE Names(request[p])'
  <2>1. CASE p = q
    BY <1>3, <2>1, Ended DEF Names, Idle, Creating, OnThread, Dropping
  <2>2. CASE p # q
    <3>1. Names(request[p]) /\ request'[p] = request[p] /\ clock' = clock
      BY <1>3, <2>2, Ended DEF Inv
    <3>2. Dropping(request[p]) => request[p].on # t
      BY <1>1, <1>2, <2>2 DEF Inv, OwnRows
    <3>3. QED
      BY <1>3, <1>5, <3>1, <3>2 DEF Names, Creating, OnThread, Dropping
  <2>3. QED
    BY <2>1, <2>2
<1>11. CountsExact' /\ LastReplyIsLive'
  <2>1. \A s \in threads : s # Null
    BY <1>4 DEF Inv, TypeOK
  <2>2. QED
    BY <1>3, <1>5, <1>6, <1>7, <2>1 DEF Inv, CountsExact, LastReplyIsLive
<1>12. QED
  BY <1>3, <1>8, <1>9, <1>10, <1>11, Ended DEF Inv

LEMMA NextInv == Inv /\ [Next]_vars => Inv'
<1> SUFFICES ASSUME Inv, [Next]_vars PROVE Inv'
  OBVIOUS
<1>1. CASE UNCHANGED vars
  BY <1>1 DEF vars, tables, Inv, TypeOK, Numbering, Names, OwnRows, CountsExact,
     LastReplyIsLive, Replies, LiveThreads, LiveReplies, Creating, OnThread, Dropping
<1>2. ASSUME NEW q \in Requests,
             \/ BeginThread(q)
             \/ \E t \in Rows :
                  BeginReply(q, t) \/ BeginDropThread(q, t) \/ BeginSetLock(q, t)
                  \/ BeginDropReply(q, t)
      PROVE  Inv'
  BY <1>2, BeginStep
<1>3. ASSUME NEW q \in Requests,
             \/ CommitThread(q) \/ CommitReply(q) \/ CommitDropReply(q) \/ CommitSetLock(q)
             \/ MarkThread(q) \/ PickThread(q) \/ CommitDropThread(q)
      PROVE  Inv'
  BY <1>3, CommitThreadStep, CommitReplyStep, CommitDropReplyStep, CommitSetLockStep,
     MarkStep, PickStep, CommitDropThreadStep
<1>4. QED
  BY <1>1, <1>2, <1>3 DEF Next

-----------------------------------------------------------------------------
\* The tables, the counts and what requests hold keep to their types; no count
\* goes below zero.
THEOREM TypeCorrect == Spec => []TypeOK
<1>1. Inv => TypeOK
  BY DEF Inv
<1>2. QED
  BY <1>1, InitInv, NextInv, PTL DEF Spec

\* thread_count and reply_count are exact however requests overlap.
THEOREM CountsAreExact == Spec => []CountsExact
<1>1. Inv => CountsExact
  BY DEF Inv
<1>2. QED
  BY <1>1, InitInv, NextInv, PTL DEF Spec

\* A thread's last activity is one of its live replies as long as it has any.
THEOREM LastReplyLives == Spec => []LastReplyIsLive
<1>1. Inv => LastReplyIsLive
  BY DEF Inv
<1>2. QED
  BY <1>1, InitInv, NextInv, PTL DEF Spec

-----------------------------------------------------------------------------
(* As long as no two requests overlap                                      *)

\* What a request alone has read is still so when it writes.
Fresh(r) ==
  /\ Creating(r) => r.on = clock
  /\ r.op = "newReply" => r.in \in LiveThreads
  /\ r.op \in {"dropThread", "pick"} => r.pick = Null
  /\ r.op = "count" => topic.last # r.on
  /\ r.op = "repoint" =>
       /\ r.pick <= clock
       /\ IF LiveThreads \ {r.on} = {} THEN r.in = Null ELSE r.in \in LiveThreads \ {r.on}

Newest == \A t \in threads : LiveReplies(t) # {} => lastReply[t] = Max(LiveReplies(t))

Quiet ==
  /\ \A p, q \in Requests : request[p] # Idle /\ request[q] # Idle => p = q
  /\ \A q \in Requests : Fresh(request[q])
  /\ topic.lastAt <= clock
  /\ TopicPointsAtLiveThread
  /\ Newest

QInv == Inv /\ (overlapped \/ Quiet)

LEMMA IdleIsFresh == Fresh(Idle)
BY DEF Fresh, Idle, Creating

LEMMA InitQuiet == Init => QInv
<1> SUFFICES ASSUME Init PROVE Quiet
  BY InitInv DEF QInv
<1>1. \A q \in Requests : request[q] = Idle
  BY DEF Init
<1>2. LiveThreads = {} /\ threads = {} /\ topic.last = Null /\ topic.lastAt = 0 /\ clock = 0
  BY DEF Init, LiveThreads, Null
<1>3. QED
  BY <1>1, <1>2, IdleIsFresh DEF Quiet, TopicPointsAtLiveThread, Newest

\* The numbers given out so far.
LEMMA Numbers ==
  ASSUME Inv
  PROVE  /\ clock \in Nat /\ topic.lastAt \in Nat /\ Null \notin Rows /\ Rows \subseteq Nat
         /\ \A r \in threads \cup Replies : r \in Nat /\ r <= clock
         /\ \A t \in threads : lastAt[t] \in Nat /\ lastAt[t] <= clock
<1>1. clock \in Nat /\ topic.lastAt \in Nat /\ Null \notin Rows /\ Rows \subseteq Nat
  BY RowsAssumption DEF Inv, TypeOK, Rows, Null
<1>2. \A r \in threads \cup Replies : r \in Nat /\ r <= clock
  BY <1>1 DEF Inv, TypeOK, Numbering, Replies
<1>3. ASSUME NEW t \in threads PROVE lastAt[t] \in Nat /\ lastAt[t] <= clock
  <2>1. LiveReplies(t) \subseteq Replies
    BY <1>1 DEF LiveReplies, Replies, Inv, TypeOK
  <2>2. lastAt[t] \in {Null} \cup threads \cup Replies
    BY <2>1 DEF Inv, LastReplyIsLive
  <2>3. QED
    BY <1>1, <1>2, <2>2 DEF Null
<1>4. QED
  BY <1>1, <1>2, <1>3

\* A request begins or goes on alone, and no table changes.
LEMMA QuietMoved ==
  ASSUME Inv, Quiet, NEW q \in Requests, NEW r \in Request, UNCHANGED tables,
         request' = [request EXCEPT ![q] = r], clock' \in Nat, clock' >= clock,
         \A p \in Requests \ {q} : request[p] = Idle,
         Creating(r) => r.on = clock',
         ~Creating(r) => Fresh(r),
         r.op = "newReply" => r.in \in LiveThreads
  PROVE  Quiet'
<1>1. /\ request'[q] = r
      /\ \A p \in Requests \ {q} : request'[p] = Idle
  BY Put DEF Inv, TypeOK
<1>2. UNCHANGED LiveThreads /\ \A t : LiveReplies(t)' = LiveReplies(t)
  BY DEF tables, LiveThreads, LiveReplies
<1>3. topic' = topic /\ UNCHANGED <<threads, lastReply>>
  BY DEF tables
<1>4. clock \in Nat /\ topic.lastAt \in Nat /\ topic'.lastAt <= clock'
  BY <1>3, Numbers DEF Quiet
<1>5. r.op = "repoint" => r.pick \in Nat
  BY Numbers DEF Request, Null
<1>6. Fresh(request[q])'
  BY <1>1, <1>2, <1>3, <1>4, <1>5 DEF Fresh, Creating
<1>7. \A p \in Requests \ {q} : Fresh(request[p])'
  BY <1>1 DEF Fresh, Idle, Creating
<1>8. TopicPointsAtLiveThread' /\ Newest'
  BY <1>2, <1>3 DEF Quiet, TopicPointsAtLiveThread, Newest
<1>9. QED
  BY <1>1, <1>4, <1>6, <1>7, <1>8 DEF Quiet

LEMMA QuietBegin ==
  ASSUME Inv, Quiet, NEW q \in Requests, ~overlapped',
         \/ BeginThread(q)
         \/ \E t \in Rows :
              BeginReply(q, t) \/ BeginDropThread(q, t) \/ BeginSetLock(q, t)
              \/ BeginDropReply(q, t)
  PROVE  Quiet'
<1>1. clock \in Nat /\ clock + 1 \in Nat
  BY Numbers
<1>2. ASSUME NEW r \in Request, Begin(q, r), clock' \in Nat, clock' >= clock,
             Creating(r) => r.on = clock', ~Creating(r) => Fresh(r),
             r.op = "newReply" => r.in \in LiveThreads
      PROVE  Quiet'
  <2>1. request' = [request EXCEPT ![q] = r] /\ UNCHANGED tables
        /\ \A p \in Requests : request[p] = Idle
    BY <1>2 DEF Begin
  <2>2. QED
    BY <1>2, <2>1, QuietMoved
<1>3. CASE BeginThread(q)
  <2> DEFINE r == [op |-> "newThread", on |-> clock + 1, in |-> Null, pick |-> Null]
  <2>1. r \in Request /\ Begin(q, r) /\ clock' = clock + 1
    BY <1>3, Numbers, RowsAssumption DEF BeginThread, Request, Rows
  <2>2. QED
    BY <1>1, <1>2, <2>1 DEF Creating
<1>4. ASSUME NEW t \in Rows, BeginReply(q, t) PROVE Quiet'
  <2> DEFINE r == [op |-> "newReply", on |-> clock + 1, in |-> t, pick |-> Null]
  <2>1. r \in Request /\ Begin(q, r) /\ clock' = clock + 1 /\ t \in LiveThreads
    BY <1>4, Numbers, RowsAssumption DEF BeginReply, Request, Rows
  <2>2. QED
    BY <1>1, <1>2, <2>1 DEF Creating
<1>5. ASSUME NEW r \in Request, Begin(q, r), r.pick = Null, clock' = clock,
             r.op \in {"dropThread", "lock", "unlock", "dropReply"}
      PROVE  Quiet'
  <2>1. ~Creating(r) /\ Fresh(r)
    BY <1>5 DEF Creating, Fresh
  <2>2. QED
    BY <1>1, <1>2, <1>5, <2>1
<1>6. ASSUME NEW t \in Rows, BeginDropThread(q, t) \/ BeginSetLock(q, t) PROVE Quiet'
  <2>1. \A op \in {"dropThread", "lock", "unlock"} :
          [op |-> op, on |-> t, in |-> t, pick |-> Null] \in Request
    BY DEF Request
  <2>2. QED
    BY <1>5, <1>6, <2>1 DEF BeginDropThread, BeginSetLock
<1>7. ASSUME NEW t \in Rows, BeginDropReply(q, t) PROVE Quiet'
  <2>1. [op |-> "dropReply", on |-> t, in |-> home[t], pick |-> Null] \in Request
    BY DEF Request, Inv, TypeOK
  <2>2. QED
    BY <1>5, <1>7, <2>1 DEF BeginDropReply
<1>8. QED
  BY <1>3, <1>4, <1>6, <1>7

LEMMA OthersIdle ==
  ASSUME Inv, Quiet, NEW q \in Requests, request[q].op # "idle"
  PROVE  Fresh(request[q]) /\ \A p \in Requests \ {q} : request[p] = Idle
BY DEF Quiet, Idle

LEMMA QuietMark ==
  ASSUME Inv, Quiet, NEW q \in Requests, MarkThread(q), ~Ends(q) PROVE Quiet'
<1> DEFINE op == IF topic.last = request[q].on THEN "pick" ELSE "count"
<1> DEFINE r == [request[q] EXCEPT !.op = op]
<1>1. request[q] \in Request /\ request[q].op = "dropThread" /\ UNCHANGED <<tables, clock>>
      /\ request' = [request EXCEPT ![q] = r]
  BY DEF Inv, TypeOK, MarkThread
<1>2. op = "pick" \/ (op = "count" /\ topic.last # request[q].on)
  OBVIOUS
<1> HIDE DEF op
<1>3. r \in Request /\ r.on = request[q].on /\ r.op = op /\ r.pick = request[q].pick
  BY <1>1, <1>2 DEF Request
<1> HIDE DEF r
<1>4. request[q].pick = Null
  BY <1>1, OthersIdle DEF Fresh
<1>5. ~Creating(r) /\ Fresh(r) /\ r.op # "newReply"
  BY <1>2, <1>3, <1>4 DEF Creating, Fresh
<1>6. clock' \in Nat /\ clock' >= clock
  BY <1>1, Numbers
<1>7. QED
  BY <1>1, <1>3, <1>5, <1>6, OthersIdle, QuietMoved

LEMMA QuietPick == ASSUME Inv, Quiet, NEW q \in Requests, PickThread(q) PROVE Quiet'
<1> DEFINE rest == LiveThreads \ {request[q].on}
<1>1. request[q] \in Request /\ request[q].op = "pick" /\ UNCHANGED <<tables, clock>>
  BY DEF Inv, TypeOK, PickThread
<1>2. clock' \in Nat /\ clock' >= clock /\ clock \in Nat
  BY <1>1, Numbers
<1>3. ASSUME NEW r \in Request, r.on = request[q].on, r.op = "repoint", r.pick <= clock,
             request' = [request EXCEPT ![q] = r],
             IF rest = {} THEN r.in = Null ELSE r.in \in rest
      PROVE  Quiet'
  <2>1. ~Creating(r) /\ Fresh(r)
    BY <1>3 DEF Creating, Fresh
  <2>2. QED
    BY <1>1, <1>2, <1>3, <2>1, OthersIdle, QuietMoved
<1>4. CASE rest = {}
  <2> DEFINE r == [request[q] EXCEPT !.op = "repoint", !.in = Null]
  <2>1. request' = [request EXCEPT ![q] = r]
    BY <1>1, <1>4 DEF PickThread, OtherThreads, Request, Inv, TypeOK
  <2>2. r \in Request /\ r.on = request[q].on /\ r.op = "repoint" /\ r.in = Null
        /\ r.pick = request[q].pick
    BY <1>1 DEF Request
  <2>3. request[q].pick = Null
    BY <1>1, OthersIdle DEF Fresh
  <2>4. r.pick <= clock
    BY <1>2, <2>2, <2>3 DEF Null
  <2> HIDE DEF r
  <2>5. QED
    BY <1>3, <1>4, <2>1, <2>2, <2>4
<1>5. CASE rest # {}
  <2>1. PICK t \in rest :
          request' = [request EXCEPT ![q].op = "repoint", ![q].in = t, ![q].pick = lastAt[t]]
    BY <1>5 DEF PickThread, OtherThreads
  <2> DEFINE r == [request[q] EXCEPT !.op = "repoint", !.in = t, !.pick = lastAt[t]]
  <2>2. t \in Rows /\ lastAt[t] \in Rows \cup {Null} /\ lastAt[t] <= clock
    BY Numbers DEF LiveThreads, Inv, TypeOK
  <2>3. request' = [request EXCEPT ![q] = r]
    BY <2>1
  <2>4. r \in Request /\ r.on = request[q].on /\ r.op = "repoint" /\ r.in = t
        /\ r.pick = lastAt[t]
    BY <1>1, <2>2 DEF Request
  <2>5. QED
    BY <1>3, <1>5, <2>2, <2>3, <2>4
<1>6. QED
  BY <1>4, <1>5

\* A request that was alone ends with its commit.
LEMMA QuietEnds ==
  ASSUME Inv, Quiet, NEW q \in Requests, request[q].op # "idle", Ends(q),
         topic'.lastAt <= clock, TopicPointsAtLiveThread', Newest'
  PROVE  Quiet'
<1>1. \A p \in Requests : request'[p] = Idle
  BY Ended, OthersIdle
<1>2. \A p \in Requests : Fresh(request[p])'
  BY <1>1 DEF Fresh, Idle, Creating
<1>3. clock' = clock
  BY Ended
<1>4. QED
  BY <1>1, <1>2, <1>3 DEF Quiet

LEMMA QuietEndsOnly ==
  ASSUME Inv, Quiet, NEW q \in Requests, request[q].op # "idle", Ends(q),
         UNCHANGED <<threads, deleted, home, topic, lastReply>>
  PROVE  Quiet'
<1>1. UNCHANGED LiveThreads /\ \A s : LiveReplies(s)' = LiveReplies(s)
  BY DEF LiveThreads, LiveReplies
<1>2. TopicPointsAtLiveThread' /\ Newest' /\ topic'.lastAt <= clock
  BY <1>1 DEF Quiet, TopicPointsAtLiveThread, Newest
<1>3. QED
  BY <1>2, QuietEnds

LEMMA TouchedNow ==
  ASSUME Inv, topic.lastAt <= clock, NEW t \in Rows
  PROVE  Touched(t, clock).last = t /\ Touched(t, clock).lastAt = clock
<1>1. clock >= topic.lastAt
  BY Numbers
<1>2. QED
  BY <1>1 DEF Touched, Inv, TypeOK

LEMMA QuietCommitThread ==
  ASSUME Inv, Quiet, NEW q \in Requests, CommitThread(q) PROVE Quiet'
<1>1. /\ request[q].op = "newThread" /\ Fresh(request[q]) /\ Names(request[q]) /\ Ends(q)
      /\ Creating(request[q])
  BY OthersIdle DEF CommitThread, Creating, Inv
<1>2. request[q].on = clock /\ clock \in Rows /\ clock \notin threads \cup Replies
  BY <1>1 DEF Fresh, Names
<1>3. /\ threads' = threads \cup {clock} /\ UNCHANGED <<home, deleted, lastReply>>
      /\ topic' = [Touched(clock, clock) EXCEPT !.threads = @ + 1]
  BY <1>2 DEF CommitThread
<1>4. topic'.last = clock /\ topic'.lastAt = clock
  <2>1. Touched(clock, clock) \in [threads : Nat, replies : Nat, last : Rows \cup {Null},
                                   lastAt : Rows \cup {Null}]
    BY <1>2, TouchedType DEF Inv
  <2>2. QED
    BY <1>2, <1>3, <2>1, TouchedNow DEF Quiet
<1>5. clock \notin deleted /\ clock \in LiveThreads'
  BY <1>2, <1>3 DEF Inv, TypeOK, LiveThreads
<1>6. LiveReplies(clock) = {} /\ \A s : LiveReplies(s)' = LiveReplies(s)
  BY <1>2, <1>3, Numbers DEF LiveReplies, Inv, Numbering
<1>7. Newest'
  BY <1>3, <1>6 DEF Quiet, Newest
<1>8. TopicPointsAtLiveThread' /\ topic'.lastAt <= clock
  BY <1>4, <1>5, Ended, <1>1, Numbers DEF TopicPointsAtLiveThread
<1>9. QED
  BY <1>1, <1>7, <1>8, QuietEnds

LEMMA QuietCommitReply ==
  ASSUME Inv, Quiet, NEW q \in Requests, CommitReply(q) PROVE Quiet'
<1>1. /\ request[q].op = "newReply" /\ Fresh(request[q]) /\ Names(request[q]) /\ Ends(q)
      /\ Creating(request[q])
  BY OthersIdle DEF CommitReply, Creating, Inv
<1>2. PICK t \in LiveThreads : t = request[q].in
  BY <1>1 DEF Fresh
<1>3. PICK r \in Rows : r = request[q].on /\ r = clock /\ r \notin threads \cup Replies
  BY <1>1 DEF Fresh, Names
<1>4. /\ home' = [home EXCEPT ![r] = t] /\ lastReply' = [lastReply EXCEPT ![t] = r]
      /\ topic' = [Touched(t, r) EXCEPT !.replies = @ + 1] /\ UNCHANGED <<threads, deleted>>
  BY <1>2, <1>3 DEF CommitReply
<1>5. t \in threads /\ t \in Rows /\ home[r] = Null /\ r \notin deleted
  BY <1>3 DEF LiveThreads, Inv, TypeOK, Replies
<1>6. topic'.last = t /\ topic'.lastAt = clock
  <2>1. Touched(t, r) \in [threads : Nat, replies : Nat, last : Rows \cup {Null},
                           lastAt : Rows \cup {Null}]
    BY <1>5, TouchedType DEF Inv
  <2>2. QED
    BY <1>3, <1>4, <1>5, <2>1, TouchedNow DEF Quiet
<1>7. TopicPointsAtLiveThread' /\ topic'.lastAt <= clock
  BY <1>4, <1>6, Numbers DEF TopicPointsAtLiveThread, LiveThreads
<1>8. /\ LiveReplies(t)' = LiveReplies(t) \cup {r}
      /\ \A s : s # t /\ s # Null => LiveReplies(s)' = LiveReplies(s)
  BY <1>4, <1>5 DEF LiveReplies, Inv, TypeOK
<1>9. Max(LiveReplies(t) \cup {r}) = r
  <2>1. LiveReplies(t) \cup {r} \in SUBSET Rows
    BY <1>3 DEF LiveReplies
  <2>2. LiveReplies(t) \subseteq Replies
    BY <1>5, Numbers DEF LiveReplies, Replies
  <2>3. \A x \in LiveReplies(t) \cup {r} : x \in Nat /\ x <= r
    BY <1>3, <2>2, Numbers
  <2>4. QED
    BY <2>1, <2>3, NewestRow
<1>10. Newest'
  <2>1. lastReply'[t] = r /\ \A s \in threads : s # t => lastReply'[s] = lastReply[s] /\ s # Null
    BY <1>4, <1>5, Numbers DEF Inv, TypeOK
  <2>2. QED
    BY <1>4, <1>8, <1>9, <2>1 DEF Quiet, Newest
<1>11. QED
  BY <1>1, <1>7, <1>10, QuietEnds

LEMMA QuietCommitDropReply ==
  ASSUME Inv, Quiet, NEW q \in Requests, CommitDropReply(q) PROVE Quiet'
<1>1. /\ request[q].op = "dropReply" /\ Names(request[q]) /\ Ends(q)
  BY DEF CommitDropReply, Inv
<1>2. PICK r \in Replies, t \in threads : r = request[q].on /\ t = request[q].in /\ t = home[r]
  BY <1>1 DEF Names, Inv, Numbering, Replies
<1>3. CASE r \in deleted
  <2>1. UNCHANGED tables
    BY <1>2, <1>3 DEF CommitDropReply
  <2>2. QED
    BY <1>1, <2>1, QuietEndsOnly DEF tables
<1>4. CASE r \notin deleted
  <2>1. /\ deleted' = deleted \cup {r} /\ topic' = [topic EXCEPT !.replies = @ - 1]
        /\ lastReply' = [lastReply EXCEPT ![t] = LatestReply(t, r)]
        /\ UNCHANGED <<threads, home>>
    BY <1>2, <1>4 DEF CommitDropReply, DropReplyEffect
  <2>2. topic'.last = topic.last /\ topic'.lastAt = topic.lastAt
    BY <2>1 DEF Inv, TypeOK
  <2>3. LiveThreads' = LiveThreads
    BY <1>2, <2>1 DEF LiveThreads, Inv, Numbering, Replies
  <2>4. /\ LiveReplies(t)' = LiveReplies(t) \ {r}
        /\ \A s : s # t => LiveReplies(s)' = LiveReplies(s)
    BY <1>2, <2>1 DEF LiveReplies
  <2>5. LiveReplies(t)' # {} => LatestReply(t, r) = Max(LiveReplies(t) \ {r})
    BY <2>4 DEF LatestReply
  <2>6. t \in Rows /\ \A s \in threads : s # t => lastReply'[s] = lastReply[s]
    BY <2>1 DEF Inv, TypeOK
  <2>7. lastReply'[t] = LatestReply(t, r)
    BY <2>1, <2>6 DEF Inv, TypeOK
  <2>8. Newest'
    BY <2>1, <2>4, <2>5, <2>6, <2>7 DEF Quiet, Newest
  <2>9. QED
    BY <1>1, <2>2, <2>3, <2>8, QuietEnds DEF Quiet, TopicPointsAtLiveThread
<1>5. QED
  BY <1>3, <1>4

LEMMA QuietCommitDropThread ==
  ASSUME Inv, Quiet, NEW q \in Requests, CommitDropThread(q) PROVE Quiet'
<1>1. /\ request[q].op \in {"repoint", "count"} /\ Names(request[q]) /\ Ends(q)
      /\ Fresh(request[q]) /\ request[q] \in Request
  BY OthersIdle DEF CommitDropThread, Inv, TypeOK
<1>2. PICK t \in LiveThreads : t = request[q].on
  BY <1>1 DEF Names, OnThread, Dropping, LiveThreads
<1>3. deleted' = deleted \cup {t} /\ UNCHANGED <<threads, home, lastReply>>
  BY <1>2 DEF CommitDropThread
<1>4. LiveThreads' = LiveThreads \ {t}
  BY <1>3 DEF LiveThreads
<1>5. topic'.lastAt <= clock /\ TopicPointsAtLiveThread'
  <2>1. CASE request[q].op = "repoint"
    <3>1. topic'.last = request[q].in /\ topic'.lastAt = request[q].pick
      BY <2>1 DEF CommitDropThread, Inv, TypeOK
    <3>2. QED
      BY <1>1, <1>2, <1>4, <2>1, <3>1 DEF Fresh, TopicPointsAtLiveThread
  <2>2. CASE request[q].op = "count"
    <3>1. topic'.last = topic.last /\ topic'.lastAt = topic.lastAt
      BY <2>2 DEF CommitDropThread, Inv, TypeOK
    <3>2. topic.last \in LiveThreads \ {t}
      BY <1>1, <1>2, <2>2 DEF Fresh, Quiet, TopicPointsAtLiveThread
    <3>3. QED
      BY <1>4, <3>1, <3>2 DEF Quiet, TopicPointsAtLiveThread
  <2>3. QED
    BY <1>1, <2>1, <2>2
<1>6. \A s \in threads : LiveReplies(s)' = LiveReplies(s)
  <2>1. t \notin Replies /\ \A s \in threads : s # Null
    BY Numbers DEF LiveThreads, Inv, TypeOK, Numbering, Replies
  <2>2. QED
    BY <1>3, <2>1 DEF LiveReplies, Replies
<1>7. Newest'
  BY <1>3, <1>6 DEF Quiet, Newest
<1>8. QED
  BY <1>1, <1>5, <1>7, QuietEnds

LEMMA NextQuiet == QInv /\ [Next]_vars => QInv'
<1> SUFFICES ASSUME Inv, Quiet, ~overlapped', [Next]_vars PROVE Quiet'
  <2>1. Next => overlapped' = overlapped \/ \E q \in Requests : \E r : Begin(q, r)
    BY Ended DEF Next, BeginThread, BeginReply, BeginDropThread, BeginSetLock,
       BeginDropReply, CommitThread, CommitReply, CommitDropReply, CommitSetLock, MarkThread,
       PickThread, CommitDropThread, Ends
  <2>2. overlapped /\ [Next]_vars => overlapped'
    BY <2>1 DEF Begin, vars
  <2>3. QED
    BY <2>2, NextInv DEF QInv
<1>1. CASE UNCHANGED vars
  BY <1>1 DEF vars, tables, Quiet, Fresh, Newest, TopicPointsAtLiveThread, LiveThreads,
     LiveReplies, Creating
<1>2. ASSUME NEW q \in Requests,
             \/ BeginThread(q)
             \/ \E t \in Rows :
                  BeginReply(q, t) \/ BeginDropThread(q, t) \/ BeginSetLock(q, t)
                  \/ BeginDropReply(q, t)
      PROVE  Quiet'
  BY <1>2, QuietBegin
<1>3. ASSUME NEW q \in Requests, MarkThread(q) PROVE Quiet'
  <2>1. CASE Ends(q)
    BY <1>3, <2>1, QuietEndsOnly DEF MarkThread, tables
  <2>2. QED
    BY <1>3, <2>1, QuietMark
<1>4. ASSUME NEW q \in Requests, CommitSetLock(q) PROVE Quiet'
  BY <1>4, QuietEndsOnly DEF CommitSetLock
<1>5. ASSUME NEW q \in Requests,
             \/ CommitThread(q) \/ CommitReply(q) \/ CommitDropReply(q)
             \/ PickThread(q) \/ CommitDropThread(q)
      PROVE  Quiet'
  BY <1>5, QuietCommitThread, QuietCommitReply, QuietCommitDropReply, QuietPick,
     QuietCommitDropThread
<1>6. QED
  BY <1>1, <1>2, <1>3, <1>4, <1>5 DEF Next

\* Until two requests have overlapped, a topic points at a live thread as long
\* as it has one.
THEOREM StaleTopicNeedsOverlap == Spec => []TopicIsStaleOnlyByOverlap
<1>1. QInv => TopicIsStaleOnlyByOverlap
  BY DEF QInv, Quiet, TopicIsStaleOnlyByOverlap
<1>2. QED
  BY <1>1, InitQuiet, NextQuiet, PTL DEF Spec

\* Until two requests have overlapped, a thread's last activity is its newest
\* live reply.
THEOREM LastReplyWins == Spec => []LastReplyIsNewest
<1>1. QInv => LastReplyIsNewest
  BY DEF QInv, Quiet, Newest, LastReplyIsNewest
<1>2. QED
  BY <1>1, InitQuiet, NextQuiet, PTL DEF Spec

-----------------------------------------------------------------------------
(* The topic's last activity                                               *)

LEMMA StepMovesForward ==
  ASSUME Inv, Next
  PROVE  topic'.lastAt < topic.lastAt => LiveThreads' # LiveThreads /\ threads' = threads
<1>1. topic.lastAt \in Nat /\ topic'.lastAt \in Nat
  <2>1. Inv'
    BY NextInv
  <2>2. topic'.lastAt \in Rows \cup {Null}
    BY <2>1 DEF Inv, TypeOK
  <2>3. QED
    BY <2>2, Numbers DEF Null
<1>2. CASE topic' = topic
  BY <1>1, <1>2
<1>3. ASSUME NEW q \in Requests, CommitThread(q) PROVE topic'.lastAt >= topic.lastAt
  <2>1. PICK t \in Rows : topic' = [Touched(t, t) EXCEPT !.threads = @ + 1]
    BY <1>3 DEF CommitThread, Inv, Names, Creating
  <2>2. Touched(t, t).lastAt >= topic.lastAt /\ topic'.lastAt = Touched(t, t).lastAt
    BY <2>1, TouchedType DEF Inv
  <2>3. QED
    BY <2>2
<1>4. ASSUME NEW q \in Requests, CommitReply(q) PROVE topic'.lastAt >= topic.lastAt
  <2>1. PICK t \in Rows, r \in Rows : topic' = [Touched(t, r) EXCEPT !.replies = @ + 1]
    BY <1>4 DEF CommitReply, Inv, TypeOK, Names, Creating
  <2>2. Touched(t, r).lastAt >= topic.lastAt /\ topic'.lastAt = Touched(t, r).lastAt
    BY <2>1, TouchedType DEF Inv
  <2>3. QED
    BY <2>2
<1>5. ASSUME NEW q \in Requests, CommitDropReply(q) PROVE topic'.lastAt = topic.lastAt
  BY <1>5 DEF CommitDropReply, DropReplyEffect, tables, Inv, TypeOK
<1>6. ASSUME NEW q \in Requests, CommitDropThread(q)
      PROVE  LiveThreads' # LiveThreads /\ threads' = threads
  <2>1. request[q].on \in LiveThreads
    BY <1>6 DEF CommitDropThread, Inv, Names, OnThread, Dropping, LiveThreads
  <2>2. request[q].on \notin LiveThreads' /\ threads' = threads
    BY <1>6 DEF CommitDropThread, LiveThreads
  <2>3. QED
    BY <2>1, <2>2
<1>7. \/ topic' = topic
      \/ \E q \in Requests :
           CommitThread(q) \/ CommitReply(q) \/ CommitDropReply(q) \/ CommitDropThread(q)
  BY DEF Next, BeginThread, BeginReply, BeginDropThread, BeginSetLock, BeginDropReply, Begin,
     CommitSetLock, MarkThread, PickThread, tables
<1>8. QED
  BY <1>1, <1>2, <1>3, <1>4, <1>5, <1>6, <1>7

\* Nothing but the soft-delete of a thread takes a topic's last activity back,
\* in whichever order the requests commit.
THEOREM TopicGoesForward == Spec => TopicMovesForward
<1>1. Inv /\ [Next]_vars =>
        [topic'.lastAt < topic.lastAt => LiveThreads' # LiveThreads /\ threads' = threads]_vars
  BY StepMovesForward
<1>2. QED
  BY <1>1, InitInv, NextInv, PTL DEF Spec, TopicMovesForward
=============================================================================
