-------------------------- MODULE RoleCacheProofs ---------------------------
(***************************************************************************)
(* The role cache, for any roles, requests in flight and faults.           *)
(***************************************************************************)
EXTENDS RoleCache, TLAPS

\* What a request holds at the call it waits for.
Holds(r) ==
  /\ r.op = "resolve" => r.pc \in {"get", "evict", "select", "fill"}
  /\ r.op = "login" => r.pc \in {"select", "get", "evict", "fill"}
  /\ r.op = "login" /\ r.pc # "select" => r.val \in Roles
  /\ r.op = "update" => r.want \in Roles
  /\ r.pc \in {"load", "commit", "refresh", "publish"} => r.op = "update"
  /\ r.pc \in {"commit", "refresh", "publish"} => r.old \in Roles
  /\ r.pc \in {"fill", "publish"} => r.val \in Roles
Shape == \A p \in Requests : Holds(request[p])

\* An update that nothing has come across is alone between its commit and its
\* answer, and what it and the fills hold is the row's role.
CleanIsAlone ==
  \A q \in Requests :
    request[q].pc \in {"refresh", "publish"} /\ request[q].clean =>
      /\ \A p \in Requests \ {q} : request[p].pc \notin {"refresh", "publish"}
      /\ \A p \in Requests : Fills(p) => request[p].val = role
      /\ request[q].pc = "publish" => request[q].val = role

\* With nothing disturbed, the updates under way are clean, the fills hold the
\* row's role, and the copy is that role or the one such an update replaced.
Settled ==
  /\ \A q \in Requests : request[q].pc \in {"refresh", "publish"} => request[q].clean
  /\ \A p \in Requests : Fills(p) => request[p].val = role
  /\ \/ cache \in {role, None, Garbage}
     \/ \E q \in Requests : request[q].pc \in {"refresh", "publish"} /\ cache = request[q].old

\* A role check that waits may go by the row's role, and, with nothing
\* disturbed, by the copy.
Current ==
  \A p \in Requests :
    request[p].op = "resolve" =>
      /\ role \in request[p].may
      /\ ~disturbed /\ cache \in Roles => cache \in request[p].may

IInv ==
  /\ TypeOK
  /\ Shape
  /\ CleanIsAlone
  /\ disturbed \/ Settled
  /\ Current
  /\ AnswersAreCurrent

-----------------------------------------------------------------------------
LEMMA IdleType == Idle \in Request /\ Holds(Idle)
BY DEF Idle, Request, Holds

LEMMA Put ==
  ASSUME request \in [Requests -> Request], NEW q \in Requests, NEW r \in Request,
         request' = [request EXCEPT ![q] = r]
  PROVE  /\ request' \in [Requests -> Request]
         /\ request'[q] = r
         /\ \A p \in Requests \ {q} : request'[p] = request[p]
OBVIOUS

LEMMA InitInv == Init => IInv
<1> SUFFICES ASSUME Init PROVE IInv
  OBVIOUS
<1>1. TypeOK
  <2>1. answer \in [role : Roles, may : SUBSET Roles, excused : BOOLEAN]
    <3>1. role \in Roles /\ {role} \in SUBSET Roles
      BY DEF Init
    <3>2. QED
      BY <3>1 DEF Init
  <2>2. request \in [Requests -> Request]
    BY IdleType DEF Init
  <2>3. role \in Roles /\ cache \in Roles \cup {None, Garbage} /\ disturbed \in BOOLEAN
    BY DEF Init
  <2>4. faults \in 0..MaxFaults
    BY FaultsAssumption DEF Init
  <2>5. QED
    BY <2>1, <2>2, <2>3, <2>4 DEF TypeOK
<1>2. Shape /\ CleanIsAlone /\ Settled /\ Current /\ AnswersAreCurrent
  BY IdleType DEF Init, Shape, CleanIsAlone, Settled, Current, AnswersAreCurrent, Fills, Idle
<1>3. QED
  BY <1>1, <1>2 DEF IInv

\* A request goes on to its next call, and nothing else changes but the copy.
LEMMA Moved ==
  ASSUME IInv, NEW q \in Requests, NEW r \in Request, Holds(r),
         request' = [request EXCEPT ![q] = r],
         UNCHANGED <<role, disturbed>>, faults' \in 0..MaxFaults,
         cache' \in Roles \cup {None, Garbage},
         disturbed \/ cache' \in {cache, role, None, Garbage},
         r.pc \in {"refresh", "publish"} <=> request[q].pc \in {"refresh", "publish"},
         r.pc \in {"refresh", "publish"} =>
           r.clean = request[q].clean /\ r.old = request[q].old,
         r.pc = "publish" => r.val = role,
         r.pc = "fill" \/ (r.op = "login" /\ r.val # None) =>
           r.val = role \/ (Fills(q) /\ r.val = request[q].val),
         r.op = "resolve" =>
           role \in r.may /\ (~disturbed /\ cache' \in Roles => cache' \in r.may),
         answer' \in [role : Roles, may : SUBSET Roles, excused : BOOLEAN],
         answer'.excused \/ answer'.role \in answer'.may
  PROVE  IInv'
<1> USE DEF IInv
<1>1. /\ request' \in [Requests -> Request]
      /\ request'[q] = r
      /\ \A p \in Requests \ {q} : request'[p] = request[p]
  BY Put DEF TypeOK
<1>2. TypeOK'
  BY <1>1 DEF TypeOK
<1>3. Shape'
  BY <1>1 DEF Shape
<1>4. \A p \in Requests :
        Fills(p)' => \/ request'[p].val = role
                     \/ Fills(p) /\ request'[p].val = request[p].val
  BY <1>1 DEF Fills
<1>5. CleanIsAlone'
  BY <1>1, <1>4 DEF CleanIsAlone
<1>6. disturbed' \/ Settled'
  BY <1>1, <1>4 DEF Settled
<1>7. Current'
  BY <1>1, RolesAssumption DEF Current
<1>8. QED
  BY <1>2, <1>3, <1>5, <1>6, <1>7 DEF AnswersAreCurrent

LEMMA StartStep ==
  ASSUME IInv, NEW q \in Requests, NEW op \in {"resolve", "strict", "login", "update"},
         NEW want \in Roles \cup {None}, op = "update" => want \in Roles, Start(q, op, want)
  PROVE  IInv'
<1> DEFINE may == {role} \cup {request[p].old : p \in Changing}
<1> DEFINE r == [Idle EXCEPT !.op = op, !.want = want,
                             !.pc = IF op = "login" THEN "select" ELSE "get", !.may = may]
<1>1. may \in SUBSET Roles
  BY DEF IInv, TypeOK, Shape, Holds, Changing
<1>2. ~disturbed /\ cache \in Roles => cache \in may
  BY RolesAssumption DEF IInv, Settled, Changing
<1> HIDE DEF may
<1>3. r.op = op /\ r.pc = (IF op = "login" THEN "select" ELSE "get") /\ r.val = None
      /\ r.want = want /\ r.may = may
  BY DEF Idle
<1>4. r \in Request /\ Holds(r)
  <2>1. r \in Request
    BY <1>1, IdleType DEF Request
  <2>2. QED
    BY <1>3, <2>1 DEF Holds
<1>5. role \in may
  BY DEF may
<1>6. request' = [request EXCEPT ![q] = r]
  BY DEF Start, may
<1>7. request[q] = Idle /\ UNCHANGED <<role, cache, answer, disturbed, faults>>
  BY DEF Start
<1>8. r.pc \notin {"refresh", "publish", "fill"} /\ r.val = None /\ r.op = op /\ r.may = may
  BY <1>3
<1> HIDE DEF r
<1>9. request[q].pc = "done"
  BY <1>7 DEF Idle
<1>10. /\ cache' \in Roles \cup {None, Garbage} /\ faults' \in 0..MaxFaults
       /\ answer' \in [role : Roles, may : SUBSET Roles, excused : BOOLEAN]
       /\ answer'.excused \/ answer'.role \in answer'.may
  BY <1>7 DEF IInv, TypeOK, AnswersAreCurrent
<1>11. QED
  BY <1>2, <1>4, <1>5, <1>6, <1>7, <1>8, <1>9, <1>10, Moved

\* What Known and Miss make of the request, for a role the request may go by.
LEMMA KnownStep ==
  ASSUME IInv, NEW q \in Requests, NEW v \in Roles, Known(q, v),
         request[q].pc \in {"get", "fill"},
         request[q].op = "resolve" => disturbed \/ v \in request[q].may,
         UNCHANGED <<role, disturbed>>, faults' \in 0..MaxFaults,
         cache' \in Roles \cup {None, Garbage},
         disturbed \/ cache' \in {cache, role, None, Garbage}
  PROVE  IInv'
<1> DEFINE r == IF request[q].op = "update" THEN [request[q] EXCEPT !.pc = "load"] ELSE Idle
<1>1. request[q] \in Request /\ Holds(request[q])
  BY DEF IInv, TypeOK, Shape
<1>2. r \in Request /\ Holds(r)
  BY <1>1, IdleType DEF Request, Holds
<1>3. r.pc \in {"load", "done"} /\ r.op \in {"update", "idle"}
  BY <1>1 DEF Request, Idle
<1>4. request' = [request EXCEPT ![q] = r]
  BY DEF Known
<1>5. /\ answer' \in [role : Roles, may : SUBSET Roles, excused : BOOLEAN]
      /\ answer'.excused \/ answer'.role \in answer'.may
  BY <1>1 DEF IInv, TypeOK, AnswersAreCurrent, Known, Request
<1> HIDE DEF r
<1>6. QED
  BY <1>2, <1>3, <1>4, <1>5, Moved

\* A request that asked Redis goes on to the row, or evicts what it found, or,
\* if it is a login, which holds the row, fills.
LEMMA GoToStep ==
  ASSUME IInv, NEW q \in Requests, NEW pc \in {"evict", "select", "fill"}, GoTo(q, pc),
         request[q].pc \in {"get", "evict"},
         pc = "fill" <=> (request[q].op = "login" /\ pc # "evict"),
         UNCHANGED <<role, answer, disturbed>>, faults' \in 0..MaxFaults,
         cache' \in {cache, None}
  PROVE  IInv'
<1> DEFINE r == [request[q] EXCEPT !.pc = pc]
<1>1. request[q] \in Request /\ Holds(request[q])
  BY DEF IInv, TypeOK, Shape
<1>2. r \in Request /\ r.pc = pc /\ r.op = request[q].op /\ r.val = request[q].val
      /\ r.want = request[q].want /\ r.may = request[q].may
  BY <1>1 DEF Request
<1>3. request' = [request EXCEPT ![q] = r]
  BY DEF GoTo
<1> HIDE DEF r
<1>4. Holds(r)
  BY <1>1, <1>2 DEF Holds
<1>5. r.pc = "fill" \/ (r.op = "login" /\ r.val # None) => Fills(q)
  BY <1>1, <1>2, RolesAssumption DEF Holds, Fills
<1>6. r.op = "resolve" =>
        role \in r.may /\ (~disturbed /\ cache' \in Roles => cache' \in r.may)
  BY <1>2, RolesAssumption DEF IInv, Current
<1>7. /\ cache' \in Roles \cup {None, Garbage}
      /\ answer' \in [role : Roles, may : SUBSET Roles, excused : BOOLEAN]
      /\ answer'.excused \/ answer'.role \in answer'.may
  BY DEF IInv, TypeOK, AnswersAreCurrent
<1>8. QED
  BY <1>2, <1>3, <1>4, <1>5, <1>6, <1>7, Moved

LEMMA MissStep ==
  ASSUME IInv, NEW q \in Requests, Miss(q), request[q].pc \in {"get", "evict"},
         UNCHANGED <<role, disturbed>>, faults' \in 0..MaxFaults, cache' \in {cache, None}
  PROVE  IInv'
<1>1. CASE request[q].op = "login"
  BY <1>1, GoToStep DEF Miss
<1>2. CASE request[q].op # "login"
  BY <1>2, GoToStep DEF Miss
<1>3. QED
  BY <1>1, <1>2

LEMMA GetStep == ASSUME IInv, NEW q \in Requests, Get(q) PROVE IInv'
<1>1. /\ request[q].pc = "get" /\ UNCHANGED <<role, cache, disturbed, faults>>
      /\ faults' \in 0..MaxFaults /\ cache' \in Roles \cup {None, Garbage}
      /\ request[q] \in Request /\ Holds(request[q])
  BY DEF Get, IInv, TypeOK, Shape
<1>2. CASE cache \in Roles /\ Known(q, cache)
  <2>1. request[q].op = "resolve" => disturbed \/ cache \in request[q].may
    BY <1>2 DEF IInv, Current
  <2>2. QED
    BY <1>1, <1>2, <2>1, KnownStep
<1>3. CASE cache = None /\ Miss(q)
  BY <1>1, <1>3, MissStep
<1>4. CASE cache = Garbage /\ GoTo(q, "evict") /\ UNCHANGED answer
  BY <1>1, <1>4, GoToStep
<1>5. QED
  BY <1>2, <1>3, <1>4 DEF Get

LEMMA EvictStep == ASSUME IInv, NEW q \in Requests, Evict(q) PROVE IInv'
<1>1. request[q].pc = "evict" /\ cache' = None /\ Miss(q)
      /\ UNCHANGED <<role, disturbed>> /\ faults' \in 0..MaxFaults
  BY DEF Evict, IInv, TypeOK
<1>2. QED
  BY <1>1, MissStep

LEMMA SelectStep == ASSUME IInv, NEW q \in Requests, Select(q) PROVE IInv'
<1> DEFINE r == [request[q] EXCEPT !.val = role,
                   !.pc = IF request[q].op = "login" THEN "get" ELSE "fill"]
<1>1. request[q] \in Request /\ Holds(request[q]) /\ role \in Roles
  BY DEF IInv, TypeOK, Shape
<1>2. r \in Request /\ r.pc = (IF request[q].op = "login" THEN "get" ELSE "fill")
      /\ r.op = request[q].op /\ r.val = role
      /\ r.want = request[q].want /\ r.may = request[q].may
  BY <1>1 DEF Request
<1>3. request' = [request EXCEPT ![q] = r]
  BY <1>1 DEF Select, Request
<1> HIDE DEF r
<1>4. Holds(r)
  BY <1>1, <1>2 DEF Holds
<1>5. r.op = "resolve" =>
        role \in r.may /\ (~disturbed /\ cache' \in Roles => cache' \in r.may)
  BY <1>2 DEF IInv, Current, Select
<1>6. /\ cache' \in Roles \cup {None, Garbage} /\ faults' \in 0..MaxFaults
      /\ answer' \in [role : Roles, may : SUBSET Roles, excused : BOOLEAN]
      /\ answer'.excused \/ answer'.role \in answer'.may
  BY DEF IInv, TypeOK, AnswersAreCurrent, Select
<1>7. request[q].pc = "select" /\ cache' = cache /\ UNCHANGED <<role, disturbed>>
  BY DEF Select
<1>8. QED
  BY <1>2, <1>3, <1>4, <1>5, <1>6, <1>7, Moved

\* A fill, or one whose call raised after Redis carried it out or before.
LEMMA FillKnown ==
  ASSUME IInv, NEW q \in Requests, request[q].pc = "fill", Known(q, request[q].val),
         cache' \in {cache, request[q].val}, UNCHANGED <<role, disturbed>>,
         faults' \in 0..MaxFaults
  PROVE  IInv'
<1>1. request[q].val \in Roles /\ request[q] \in Request
  BY DEF IInv, Shape, Holds, TypeOK
<1>2. disturbed \/ request[q].val = role
  BY DEF IInv, Settled, Fills
<1>3. request[q].op = "resolve" => disturbed \/ request[q].val \in request[q].may
  BY <1>2 DEF IInv, Current
<1>4. cache' \in Roles \cup {None, Garbage} /\ (disturbed \/ cache' \in {cache, role, None, Garbage})
  BY <1>1, <1>2 DEF IInv, TypeOK
<1>5. QED
  BY <1>1, <1>3, <1>4, KnownStep

LEMMA FillStep == ASSUME IInv, NEW q \in Requests, Fill(q) PROVE IInv'
<1>1. faults' \in 0..MaxFaults
  BY DEF IInv, TypeOK, Fill
<1>2. QED
  BY <1>1, FillKnown DEF Fill

LEMMA LoadStep == ASSUME IInv, NEW q \in Requests, Load(q) PROVE IInv'
<1> DEFINE r == [request[q] EXCEPT !.old = role, !.pc = "commit"]
<1>1. request[q] \in Request /\ Holds(request[q]) /\ role \in Roles
      /\ request[q].pc = "load" /\ request[q].op = "update"
  BY DEF IInv, TypeOK, Shape, Holds, Load
<1>2. r \in Request /\ r.pc = "commit" /\ r.op = "update" /\ r.old = role
      /\ r.want = request[q].want
  BY <1>1 DEF Request
<1>3. request' = [request EXCEPT ![q] = r]
  BY <1>1 DEF Load, Request
<1> HIDE DEF r
<1>4. Holds(r)
  BY <1>1, <1>2 DEF Holds
<1>5. /\ cache' \in Roles \cup {None, Garbage} /\ faults' \in 0..MaxFaults
      /\ answer' \in [role : Roles, may : SUBSET Roles, excused : BOOLEAN]
      /\ answer'.excused \/ answer'.role \in answer'.may
      /\ cache' = cache /\ UNCHANGED <<role, disturbed>>
  BY DEF IInv, TypeOK, AnswersAreCurrent, Load
<1>6. QED
  BY <1>1, <1>2, <1>3, <1>4, <1>5, Moved

LEMMA RefreshStep == ASSUME IInv, NEW q \in Requests, Refresh(q) PROVE IInv'
<1> DEFINE r == [request[q] EXCEPT !.val = role, !.pc = "publish"]
<1>1. request[q] \in Request /\ Holds(request[q]) /\ role \in Roles
      /\ request[q].pc = "refresh" /\ request[q].op = "update"
  BY DEF IInv, TypeOK, Shape, Holds, Refresh
<1>2. r \in Request /\ r.pc = "publish" /\ r.op = "update" /\ r.val = role
      /\ r.want = request[q].want /\ r.old = request[q].old /\ r.clean = request[q].clean
  BY <1>1 DEF Request
<1>3. request' = [request EXCEPT ![q] = r]
  BY <1>1 DEF Refresh, Request
<1> HIDE DEF r
<1>4. Holds(r)
  BY <1>1, <1>2 DEF Holds
<1>5. /\ cache' \in Roles \cup {None, Garbage} /\ faults' \in 0..MaxFaults
      /\ answer' \in [role : Roles, may : SUBSET Roles, excused : BOOLEAN]
      /\ answer'.excused \/ answer'.role \in answer'.may
      /\ cache' = cache /\ UNCHANGED <<role, disturbed>>
  BY DEF IInv, TypeOK, AnswersAreCurrent, Refresh
<1>6. QED
  BY <1>1, <1>2, <1>3, <1>4, <1>5, Moved

\* A clean commit finds no other update under way and no fill, so the copy is
\* the role it replaces.
LEMMA CommitStep == ASSUME IInv, NEW q \in Requests, Commit(q) PROVE IInv'
<1> DEFINE clean == \A p \in Requests \ {q} : p \notin Changing /\ ~Fills(p)
<1> DEFINE mine == [request[q] EXCEPT !.pc = "refresh", !.old = role, !.clean = clean]
<1> DEFINE other(p) == IF request[p] = Idle THEN Idle
                       ELSE [request[p] EXCEPT !.may = @ \cup {role'}, !.clean = FALSE]
<1>1. /\ request[q].pc = "commit" /\ request[q].op = "update"
      /\ request[q].want \in Roles /\ role \in Roles
      /\ \A p \in Requests : request[p] \in Request /\ Holds(request[p])
  BY DEF IInv, TypeOK, Shape, Holds, Commit
<1>2. role' \in Roles /\ disturbed' = (disturbed \/ ~clean) /\ clean \in BOOLEAN
      /\ UNCHANGED <<cache, answer, faults>>
  BY <1>1 DEF Commit
<1>3. request' = [p \in Requests |-> IF p = q THEN mine ELSE other(p)]
  BY <1>1, Zenon DEF Commit
<1>4. mine \in Request /\ mine.pc = "refresh" /\ mine.op = "update" /\ mine.old = role
      /\ mine.want = request[q].want /\ mine.clean = clean
  BY <1>1, <1>2 DEF Request
<1>5. ASSUME NEW p \in Requests
      PROVE  /\ other(p) \in Request /\ other(p).pc = request[p].pc
             /\ other(p).op = request[p].op /\ other(p).val = request[p].val
             /\ other(p).want = request[p].want /\ other(p).old = request[p].old
             /\ ~other(p).clean
             /\ other(p).op # "idle" =>
                  request[p].may \subseteq other(p).may /\ role' \in other(p).may
  <2>1. CASE request[p] = Idle
    BY <2>1, IdleType DEF Idle
  <2>2. CASE request[p] # Idle
    BY <1>1, <1>2, <2>2 DEF Request
  <2>3. QED
    BY <2>1, <2>2
<1> HIDE DEF mine, other
<1>6. request'[q] = mine /\ \A p \in Requests \ {q} : request'[p] = other(p)
  BY <1>3
<1>7. TypeOK'
  <2>1. request' \in [Requests -> Request]
    BY <1>3, <1>4, <1>5
  <2>2. QED
    BY <1>2, <2>1 DEF IInv, TypeOK
<1>8. Shape'
  BY <1>1, <1>2, <1>4, <1>5, <1>6 DEF Shape, Holds
<1>9. clean => \A p \in Requests \ {q} : ~Fills(p)' /\ request'[p].pc \notin {"refresh", "publish"}
  BY <1>5, <1>6 DEF Fills, Changing
<1>10. ~Fills(q)'
  BY <1>4, <1>6 DEF Fills
<1> HIDE DEF clean
<1>11. CleanIsAlone'
  BY <1>4, <1>5, <1>6, <1>9, <1>10 DEF CleanIsAlone
<1>12. ASSUME ~disturbed' PROVE Settled'
  <2>1. clean /\ ~disturbed
    BY <1>2, <1>12
  <2>2. cache \in {role, None, Garbage}
    <3>1. \A p \in Requests : request[p].pc \notin {"refresh", "publish"}
      BY <1>1, <2>1 DEF clean, Changing
    <3>2. QED
      BY <2>1, <3>1 DEF IInv, Settled
  <2>3. cache' \in {role', None, Garbage}
        \/ (request'[q].pc \in {"refresh", "publish"} /\ cache' = request'[q].old)
    BY <1>2, <1>4, <1>6, <2>2
  <2>4. QED
    BY <1>4, <1>6, <1>9, <1>10, <2>1, <2>3 DEF Settled
<1>13. Current'
  <2>1. ASSUME NEW p \in Requests, request'[p].op = "resolve"
        PROVE  /\ role' \in request'[p].may
               /\ ~disturbed' /\ cache' \in Roles => cache' \in request'[p].may
    <3>1. p # q /\ request[p].op = "resolve" /\ request[p].may \subseteq request'[p].may
          /\ role' \in request'[p].may
      BY <1>4, <1>5, <1>6, <2>1
    <3>2. QED
      BY <1>2, <3>1 DEF IInv, Current
  <2>2. QED
    BY <2>1 DEF Current
<1>14. AnswersAreCurrent'
  BY <1>2 DEF IInv, AnswersAreCurrent
<1>15. QED
  BY <1>7, <1>8, <1>11, <1>12, <1>13, <1>14 DEF IInv

\* An update ends after its commit, with the copy written or not.
LEMMA UpdateEnds ==
  ASSUME IInv, NEW q \in Requests, request[q].pc = "publish",
         request' = [request EXCEPT ![q] = Idle],
         cache' \in {cache, request[q].val}, disturbed' \in BOOLEAN,
         ~disturbed' => request[q].clean /\ cache' = request[q].val,
         UNCHANGED <<role, answer>>, faults' \in 0..MaxFaults
  PROVE  IInv'
<1>1. /\ request' \in [Requests -> Request]
      /\ request'[q] = Idle
      /\ \A p \in Requests \ {q} : request'[p] = request[p]
  BY Put, IdleType DEF IInv, TypeOK
<1>2. request[q].val \in Roles
  BY DEF IInv, Shape, Holds
<1>3. TypeOK'
  BY <1>1, <1>2 DEF IInv, TypeOK
<1>4. Shape'
  BY <1>1, IdleType DEF IInv, Shape
<1>5. request'[q].pc = "done" /\ request'[q].op = "idle" /\ ~Fills(q)'
  BY <1>1 DEF Idle, Fills
<1>6. \A p \in Requests \ {q} : request[p].pc \in {"refresh", "publish"} => ~request[p].clean
  BY DEF IInv, CleanIsAlone
<1>7. CleanIsAlone'
  BY <1>1, <1>5, <1>6 DEF CleanIsAlone
<1>8. ASSUME ~disturbed'
      PROVE  /\ cache' = role' /\ \A p \in Requests : Fills(p)' => request'[p].val = role'
             /\ \A p \in Requests : request'[p].pc \notin {"refresh", "publish"}
  <2>1. /\ \A p \in Requests \ {q} : request[p].pc \notin {"refresh", "publish"}
        /\ \A p \in Requests : Fills(p) => request[p].val = role
        /\ request[q].val = role
    BY <1>8 DEF IInv, CleanIsAlone
  <2>2. \A p \in Requests \ {q} : Fills(p)' => Fills(p)
    BY <1>1 DEF Fills
  <2>3. QED
    BY <1>1, <1>5, <1>8, <2>1, <2>2
<1>9. disturbed' \/ Settled'
  BY <1>8 DEF Settled
<1>10. Current'
  BY <1>1, <1>5, <1>8 DEF IInv, Current
<1>11. QED
  BY <1>3, <1>4, <1>7, <1>9, <1>10 DEF IInv, AnswersAreCurrent

LEMMA PublishStep == ASSUME IInv, NEW q \in Requests, Publish(q) PROVE IInv'
<1>1. disturbed \/ request[q].clean
  BY DEF IInv, Settled, Publish
<1>2. disturbed \in BOOLEAN /\ faults \in 0..MaxFaults
  BY DEF IInv, TypeOK
<1>3. ~disturbed' => request[q].clean
  BY <1>1 DEF Publish
<1>4. QED
  BY <1>2, <1>3, UpdateEnds DEF Publish

LEMMA FaultCounts == ASSUME IInv, NEW kind, Fault(kind) PROVE faults' \in 0..MaxFaults
BY FaultsAssumption DEF IInv, TypeOK, Fault

LEMMA RedisErrorStep == ASSUME IInv, NEW q \in Requests, RedisError(q) PROVE IInv'
<1>1. faults' \in 0..MaxFaults /\ role' = role
      /\ cache' \in {cache, Written(request[q])}
      /\ disturbed' = (disturbed \/ request[q].pc = "publish")
  BY FaultCounts DEF RedisError
<1>2. disturbed \in BOOLEAN /\ request[q] \in Request /\ Holds(request[q])
      /\ cache \in Roles \cup {None, Garbage}
      /\ answer \in [role : Roles, may : SUBSET Roles, excused : BOOLEAN]
      /\ (answer.excused \/ answer.role \in answer.may)
  BY DEF IInv, TypeOK, Shape, AnswersAreCurrent
<1>3. CASE /\ request[q].pc \in {"get", "evict"} /\ request[q].op = "resolve"
           /\ GoTo(q, "select") /\ UNCHANGED answer
  <2>1. cache' \in {cache, None} /\ UNCHANGED <<role, disturbed>>
    BY <1>1, <1>2, <1>3 DEF Written
  <2>2. QED
    BY <1>1, <1>3, <2>1, GoToStep
<1>4. CASE /\ request[q].pc = "fill" /\ request[q].op = "resolve"
           /\ Known(q, request[q].val)
  <2>1. cache' \in {cache, request[q].val} /\ UNCHANGED <<role, disturbed>>
    BY <1>1, <1>2, <1>4 DEF Written
  <2>2. QED
    BY <1>1, <1>4, <2>1, FillKnown
<1>5. CASE /\ request[q].pc \in {"get", "evict", "fill", "publish"} /\ request[q].op # "resolve"
           /\ request' = [request EXCEPT ![q] = Idle] /\ UNCHANGED answer
  <2>1. CASE request[q].pc = "publish"
    <3>1. cache' \in {cache, request[q].val} /\ disturbed' = TRUE
      BY <1>1, <2>1 DEF Written
    <3>2. QED
      BY <1>1, <1>5, <2>1, <3>1, UpdateEnds
  <2>2. CASE request[q].pc # "publish"
    <3>1. UNCHANGED <<role, disturbed>>
      BY <1>1, <1>2, <2>2
    <3>2. disturbed \/ (request[q].pc = "fill" => request[q].val = role)
      BY DEF IInv, Settled, Fills
    <3>3. cache' \in Roles \cup {None, Garbage}
          /\ (disturbed \/ cache' \in {cache, role, None, Garbage})
      BY <1>1, <1>2, <2>2, <3>2 DEF Written, Holds
    <3>4. Idle.pc = "done" /\ Idle.op = "idle"
      BY DEF Idle
    <3>5. request[q].pc \notin {"refresh", "publish"}
      BY <1>5, <2>2
    <3>6. QED
      BY <1>1, <1>2, <1>5, <3>1, <3>3, <3>4, <3>5, IdleType, Moved
  <2>3. QED
    BY <2>1, <2>2
<1>6. QED
  BY <1>3, <1>4, <1>5 DEF RedisError

LEMMA CrashStep == ASSUME IInv, Crash PROVE IInv'
<1>1. /\ request' = [q \in Requests |-> Idle] /\ faults' \in 0..MaxFaults
      /\ disturbed' = (disturbed \/ Changing # {})
      /\ UNCHANGED <<role, cache, answer>>
  BY FaultCounts DEF Crash
<1>2. \A p \in Requests : request'[p] = Idle /\ ~Fills(p)'
  BY <1>1 DEF Fills, Idle
<1>3. TypeOK'
  BY <1>1, IdleType DEF IInv, TypeOK
<1>4. Shape' /\ CleanIsAlone' /\ Current'
  BY <1>2, IdleType DEF Shape, CleanIsAlone, Current, Idle
<1>5. disturbed' \/ Settled'
  <2>1. ~disturbed' => cache \in {role, None, Garbage}
    BY <1>1 DEF IInv, Settled, Changing
  <2>2. QED
    BY <1>1, <1>2, <2>1 DEF Settled, Idle
<1>6. QED
  BY <1>1, <1>3, <1>4, <1>5 DEF IInv, AnswersAreCurrent

\* The copy is gone, or no role.
LEMMA CopySpoilt ==
  ASSUME IInv, cache' \in {None, Garbage}, faults' \in 0..MaxFaults,
         UNCHANGED <<role, request, answer, disturbed>>
  PROVE  IInv'
<1>1. TypeOK'
  BY DEF IInv, TypeOK
<1>2. Shape' /\ CleanIsAlone' /\ (disturbed' \/ Settled')
  BY DEF IInv, Shape, CleanIsAlone, Settled, Fills
<1>3. Current' /\ AnswersAreCurrent'
  BY RolesAssumption DEF IInv, Current, AnswersAreCurrent
<1>4. QED
  BY <1>1, <1>2, <1>3 DEF IInv

LEMMA NextInv == IInv /\ [Next]_vars => IInv'
<1> SUFFICES ASSUME IInv, [Next]_vars PROVE IInv'
  OBVIOUS
<1>1. CASE UNCHANGED vars
  BY <1>1 DEF vars, IInv, TypeOK, Shape, CleanIsAlone, Settled, Current, AnswersAreCurrent, Fills
<1>2. ASSUME NEW q \in Requests, NEW op \in {"resolve", "strict", "login"}, Start(q, op, None)
      PROVE  IInv'
  BY <1>2, StartStep
<1>3. ASSUME NEW q \in Requests, NEW want \in Roles, Start(q, "update", want) PROVE IInv'
  BY <1>3, StartStep
<1>4. ASSUME NEW q \in Requests,
             Get(q) \/ Evict(q) \/ Select(q) \/ Fill(q) \/ Load(q) \/ Commit(q) \/ Refresh(q)
               \/ Publish(q) \/ RedisError(q)
      PROVE  IInv'
  BY <1>4, GetStep, EvictStep, SelectStep, FillStep, LoadStep, CommitStep, RefreshStep,
     PublishStep, RedisErrorStep
<1>5. CASE RedisLoss \/ Corruption
  BY <1>5, CopySpoilt, FaultCounts DEF RedisLoss, Corruption
<1>6. CASE Crash
  BY <1>6, CrashStep
<1>7. QED
  BY <1>1, <1>2, <1>3, <1>4, <1>5, <1>6 DEF Next

-----------------------------------------------------------------------------
\* The role, its copy and what requests hold keep to their types.
THEOREM TypeCorrect == Spec => []TypeOK
<1>1. IInv => TypeOK
  BY DEF IInv
<1>2. QED
  BY <1>1, InitInv, NextInv, PTL DEF Spec

\* A role check goes by a role the user has had since it began, for any number
\* of checks, logins and updates at once, unless the last update was disturbed.
THEOREM AnswersCurrent == Spec => []AnswersAreCurrent
<1>1. IInv => AnswersAreCurrent
  BY DEF IInv
<1>2. QED
  BY <1>1, InitInv, NextInv, PTL DEF Spec

\* With no update under way the copy is the row's role, unless one that was cut
\* short, overlapped or crossed a fill was the last that changed it.
THEOREM StalenessIsExcused == Spec => []StaleOnlyIfDisturbed
<1>1. IInv => StaleOnlyIfDisturbed
  BY DEF IInv, Shape, Holds, Settled, StaleOnlyIfDisturbed, CacheSettles
<1>2. QED
  BY <1>1, InitInv, NextInv, PTL DEF Spec
=============================================================================
