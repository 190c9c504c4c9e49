---------------------------- MODULE SessionProofs ---------------------------
(***************************************************************************)
(* What AuthSessions guarantees for any number of browsers, requests and   *)
(* pairs, and any faults, and, in the last section, what AppSession does   *)
(* for the one of these browsers that it follows.                          *)
(***************************************************************************)
EXTENDS AppSession, TLAPS, WellFoundedInduction

\* A request that deleted the token it presented is the last to find it in the
\* store S.  The route is called over a good access token before anything is
\* exchanged; a handler runs again only after the error of the run before, over
\* the good token, over the new one, and once more.
Fits(r, S) ==
  /\ r.pc \in {"block", "issue"} => r.old \notin S
  /\ r.op \in {"use", "refresh", "logout"} => r.old # 0
  /\ r.passed => r.op = "use" /\ r.pc \in {"bearer", "handle", "reply"} /\ r.new = 0
  /\ r.passed /\ r.pc # "reply" => r.runs = 0
  /\ r.pc = "access" => r.runs = 0 /\ r.new = 0
  /\ r.pc \notin {"handle", "reply"} => r.runs <= 1
  /\ r.pc = "handle" => r.runs <= 2 /\ (r.new # 0 => r.runs <= 1)

\* A pair is exchanged for one issued before it.
ExchangeInv ==
  /\ \A c \in Issued : parent[c] < c
  /\ BlockedIsNotStored
  /\ ExchangedIsNotStored
  /\ \A q \in Requests : Fits(request[q], store)

IInv == TypeOK /\ ExchangeInv

Pcs == {"done", "access", "blocklist", "owner", "drop", "block", "issue", "bearer",
        "handle", "blockAccess", "collect", "erase", "reply"}

\* Moving a request on changes nothing else of it.
LEMMA GoToFields ==
  ASSUME request \in [Requests -> Request], NEW q \in Requests, NEW pc \in Pcs, GoTo(q, pc)
  PROVE  /\ request' \in [Requests -> Request]
         /\ \A p \in Requests \ {q} : request'[p] = request[p]
         /\ request'[q].pc = pc
         /\ request'[q].op = request[q].op
         /\ request'[q].who = request[q].who
         /\ request'[q].old = request[q].old
         /\ request'[q].new = request[q].new
         /\ request'[q].late = request[q].late
         /\ request'[q].passed = request[q].passed
         /\ request'[q].runs = request[q].runs
         /\ request'[q].found = request[q].found
         /\ request'[q].upto = request[q].upto
<1>1. request' = [request EXCEPT ![q] = [request[q] EXCEPT !.pc = pc]]
  BY DEF GoTo
<1>2. request[q] \in Request
  OBVIOUS
<1>3. [request[q] EXCEPT !.pc = pc] \in Request
  BY <1>2 DEF Request, Pcs
<1>4. QED
  BY <1>1, <1>2, <1>3 DEF Request

\* A request that is passed on over a good access token goes on otherwise as it was.
LEMMA PassFields ==
  ASSUME request \in [Requests -> Request], NEW q \in Requests, Pass(q)
  PROVE  /\ request' \in [Requests -> Request]
         /\ \A p \in Requests \ {q} : request'[p] = request[p]
         /\ request'[q].pc = "bearer"
         /\ request'[q].op = request[q].op
         /\ request'[q].who = request[q].who
         /\ request'[q].old = request[q].old
         /\ request'[q].new = request[q].new
         /\ request'[q].late = request[q].late
         /\ request'[q].passed = TRUE
         /\ request'[q].runs = request[q].runs
         /\ request'[q].found = request[q].found
         /\ request'[q].upto = request[q].upto
<1> DEFINE r == [request[q] EXCEPT !.pc = "bearer", !.passed = TRUE]
<1>1. request' = [request EXCEPT ![q] = r]
  BY DEF Pass
<1>2. request[q] \in Request
  OBVIOUS
<1>3. /\ r \in Request
      /\ r.pc = "bearer" /\ r.op = request[q].op /\ r.who = request[q].who
      /\ r.old = request[q].old /\ r.new = request[q].new /\ r.late = request[q].late
      /\ r.passed = TRUE /\ r.runs = request[q].runs /\ r.found = request[q].found
      /\ r.upto = request[q].upto
  BY <1>2 DEF Request
<1> HIDE DEF r
<1>4. QED
  BY <1>1, <1>3

LEMMA IdleIsRequest == Idle \in Request
BY BoundsAssumption DEF Idle, Request

LEMMA DoneFields ==
  ASSUME request \in [Requests -> Request], NEW q \in Requests, Done(q)
  PROVE  /\ request' \in [Requests -> Request]
         /\ \A p \in Requests \ {q} : request'[p] = request[p]
         /\ request'[q] = Idle
BY IdleIsRequest DEF Done

-----------------------------------------------------------------------------
LEMMA InitIInv == Init => IInv
<1> SUFFICES ASSUME Init PROVE IInv
  OBVIOUS
<1>1. TypeOK
  <2>1. overlapped \in BOOLEAN
    BY DEF Init
  <2>2. QED
    BY <2>1, BoundsAssumption, IdleIsRequest DEF Init, TypeOK, Pairs, Issued, Idle
<1>2. ExchangeInv
  BY DEF Init, ExchangeInv, BlockedIsNotStored, ExchangedIsNotStored, Issued, Idle, Fits
<1>3. QED
  BY <1>1, <1>2 DEF IInv

\* Membership as a value, for a field that holds it.
LEMMA MembershipIsBoolean == ASSUME NEW x, NEW S PROVE \E v \in BOOLEAN : (x \in S) = v
<1>1. CASE x \in S
  <2>1. (x \in S) = TRUE
    BY <1>1
  <2>2. QED
    BY <2>1, Zenon
<1>2. CASE x \notin S
  <2>1. (x \in S) = FALSE
    BY <1>2
  <2>2. QED
    BY <2>1, Zenon
<1>3. QED
  BY <1>1, <1>2

\* A step that leaves Redis and the pairs alone, and takes no request that does
\* not have it to the point where the token it presented is gone.
LEMMA QuietStep ==
  ASSUME IInv, NEW q \in Requests, UNCHANGED <<tokens, redis>>,
         request' \in [Requests -> Request],
         \A p \in Requests \ {q} : request'[p] = request[p],
         {request'[q].old, request'[q].new, request'[q].upto} \subseteq 0..issued,
         Fits(request'[q], store),
         jar' \in [Browsers -> 0..issued], ended' \in 0..issued, out' \subseteq Issued,
         overlapped' \in BOOLEAN, faults' \in [Faults -> Nat]
  PROVE  IInv'
<1>1. TypeOK'
  BY DEF IInv, TypeOK, tokens, redis, Issued
<1>2. ExchangeInv'
  BY DEF IInv, ExchangeInv, tokens, redis, Issued, BlockedIsNotStored, ExchangedIsNotStored,
         Exchanged
<1>3. QED
  BY <1>1, <1>2 DEF IInv

\* The same for a step that only moves a request on.
LEMMA MoveStep ==
  ASSUME IInv, NEW q \in Requests, NEW pc \in Pcs, GoTo(q, pc), UNCHANGED <<tokens, redis>>,
         request[q].pc \notin {"handle", "reply"}, pc \notin {"access", "block", "issue"},
         request[q].pc = "bearer" => pc = "handle" \/ request[q].op # "use",
         UNCHANGED <<jar, ended, out, overlapped>>, faults' \in [Faults -> Nat]
  PROVE  IInv'
<1>1. request \in [Requests -> Request] /\ request[q].runs \in 0..3
  BY DEF IInv, TypeOK, Request
<1>2. Fits(request[q], store)
  BY DEF IInv, ExchangeInv
<1>3. /\ request' \in [Requests -> Request]
      /\ \A p \in Requests \ {q} : request'[p] = request[p]
      /\ request'[q].pc = pc
      /\ request'[q].op = request[q].op /\ request'[q].old = request[q].old
      /\ request'[q].new = request[q].new /\ request'[q].passed = request[q].passed
      /\ request'[q].runs = request[q].runs /\ request'[q].upto = request[q].upto
  BY <1>1, GoToFields
<1>4. Fits(request'[q], store)
  BY <1>1, <1>2, <1>3 DEF Fits
<1>5. {request'[q].old, request'[q].new, request'[q].upto} \subseteq 0..issued
  BY <1>3 DEF IInv, TypeOK
<1>6. jar' \in [Browsers -> 0..issued] /\ ended' \in 0..issued /\ out' \subseteq Issued
      /\ overlapped' \in BOOLEAN
  BY DEF IInv, TypeOK
<1>7. QED
  BY <1>3, <1>4, <1>5, <1>6, QuietStep

\* The same for a step that ends a request.
LEMMA EndStep ==
  ASSUME IInv, NEW q \in Requests, Done(q), UNCHANGED <<tokens, redis>>,
         jar' \in [Browsers -> 0..issued], UNCHANGED <<ended, out>>,
         overlapped' \in BOOLEAN, faults' \in [Faults -> Nat]
  PROVE  IInv'
<1>1. request \in [Requests -> Request]
  BY DEF IInv, TypeOK
<1>2. issued \in Nat
  BY BoundsAssumption DEF IInv, TypeOK
<1>3. QED
  BY <1>1, <1>2, DoneFields, QuietStep DEF IInv, TypeOK, Idle, Fits

LEMMA FaultCounted == ASSUME TypeOK, NEW kind, Fault(kind) PROVE faults' \in [Faults -> Nat]
BY BoundsAssumption DEF TypeOK, Fault

\* The token presented is 0 for a login and no token of the store is.
LEMMA StartLoginStep ==
  ASSUME IInv, NEW q \in Requests, NEW b \in Browsers, StartLogin(q, b) PROVE IInv'
<1> DEFINE r == [Idle EXCEPT !.op = "login", !.pc = "issue", !.who = b]
<1>1. /\ r \in Request
      /\ r.op = "login" /\ r.pc = "issue" /\ r.old = 0 /\ r.new = 0 /\ r.upto = 0 /\ r.runs = 0
      /\ ~ r.passed
  BY IdleIsRequest, BoundsAssumption DEF Idle, Request
<1>2. request' = [request EXCEPT ![q] = r]
  BY DEF StartLogin
<1> HIDE DEF r
<1>3. issued \in Nat /\ 0 \notin store
  BY BoundsAssumption DEF IInv, TypeOK, Issued
<1>4. UNCHANGED <<tokens, redis, jar, ended, out, faults>> /\ overlapped' \in BOOLEAN
  BY DEF StartLogin
<1>5. request' \in [Requests -> Request] /\ request'[q] = r
      /\ \A p \in Requests \ {q} : request'[p] = request[p]
  BY <1>1, <1>2 DEF IInv, TypeOK
<1>6. {r.old, r.new, r.upto} \subseteq 0..issued
  BY <1>1, <1>3
<1>7. QED
  BY <1>1, <1>3, <1>4, <1>5, <1>6, QuietStep DEF IInv, TypeOK, Fits

LEMMA StartStep ==
  ASSUME IInv, NEW q \in Requests, NEW b \in Browsers,
         NEW op \in {"use", "refresh", "logout"}, Start(q, b, op)
  PROVE  IInv'
<1> DEFINE r == [Idle EXCEPT !.op = op, !.pc = IF op = "use" THEN "access" ELSE "bearer",
                             !.who = b, !.old = jar[b], !.late = jar[b] \in out]
<1>1. issued \in Nat /\ issued <= MaxPairs /\ jar[b] \in 0..issued /\ jar[b] # 0
  BY BoundsAssumption DEF IInv, TypeOK, Start
<1>2. jar[b] \in 0..MaxPairs
  BY <1>1, BoundsAssumption
<1>3. PICK late \in BOOLEAN : (jar[b] \in out) = late
  BY MembershipIsBoolean
<1>4. r = [Idle EXCEPT !.op = op, !.pc = IF op = "use" THEN "access" ELSE "bearer",
                       !.who = b, !.old = jar[b], !.late = late]
  BY <1>3
<1>5. request' = [request EXCEPT ![q] = r]
  BY DEF Start
<1> HIDE DEF r
<1>6. /\ r \in Request
      /\ r.old = jar[b] /\ r.new = 0 /\ r.upto = 0 /\ r.runs = 0
      /\ ~ r.passed /\ r.pc \in {"access", "bearer"}
  BY <1>2, <1>4, IdleIsRequest, BoundsAssumption DEF Idle, Request
<1>7. UNCHANGED <<tokens, redis, jar, ended, out, faults>> /\ overlapped' \in BOOLEAN
  BY DEF Start
<1>8. request' \in [Requests -> Request] /\ request'[q] = r
      /\ \A p \in Requests \ {q} : request'[p] = request[p]
  BY <1>5, <1>6 DEF IInv, TypeOK
<1>9. {r.old, r.new, r.upto} \subseteq 0..issued
  BY <1>1, <1>6
<1>10. QED
  BY <1>1, <1>6, <1>7, <1>8, <1>9, QuietStep DEF IInv, TypeOK, Fits

LEMMA CheckAccessStep == ASSUME IInv, NEW q \in Requests, CheckAccess(q) PROVE IInv'
<1>1. Pass(q) \/ \E pc \in {"bearer", "blocklist"} : GoTo(q, pc)
  BY DEF CheckAccess, NextIfAccessBad
<1>2. CASE \E pc \in {"bearer", "blocklist"} : GoTo(q, pc)
  BY <1>2, MoveStep DEF CheckAccess, At, Pcs, IInv, TypeOK
<1>3. CASE Pass(q)
  <2>1. request[q].op = "use" /\ request[q].pc = "access" /\ Fits(request[q], store)
        /\ request \in [Requests -> Request]
    BY DEF CheckAccess, At, IInv, TypeOK, ExchangeInv
  <2>2. /\ request' \in [Requests -> Request]
        /\ \A p \in Requests \ {q} : request'[p] = request[p]
        /\ request'[q].pc = "bearer"
        /\ request'[q].op = request[q].op /\ request'[q].old = request[q].old
        /\ request'[q].new = request[q].new /\ request'[q].passed = TRUE
        /\ request'[q].runs = request[q].runs /\ request'[q].upto = request[q].upto
    BY <1>3, <2>1, PassFields
  <2>3. Fits(request'[q], store)
    BY <2>1, <2>2 DEF Fits
  <2>4. {request'[q].old, request'[q].new, request'[q].upto} \subseteq 0..issued
    BY <2>2 DEF IInv, TypeOK
  <2>5. UNCHANGED <<tokens, redis, jar, ended, out, overlapped, faults>>
    BY DEF CheckAccess
  <2>6. jar' \in [Browsers -> 0..issued] /\ ended' \in 0..issued /\ out' \subseteq Issued
        /\ overlapped' \in BOOLEAN /\ faults' \in [Faults -> Nat]
    BY <2>5 DEF IInv, TypeOK
  <2>7. QED
    BY <2>2, <2>3, <2>4, <2>5, <2>6, QuietStep
<1>4. QED
  BY <1>1, <1>2, <1>3

LEMMA CheckBlocklistStep == ASSUME IInv, NEW q \in Requests, CheckBlocklist(q) PROVE IInv'
<1>1. PICK pc \in {"bearer", "owner"} : GoTo(q, pc)
  BY DEF CheckBlocklist
<1>2. QED
  BY <1>1, MoveStep DEF CheckBlocklist, At, Pcs, IInv, TypeOK

LEMMA CheckOwnerStep == ASSUME IInv, NEW q \in Requests, CheckOwner(q) PROVE IInv'
<1>1. PICK pc \in {"drop", "bearer", "collect"} : GoTo(q, pc)
  BY DEF CheckOwner
<1>2. QED
  BY <1>1, MoveStep DEF CheckOwner, At, Pcs, IInv, TypeOK
LEMMA DropStep == ASSUME IInv, NEW q \in Requests, Drop(q) PROVE IInv'
<1>1. request \in [Requests -> Request]
  BY DEF IInv, TypeOK
<1>2. UNCHANGED <<tokens, blockedA, blockedR, jar, ended, out, overlapped, faults>>
  BY DEF Drop
<1>3. GoTo(q, "block") /\ store' = store \ {request[q].old}
  BY DEF Drop
<1>4. TypeOK'
  <2>1. request' \in [Requests -> Request]
    BY <1>1, <1>3, GoToFields DEF Pcs
  <2>2. \A p \in Requests : /\ request'[p].old = request[p].old
                            /\ request'[p].new = request[p].new
                            /\ request'[p].upto = request[p].upto
    BY <1>1, <1>3, GoToFields DEF Pcs
  <2>3. QED
    BY <1>2, <1>3, <2>1, <2>2 DEF IInv, TypeOK, tokens, Issued
<1>5. \A p \in Requests : Fits(request'[p], store')
  <2> SUFFICES ASSUME NEW p \in Requests PROVE Fits(request'[p], store')
    OBVIOUS
  <2>1. Fits(request[p], store) /\ store' \subseteq store
    BY <1>1, <1>3 DEF IInv, ExchangeInv
  <2>2. CASE p # q
    <3>1. request'[p] = request[p]
      BY <1>1, <1>3, GoToFields, <2>2 DEF Pcs
    <3>2. QED
      BY <2>1, <3>1 DEF Fits
  <2>3. CASE p = q
    BY <1>1, <1>3, GoToFields, <2>1, <2>3 DEF Pcs, Fits, Drop, Block, At
  <2>4. QED
    BY <2>2, <2>3
<1>6. ExchangeInv'
  BY <1>2, <1>3, <1>5 DEF IInv, ExchangeInv, tokens, Issued, BlockedIsNotStored,
     ExchangedIsNotStored, Exchanged
<1>7. QED
  BY <1>4, <1>6 DEF IInv

LEMMA BlockStep == ASSUME IInv, NEW q \in Requests, Block(q) PROVE IInv'
<1>1. request \in [Requests -> Request]
  BY DEF IInv, TypeOK
<1>2. UNCHANGED <<tokens, store, blockedA, jar, ended, out, overlapped, faults>>
  BY DEF Block
<1>3. GoTo(q, "issue") /\ blockedR' = blockedR \cup {request[q].old}
  BY DEF Block
<1>4. request[q].old \in 1..issued /\ request[q].old \notin store
  BY BoundsAssumption DEF Block, At, IInv, TypeOK, ExchangeInv, Fits
<1>5. TypeOK'
  <2>1. request' \in [Requests -> Request]
    BY <1>1, <1>3, GoToFields DEF Pcs
  <2>2. \A p \in Requests : /\ request'[p].old = request[p].old
                            /\ request'[p].new = request[p].new
                            /\ request'[p].upto = request[p].upto
    BY <1>1, <1>3, GoToFields DEF Pcs
  <2>3. QED
    BY <1>2, <1>3, <1>4, <2>1, <2>2 DEF IInv, TypeOK, tokens, Issued
<1>6. \A p \in Requests : Fits(request'[p], store')
  <2> SUFFICES ASSUME NEW p \in Requests PROVE Fits(request'[p], store')
    OBVIOUS
  <2>1. Fits(request[p], store) /\ store' \subseteq store
    BY <1>1, <1>2, <1>3, <1>4 DEF IInv, ExchangeInv
  <2>2. CASE p # q
    <3>1. request'[p] = request[p]
      BY <1>1, <1>2, <1>3, <1>4, GoToFields, <2>2 DEF Pcs
    <3>2. QED
      BY <2>1, <3>1 DEF Fits
  <2>3. CASE p = q
    BY <1>1, <1>2, <1>3, <1>4, GoToFields, <2>1, <2>3 DEF Pcs, Fits, Drop, Block, At
  <2>4. QED
    BY <2>2, <2>3
<1>7. ExchangeInv'
  BY <1>2, <1>3, <1>4, <1>6 DEF IInv, ExchangeInv, tokens, Issued, BlockedIsNotStored,
     ExchangedIsNotStored, Exchanged
<1>8. QED
  BY <1>5, <1>7 DEF IInv

LEMMA IssueStep == ASSUME IInv, NEW q \in Requests, Issue(q) PROVE IInv'
<1> DEFINE new == issued + 1
           r == [request[q] EXCEPT !.new = issued + 1,
                                   !.pc = IF request[q].op = "use" THEN "handle" ELSE "reply"]
<1>1. issued \in Nat /\ issued' = new /\ new \in Pairs /\ new \notin Issued
  BY BoundsAssumption DEF Issue, NewPair, IInv, TypeOK, Pairs, Issued
<1>2. /\ parent' = [parent EXCEPT ![new] = request[q].old]
      /\ access' = [access EXCEPT ![new] = "live"]
      /\ refresh' = [refresh EXCEPT ![new] = "long"]
      /\ store' = store \cup {new}
      /\ UNCHANGED <<blockedA, blockedR, jar, ended, out, overlapped, faults>>
  BY DEF Issue, NewPair
<1>3. request[q] \in Request /\ request[q].old \in 0..issued /\ request[q].old \notin store
  BY DEF Issue, NewPair, At, IInv, TypeOK, ExchangeInv, Fits
<1>4. request' = [request EXCEPT ![q] = r]
  BY DEF Issue, NewPair
<1>5. /\ r \in Request
      /\ r.old = request[q].old /\ r.new = new /\ r.upto = request[q].upto
      /\ r.op = request[q].op /\ r.runs = request[q].runs /\ r.pc \in {"handle", "reply"}
      /\ r.passed = request[q].passed
  <2>1. PICK pc \in {"handle", "reply"} : r = [request[q] EXCEPT !.new = new, !.pc = pc]
    OBVIOUS
  <2>2. new \in 0..MaxPairs
    BY <1>1 DEF Pairs
  <2> HIDE DEF r, new
  <2>3. QED
    BY <1>3, <2>1, <2>2 DEF Request
<1> HIDE DEF r
<1>6. /\ request' \in [Requests -> Request] /\ request'[q] = r
      /\ \A p \in Requests \ {q} : request'[p] = request[p]
  BY <1>4, <1>5 DEF IInv, TypeOK
<1>7. TypeOK'
  <2>1. \A p \in Requests :
          {request'[p].old, request'[p].new, request'[p].upto} \subseteq 0..issued'
    BY <1>1, <1>3, <1>5, <1>6 DEF IInv, TypeOK
  <2>2. parent' \in [Pairs -> 0..MaxPairs]
    BY <1>1, <1>2, <1>3, BoundsAssumption DEF IInv, TypeOK, Pairs
  <2>3. /\ access' \in [Pairs -> {"live", "over"}]
        /\ refresh' \in [Pairs -> {"long", "short", "over"}]
    BY <1>2 DEF IInv, TypeOK
  <2>4. /\ issued' \in 0..MaxPairs
        /\ store' \subseteq Issued' /\ blockedA' \subseteq Issued' /\ blockedR' \subseteq Issued'
        /\ jar' \in [Browsers -> 0..issued'] /\ ended' \in 0..issued' /\ out' \subseteq Issued'
    BY <1>1, <1>2 DEF IInv, TypeOK, Issued, Pairs
  <2>5. overlapped' \in BOOLEAN /\ faults' \in [Faults -> Nat]
    BY <1>2 DEF IInv, TypeOK
  <2>6. QED
    BY <1>6, <2>1, <2>2, <2>3, <2>4, <2>5 DEF TypeOK
<1>8. \A c \in Issued' : parent'[c] = IF c = new THEN request[q].old ELSE parent[c]
  BY <1>1, <1>2 DEF IInv, TypeOK, Issued, Pairs
<1>9. \A c \in Issued' : parent'[c] < c
  BY <1>1, <1>3, <1>8 DEF IInv, ExchangeInv, Issued
<1>10. BlockedIsNotStored'
  BY <1>1, <1>2 DEF IInv, TypeOK, ExchangeInv, BlockedIsNotStored
<1>11. ExchangedIsNotStored'
  <2> SUFFICES ASSUME NEW s \in store', NEW c \in Issued', parent'[c] = s PROVE FALSE
    BY DEF ExchangedIsNotStored, Exchanged
  <2>1. s # new
    BY <1>1, <1>9 DEF Issued
  <2>2. s \in store
    BY <1>2, <2>1
  <2>3. c # new
    BY <1>3, <1>8, <2>2
  <2>4. c \in Issued /\ parent[c] = s
    BY <1>1, <1>8, <2>3 DEF Issued
  <2>5. QED
    BY <2>2, <2>4 DEF IInv, ExchangeInv, ExchangedIsNotStored, Exchanged
<1>12. \A p \in Requests : Fits(request'[p], store')
  <2> SUFFICES ASSUME NEW p \in Requests PROVE Fits(request'[p], store')
    OBVIOUS
  <2>1. Fits(request[p], store) /\ request[p].old <= issued /\ request[p].runs \in 0..3
    BY <1>1 DEF IInv, TypeOK, ExchangeInv, Request
  <2>2. CASE p # q
    <3>1. request'[p] = request[p]
      BY <1>6, <2>2
    <3>2. QED
      BY <1>1, <1>2, <2>1, <3>1 DEF Fits
  <2>3. CASE p = q
    <3>1. At(q, {"login", "use", "refresh"}, "issue")
      BY DEF Issue, NewPair
    <3>2. QED
      BY <1>5, <1>6, <2>1, <2>3, <3>1 DEF Fits, At
  <2>4. QED
    BY <2>2, <2>3
<1>13. QED
  BY <1>7, <1>9, <1>10, <1>11, <1>12 DEF IInv, ExchangeInv
LEMMA BearerStep == ASSUME IInv, NEW q \in Requests, Bearer(q) PROVE IInv'
<1>1. UNCHANGED <<tokens, redis, jar, ended, out, overlapped, faults>>
  BY DEF Bearer
<1>2. CASE Done(q)
  BY <1>1, <1>2, EndStep DEF IInv, TypeOK
<1>3. CASE ~ Done(q)
  <2>1. PICK pc \in {"handle", "blockAccess", "owner"} :
               GoTo(q, pc) /\ (pc = "handle" \/ request[q].op # "use")
    BY <1>3 DEF Bearer
  <2>2. request[q].pc = "bearer"
    BY DEF Bearer, At
  <2>3. faults' \in [Faults -> Nat]
    BY <1>1 DEF IInv, TypeOK
  <2>4. QED
    BY <1>1, <2>1, <2>2, <2>3, MoveStep DEF Pcs
<1>4. QED
  BY <1>2, <1>3

LEMMA HandleStep == ASSUME IInv, NEW q \in Requests, Handle(q) PROVE IInv'
<1> DEFINE r == [request[q] EXCEPT !.runs = @ + 1, !.pc = "reply"]
<1>1. request[q] \in Request
  BY DEF IInv, TypeOK
<1>2. /\ r \in Request
      /\ r.old = request[q].old /\ r.new = request[q].new /\ r.upto = request[q].upto
      /\ r.op = request[q].op /\ r.pc = "reply" /\ r.passed = request[q].passed
  <2>1. request[q].runs + 1 \in 0..3
    BY <1>1 DEF Handle, At, IInv, ExchangeInv, Fits, Request
  <2>2. QED
    BY <1>1, <2>1 DEF Request
<1>3. request' = [request EXCEPT ![q] = r]
  BY DEF Handle
<1> HIDE DEF r
<1>4. /\ request' \in [Requests -> Request] /\ request'[q] = r
      /\ \A p \in Requests \ {q} : request'[p] = request[p]
  BY <1>2, <1>3 DEF IInv, TypeOK
<1>5. UNCHANGED <<tokens, redis, jar, ended, out, overlapped, faults>>
  BY DEF Handle
<1>6. Fits(r, store)
  BY <1>2 DEF IInv, ExchangeInv, Fits, Handle, At
<1>7. {r.old, r.new, r.upto} \subseteq 0..issued
  BY <1>2 DEF IInv, TypeOK
<1>8. QED
  BY <1>4, <1>5, <1>6, <1>7, QuietStep DEF IInv, TypeOK

LEMMA BlockAccessStep == ASSUME IInv, NEW q \in Requests, BlockAccess(q) PROVE IInv'
<1>1. request \in [Requests -> Request]
  BY DEF IInv, TypeOK
<1>2. UNCHANGED <<tokens, store, blockedR, jar, ended, out, overlapped, faults>>
  BY DEF BlockAccess
<1>3. GoTo(q, "collect") /\ blockedA' = blockedA \cup {request[q].old}
  BY DEF BlockAccess
<1>4. request[q].old \in 1..issued
  BY BoundsAssumption DEF BlockAccess, At, IInv, TypeOK, ExchangeInv, Fits
<1>5. TypeOK'
  <2>1. request' \in [Requests -> Request]
    BY <1>1, <1>3, GoToFields DEF Pcs
  <2>2. \A p \in Requests : /\ request'[p].old = request[p].old
                            /\ request'[p].new = request[p].new
                            /\ request'[p].upto = request[p].upto
    BY <1>1, <1>3, GoToFields DEF Pcs
  <2>3. QED
    BY <1>2, <1>3, <1>4, <2>1, <2>2 DEF IInv, TypeOK, tokens, Issued
<1>6. \A p \in Requests : Fits(request'[p], store')
  <2> SUFFICES ASSUME NEW p \in Requests PROVE Fits(request'[p], store')
    OBVIOUS
  <2>1. Fits(request[p], store) /\ store' \subseteq store
    BY <1>1, <1>2, <1>3 DEF IInv, ExchangeInv
  <2>2. CASE p # q
    <3>1. request'[p] = request[p]
      BY <1>1, <1>2, <1>3, GoToFields, <2>2 DEF Pcs
    <3>2. QED
      BY <2>1, <3>1 DEF Fits
  <2>3. CASE p = q
    BY <1>1, <1>2, <1>3, GoToFields, <2>1, <2>3 DEF Pcs, Fits, BlockAccess, At
  <2>4. QED
    BY <2>2, <2>3
<1>7. ExchangeInv'
  BY <1>2, <1>6 DEF IInv, ExchangeInv, tokens, Issued, BlockedIsNotStored,
     ExchangedIsNotStored, Exchanged
<1>8. QED
  BY <1>5, <1>7 DEF IInv

LEMMA CollectStep == ASSUME IInv, NEW q \in Requests, Collect(q) PROVE IInv'
<1> DEFINE r == [request[q] EXCEPT !.found = store, !.upto = issued, !.pc = "erase"]
<1>1. request[q] \in Request /\ store \subseteq Pairs /\ issued \in Nat /\ issued \in 0..MaxPairs
  BY BoundsAssumption DEF IInv, TypeOK, Issued, Pairs
<1>2. /\ r \in Request
      /\ r.old = request[q].old /\ r.new = request[q].new /\ r.upto = issued
      /\ r.op = request[q].op /\ r.runs = request[q].runs /\ r.pc = "erase"
      /\ r.passed = request[q].passed
  BY <1>1 DEF Request
<1>3. request' = [request EXCEPT ![q] = r]
  BY DEF Collect, Collected
<1> HIDE DEF r
<1>4. /\ request' \in [Requests -> Request] /\ request'[q] = r
      /\ \A p \in Requests \ {q} : request'[p] = request[p]
  BY <1>2, <1>3 DEF IInv, TypeOK
<1>5. UNCHANGED <<tokens, redis, jar, ended, out, overlapped, faults>>
  BY DEF Collect, Collected
<1>6. Fits(r, store)
  BY <1>2 DEF Fits, Collect, Collected, At, IInv, ExchangeInv
<1>7. {r.old, r.new, r.upto} \subseteq 0..issued
  BY <1>1, <1>2 DEF IInv, TypeOK
<1>8. QED
  BY <1>4, <1>5, <1>6, <1>7, QuietStep DEF IInv, TypeOK
LEMMA EraseStep == ASSUME IInv, NEW q \in Requests, Erase(q) PROVE IInv'
<1>1. /\ request \in [Requests -> Request]
      /\ request[q].upto \in 0..issued /\ request[q].old \in 0..issued /\ issued \in Nat
  BY BoundsAssumption DEF IInv, TypeOK
<1>2. /\ store' = store \ request[q].found
      /\ UNCHANGED <<tokens, blockedA, blockedR, jar, overlapped, faults>>
      /\ request[q].pc = "erase"
      /\ request[q].op \in {"refresh", "logout"}
  BY DEF Erase, At
<1>3. ended' \in 0..issued
  BY <1>1 DEF Erase, IInv, TypeOK
<1>4. out' \subseteq Issued
  <2>1. request[q].old \in Issued
    BY <1>1, <1>2 DEF IInv, ExchangeInv, Fits, Issued
  <2>2. QED
    BY <2>1 DEF Erase, IInv, TypeOK
<1>5. \/ GoTo(q, "reply") \/ Done(q)
  BY DEF Erase
<1>6. /\ request' \in [Requests -> Request]
      /\ \A p \in Requests \ {q} : request'[p] = request[p]
      /\ {request'[q].old, request'[q].new, request'[q].upto} \subseteq 0..issued
      /\ Fits(request'[q], store')
  <2>1. CASE GoTo(q, "reply")
    BY <1>1, <1>2, <2>1, GoToFields DEF IInv, TypeOK, ExchangeInv, Fits, Pcs
  <2>2. CASE Done(q)
    BY <1>1, <1>2, <2>2, DoneFields DEF Idle, Fits
  <2>3. QED
    BY <1>5, <2>1, <2>2
<1>7. TypeOK'
  BY <1>2, <1>3, <1>4, <1>6 DEF IInv, TypeOK, tokens, Issued
<1>8. \A p \in Requests : Fits(request'[p], store')
  BY <1>2, <1>6 DEF IInv, ExchangeInv, Fits
<1>9. ExchangeInv'
  BY <1>2, <1>8 DEF IInv, ExchangeInv, tokens, Issued, BlockedIsNotStored,
     ExchangedIsNotStored, Exchanged
<1>10. QED
  BY <1>7, <1>9 DEF IInv

LEMMA ReplyStep == ASSUME IInv, NEW q \in Requests, Reply(q) PROVE IInv'
<1> DEFINE b == request[q].who
           p == IF request[q].op = "logout" THEN 0
                ELSE IF request[q].new # 0 THEN request[q].new ELSE jar[b]
<1>1. jar' \in [Browsers -> 0..issued]
  <2>1. jar' = [jar EXCEPT ![b] = p]
    BY DEF Reply
  <2>2. jar \in [Browsers -> 0..issued] /\ request[q].new \in 0..issued /\ 0 \in 0..issued
    BY BoundsAssumption DEF IInv, TypeOK
  <2>3. b \in Browsers => p \in 0..issued
    BY <2>2
  <2> HIDE DEF b, p
  <2>4. QED
    BY <2>1, <2>2, <2>3
<1>2. QED
  BY <1>1, EndStep DEF Reply, IInv, TypeOK

LEMMA TimeStep ==
  ASSUME IInv, NEW p \in Pairs, ExpireAccess(p) \/ AgeRefresh(p) PROVE IInv'
<1>1. UNCHANGED <<issued, parent, redis, jar, request, ended, out, overlapped, faults>>
  BY DEF ExpireAccess, AgeRefresh
<1>2. /\ access' \in [Pairs -> {"live", "over"}]
      /\ refresh' \in [Pairs -> {"long", "short", "over"}]
  BY DEF ExpireAccess, AgeRefresh, IInv, TypeOK
<1>3. QED
  BY <1>1, <1>2 DEF IInv, TypeOK, ExchangeInv, redis, Issued, BlockedIsNotStored,
     ExchangedIsNotStored, Exchanged

LEMMA RedisErrorStep == ASSUME IInv, NEW q \in Requests, RedisError(q) PROVE IInv'
<1>1. faults' \in [Faults -> Nat] /\ UNCHANGED <<tokens, redis, jar, ended, out, overlapped>>
  BY FaultCounted DEF RedisError, IInv
<1>2. \/ \E pc \in {"blocklist", "bearer", "reply"} : GoTo(q, pc)
      \/ Done(q)
  BY DEF RedisError, NextIfAccessBad
<1>3. CASE Done(q)
  BY <1>1, <1>3, EndStep DEF IInv, TypeOK
<1>4. CASE ~ Done(q)
  <2>1. PICK pc \in {"blocklist", "bearer", "reply"} : GoTo(q, pc)
    BY <1>2, <1>4
  <2>2. request[q].pc \notin {"bearer", "handle", "reply"}
    BY <1>4 DEF RedisError
  <2>3. QED
    BY <1>1, <2>1, <2>2, MoveStep DEF Pcs
<1>5. QED
  BY <1>3, <1>4

LEMMA RedisLossStep == ASSUME IInv, RedisLoss PROVE IInv'
<1>1. faults' \in [Faults -> Nat] /\ UNCHANGED <<tokens, jar, request, ended, out, overlapped>>
  BY FaultCounted DEF RedisLoss, IInv
<1>2. store' = {} /\ blockedA' = {} /\ blockedR' = {}
  BY DEF RedisLoss
<1>3. QED
  BY <1>1, <1>2 DEF IInv, TypeOK, ExchangeInv, Fits, tokens, Issued, BlockedIsNotStored,
     ExchangedIsNotStored

\* What an exception of the handler makes of a request that goes on.
HandlerRetried(r, s) ==
  /\ s.op = r.op /\ s.who = r.who /\ s.old = r.old /\ s.new = 0
  /\ s.late = r.late /\ s.upto = r.upto /\ ~ s.passed
  /\ s.runs = r.runs + 1
  /\ \/ r.passed /\ s.pc \in {"blocklist", "bearer"}
     \/ r.new # 0 /\ s.pc = "handle"

LEMMA HandlerErrorFields ==
  ASSUME IInv, NEW q \in Requests, HandlerError(q), ~ Done(q)
  PROVE  /\ request' \in [Requests -> Request]
         /\ \A p \in Requests \ {q} : request'[p] = request[p]
         /\ HandlerRetried(request[q], request'[q])
         /\ request[q].pc = "handle" /\ request[q].op = "use"
<1>1. /\ request[q] \in Request /\ Fits(request[q], store)
      /\ request[q].pc = "handle" /\ request[q].op = "use"
  BY DEF IInv, TypeOK, ExchangeInv, HandlerError, At
<1>2. CASE request[q].passed
  <2>1. request[q].runs = 0 /\ request[q].new = 0
    BY <1>1, <1>2 DEF Fits
  <2>2. PICK pc \in {"blocklist", "bearer"} : pc = NextIfAccessBad(q)
    BY DEF NextIfAccessBad
  <2> DEFINE r == [request[q] EXCEPT !.runs = @ + 1, !.passed = FALSE, !.pc = pc]
  <2>3. r = [request[q] EXCEPT !.runs = 1, !.passed = FALSE, !.pc = pc]
    BY <2>1
  <2>4. request' = [request EXCEPT ![q] = r]
    BY <1>2, <2>1, <2>2 DEF HandlerError
  <2> HIDE DEF r
  <2>5. /\ r \in Request /\ r.pc = pc
        /\ r.op = request[q].op /\ r.who = request[q].who /\ r.old = request[q].old
        /\ r.new = request[q].new /\ r.late = request[q].late /\ r.upto = request[q].upto
        /\ r.passed = FALSE /\ r.runs = 1
    <3>1. PICK n \in 0..3 : n = 1
      OBVIOUS
    <3>2. PICK next \in Pcs : next = pc
      BY DEF Pcs
    <3>3. PICK no \in BOOLEAN : no = FALSE
      OBVIOUS
    <3>4. r = [request[q] EXCEPT !.runs = n, !.passed = no, !.pc = next]
      BY <2>3, <3>1, <3>2, <3>3
    <3>5. /\ r \in Request /\ r.pc = next
          /\ r.op = request[q].op /\ r.who = request[q].who /\ r.old = request[q].old
          /\ r.new = request[q].new /\ r.late = request[q].late /\ r.upto = request[q].upto
          /\ r.passed = no /\ r.runs = n
      BY <1>1, <3>4 DEF Request, Pcs
    <3>6. QED
      BY <3>1, <3>2, <3>3, <3>5
  <2>6. HandlerRetried(request[q], r)
    BY <1>2, <2>1, <2>5 DEF HandlerRetried
  <2>7. QED
    BY <1>1, <2>4, <2>5, <2>6 DEF IInv, TypeOK
<1>3. CASE ~ request[q].passed
  <2>1. request[q].new # 0 /\ request[q].runs \in 0..1
    BY <1>1, <1>3 DEF HandlerError, Fits, Request
  <2> DEFINE r == [request[q] EXCEPT !.runs = @ + 1, !.new = 0]
  <2>2. request' = [request EXCEPT ![q] = r]
    BY <1>3, <2>1 DEF HandlerError
  <2>3. /\ r \in Request
        /\ r.op = request[q].op /\ r.who = request[q].who /\ r.old = request[q].old
        /\ r.new = 0 /\ r.late = request[q].late /\ r.upto = request[q].upto
        /\ r.passed = request[q].passed /\ r.runs = request[q].runs + 1 /\ r.pc = "handle"
    <3>1. PICK n \in 0..3 : n = request[q].runs + 1
      BY <2>1
    <3>2. r = [request[q] EXCEPT !.runs = n, !.new = 0] /\ 0 \in 0..MaxPairs
      BY <3>1, BoundsAssumption
    <3> HIDE DEF r
    <3>3. QED
      BY <1>1, <3>1, <3>2 DEF Request
  <2> HIDE DEF r
  <2>4. HandlerRetried(request[q], r)
    BY <1>3, <2>1, <2>3 DEF HandlerRetried
  <2>5. QED
    BY <1>1, <2>2, <2>3, <2>4 DEF IInv, TypeOK
<1>4. QED
  BY <1>2, <1>3

LEMMA HandlerErrorStep == ASSUME IInv, NEW q \in Requests, HandlerError(q) PROVE IInv'
<1>1. faults' \in [Faults -> Nat] /\ UNCHANGED <<tokens, redis, jar, ended, out, overlapped>>
  BY FaultCounted DEF HandlerError, IInv
<1>2. CASE Done(q)
  BY <1>1, <1>2, EndStep DEF IInv, TypeOK
<1>3. CASE ~ Done(q)
  <2>1. Fits(request[q], store) /\ request[q] \in Request
    BY DEF IInv, TypeOK, ExchangeInv
  <2>2. Fits(request'[q], store)
    BY <1>3, <2>1, HandlerErrorFields DEF Fits, HandlerRetried, Request
  <2>3. {request'[q].old, request'[q].new, request'[q].upto} \subseteq 0..issued
    BY <1>3, HandlerErrorFields, BoundsAssumption DEF HandlerRetried, IInv, TypeOK
  <2>4. QED
    BY <1>1, <1>3, <2>2, <2>3, HandlerErrorFields, QuietStep DEF IInv, TypeOK
<1>4. QED
  BY <1>2, <1>3

LEMMA LostReplyStep == ASSUME IInv, NEW q \in Requests, LostReply(q) PROVE IInv'
BY FaultCounted, EndStep DEF LostReply, IInv, TypeOK

LEMMA NextIInv == ASSUME IInv, [Next]_vars PROVE IInv'
<1>1. CASE UNCHANGED vars
  BY <1>1 DEF vars, tokens, redis, IInv, TypeOK, ExchangeInv, Issued, BlockedIsNotStored,
     ExchangedIsNotStored, Exchanged
<1>2. CASE Next
  <2>1. ASSUME NEW q \in Requests, NEW b \in Browsers, StartLogin(q, b) PROVE IInv'
    BY <2>1, StartLoginStep
  <2>2. ASSUME NEW q \in Requests, NEW b \in Browsers,
               NEW op \in {"use", "refresh", "logout"}, Start(q, b, op)
        PROVE  IInv'
    BY <2>2, StartStep
  <2>3. ASSUME NEW q \in Requests, Step(q) PROVE IInv'
    BY <2>3, CheckAccessStep, CheckBlocklistStep, CheckOwnerStep, DropStep, BlockStep, IssueStep,
       BearerStep, HandleStep, BlockAccessStep, CollectStep, EraseStep, ReplyStep DEF Step
  <2>4. ASSUME NEW q \in Requests, RedisError(q) \/ HandlerError(q) \/ LostReply(q) PROVE IInv'
    BY <2>4, RedisErrorStep, HandlerErrorStep, LostReplyStep
  <2>5. ASSUME NEW p \in Pairs, ExpireAccess(p) \/ AgeRefresh(p) PROVE IInv'
    BY <2>5, TimeStep
  <2>6. CASE RedisLoss
    BY <2>6, RedisLossStep
  <2>7. QED
    BY <1>2, <2>1, <2>2, <2>3, <2>4, <2>5, <2>6 DEF Next
<1>3. QED
  BY <1>1, <1>2

\* The inductive invariant holds throughout.
THEOREM Invariance == Spec => []IInv
<1>1. QED
  BY InitIInv, NextIInv, PTL DEF Spec

\* Every variable keeps its type.
THEOREM TypeCorrect == Spec => []TypeOK
<1>1. IInv => TypeOK
  BY DEF IInv
<1>2. QED
  BY <1>1, Invariance, PTL

\* Whatever call to Redis fails, a blocklisted refresh token is not in the store.
THEOREM BlockedTokensAreGone == Spec => []BlockedIsNotStored
<1>1. IInv => BlockedIsNotStored
  BY DEF IInv, ExchangeInv
<1>2. QED
  BY <1>1, Invariance, PTL

\* Whatever requests overlap, a refresh token that was exchanged is not in the
\* store.
THEOREM ExchangedTokensAreGone == Spec => []ExchangedIsNotStored
<1>1. IInv => ExchangedIsNotStored
  BY DEF IInv, ExchangeInv
<1>2. QED
  BY <1>1, Invariance, PTL
-----------------------------------------------------------------------------
\* A request sent after the logout of its pair is on the way to a refusal; a
\* logout blocklists before it collects, and what it collects is all that the
\* store S has of the pairs up to then.
Keeps(r, O, B, S, n) ==
  /\ r.late => r.old \in O /\ r.runs = 0 /\ r.pc \notin {"drop", "block", "issue", "handle"}
  /\ r.op = "logout" /\ r.pc \in {"collect", "erase"} => r.old \in B
  /\ r.pc = "erase" => r.upto <= n /\ \A s \in S : s <= r.upto => s \in r.found
  /\ r.op = "logout" /\ r.pc = "erase" => r.old <= r.upto

LogoutInv ==
  /\ out \subseteq blockedA /\ out \cap store = {}
  /\ \A q \in Requests : Keeps(request[q], out, blockedA, store, issued)

\* What a step may do to the requests it does not belong to.
LEMMA KeepsFrame ==
  ASSUME IInv, LogoutInv, NEW q \in Requests,
         issued' \in Nat, issued <= issued', out \subseteq out', blockedA \subseteq blockedA',
         store' \subseteq store \cup {issued + 1},
         \A p \in Requests \ {q} : request'[p] = request[p],
         out' \subseteq blockedA', out' \cap store' = {},
         Keeps(request'[q], out', blockedA', store', issued')
  PROVE  LogoutInv'
<1>1. issued \in Nat /\ store \subseteq Nat /\ \A p \in Requests : request[p].upto \in 0..issued
  BY BoundsAssumption DEF IInv, TypeOK, Issued
<1>2. ASSUME NEW p \in Requests PROVE Keeps(request'[p], out', blockedA', store', issued')
  <2>1. CASE p = q
    BY <2>1
  <2>2. CASE p # q
    <3>1. request'[p] = request[p] /\ Keeps(request[p], out, blockedA, store, issued)
      BY <2>2 DEF LogoutInv
    <3>2. QED
      BY <1>1, <3>1 DEF Keeps
  <2>3. QED
    BY <2>1, <2>2
<1>3. QED
  BY <1>2 DEF LogoutInv

LEMMA MoveKeeps ==
  ASSUME IInv, LogoutInv, NEW q \in Requests, NEW pc \in Pcs, GoTo(q, pc),
         UNCHANGED <<tokens, redis, out>>,
         request[q].late => pc \notin {"drop", "block", "issue", "handle"},
         request[q].op = "logout" => pc # "collect", pc # "erase"
  PROVE  LogoutInv'
<1>1. UNCHANGED <<issued, out, blockedA, store>>
  BY DEF tokens, redis
<1>2. request \in [Requests -> Request] /\ issued \in Nat
  BY BoundsAssumption DEF IInv, TypeOK
<1>3. Keeps(request[q], out, blockedA, store, issued)
  BY DEF LogoutInv
<1>4. Keeps(request'[q], out, blockedA, store, issued)
  BY <1>2, <1>3, GoToFields DEF Keeps
<1>5. \A p \in Requests \ {q} : request'[p] = request[p]
  BY <1>2, GoToFields
<1>6. QED
  BY <1>1, <1>2, <1>4, <1>5, KeepsFrame DEF LogoutInv

LEMMA EndKeeps ==
  ASSUME IInv, LogoutInv, NEW q \in Requests, Done(q), UNCHANGED <<tokens, redis, out>>
  PROVE  LogoutInv'
<1>1. UNCHANGED <<issued, out, blockedA, store>>
  BY DEF tokens, redis
<1>2. request \in [Requests -> Request] /\ issued \in Nat
  BY BoundsAssumption DEF IInv, TypeOK
<1>3. Keeps(Idle, out, blockedA, store, issued)
  BY DEF Keeps, Idle
<1>4. QED
  BY <1>1, <1>2, <1>3, DoneFields, KeepsFrame DEF LogoutInv

LEMMA StartKeeps ==
  ASSUME IInv, LogoutInv, NEW q \in Requests, NEW b \in Browsers,
         StartLogin(q, b) \/ \E op \in {"use", "refresh", "logout"} : Start(q, b, op)
  PROVE  LogoutInv'
<1>1. UNCHANGED <<issued, out, blockedA, store>>
  BY DEF tokens, redis, StartLogin, Start
<1>2. request \in [Requests -> Request] /\ issued \in Nat
  BY BoundsAssumption DEF IInv, TypeOK
<1>3. PICK r : /\ request' = [request EXCEPT ![q] = r]
               /\ r.late => r.old \in out
               /\ r.runs = 0 /\ r.pc \in {"issue", "access", "bearer"}
               /\ r.pc = "issue" => ~ r.late
  <2>1. CASE StartLogin(q, b)
    <3> DEFINE r == [Idle EXCEPT !.op = "login", !.pc = "issue", !.who = b]
    <3>1. /\ r.late => r.old \in out
          /\ r.runs = 0 /\ r.pc \in {"issue", "access", "bearer"}
          /\ r.pc = "issue" => ~ r.late
      BY DEF Idle
    <3>2. request' = [request EXCEPT ![q] = r]
      BY <2>1 DEF StartLogin
    <3> HIDE DEF r
    <3>3. QED
      BY <3>1, <3>2
  <2>2. ASSUME NEW op \in {"use", "refresh", "logout"}, Start(q, b, op)
        PROVE  \E r : /\ request' = [request EXCEPT ![q] = r]
                      /\ r.late => r.old \in out
                      /\ r.runs = 0 /\ r.pc \in {"issue", "access", "bearer"}
                      /\ r.pc = "issue" => ~ r.late
    <3> DEFINE r == [Idle EXCEPT !.op = op, !.pc = IF op = "use" THEN "access" ELSE "bearer",
                                 !.who = b, !.old = jar[b], !.late = jar[b] \in out]
    <3>1. PICK late \in BOOLEAN : (jar[b] \in out) = late
      BY MembershipIsBoolean
    <3>2. r = [Idle EXCEPT !.op = op, !.pc = IF op = "use" THEN "access" ELSE "bearer",
                           !.who = b, !.old = jar[b], !.late = late]
      BY <3>1
    <3>3. request' = [request EXCEPT ![q] = r]
      BY <2>2 DEF Start
    <3> HIDE DEF r
    <3>4. r.runs = 0 /\ r.pc \in {"access", "bearer"} /\ r.old = jar[b] /\ r.late = late
      BY <3>2 DEF Idle
    <3>5. r.late => r.old \in out
      BY <3>1, <3>4
    <3>6. QED
      BY <3>3, <3>4, <3>5
  <2>3. QED
    BY <2>1, <2>2
<1>4. Keeps(r, out, blockedA, store, issued)
  BY <1>3 DEF Keeps
<1>5. request'[q] = r /\ \A p \in Requests \ {q} : request'[p] = request[p]
  BY <1>2, <1>3
<1>6. QED
  BY <1>1, <1>2, <1>4, <1>5, KeepsFrame DEF LogoutInv

LEMMA CheckKeeps ==
  ASSUME IInv, LogoutInv, NEW q \in Requests,
         CheckAccess(q) \/ CheckBlocklist(q) \/ CheckOwner(q)
  PROVE  LogoutInv'
<1>1. UNCHANGED <<tokens, redis, out>>
  BY DEF CheckAccess, CheckBlocklist, CheckOwner
<1>2. CASE Pass(q)
  <2>1. UNCHANGED <<issued, out, blockedA, store>> /\ issued \in Nat
    BY <1>1, BoundsAssumption DEF tokens, redis, IInv, TypeOK
  <2>2. Keeps(request[q], out, blockedA, store, issued)
    BY DEF LogoutInv
  <2>3. Keeps(request'[q], out, blockedA, store, issued)
    BY <1>2, <2>2, PassFields DEF Keeps, IInv, TypeOK
  <2>4. \A p \in Requests \ {q} : request'[p] = request[p]
    BY <1>2, PassFields DEF IInv, TypeOK
  <2>5. out' \cap store' = {} /\ out' \subseteq blockedA'
    BY <2>1 DEF LogoutInv
  <2>6. Keeps(request'[q], out', blockedA', store', issued')
    BY <2>1, <2>3
  <2>7. QED
    BY <2>1, <2>4, <2>5, <2>6, KeepsFrame
<1>3. CASE ~ Pass(q)
  <2>1. PICK pc \in {"bearer", "blocklist", "owner", "drop", "collect"} :
          /\ GoTo(q, pc)
          /\ pc = "drop" => request[q].old \in store
          /\ request[q].op = "logout" => pc # "collect"
    BY <1>3 DEF CheckAccess, CheckBlocklist, CheckOwner, NextIfAccessBad, At
  <2>2. request[q].late => pc # "drop"
    BY <2>1 DEF LogoutInv, Keeps
  <2>3. QED
    BY <1>1, <2>1, <2>2, MoveKeeps DEF Pcs
<1>4. QED
  BY <1>2, <1>3
LEMMA DropKeeps ==
  ASSUME IInv, LogoutInv, NEW q \in Requests, Drop(q) \/ Block(q) PROVE LogoutInv'
<1>1. PICK pc \in {"block", "issue"} : GoTo(q, pc)
  BY DEF Drop, Block
<1>2. UNCHANGED <<issued, out, blockedA>> /\ store' \subseteq store
  BY DEF Drop, Block, tokens
<1>3. request \in [Requests -> Request] /\ issued \in Nat
  BY BoundsAssumption DEF IInv, TypeOK
<1>4. ~ request[q].late
  BY DEF Drop, Block, At, LogoutInv, Keeps, IInv, TypeOK
<1>5. Keeps(request'[q], out, blockedA, store', issued)
  BY <1>1, <1>3, <1>4, GoToFields DEF Keeps, Pcs
<1>6. \A p \in Requests \ {q} : request'[p] = request[p]
  BY <1>1, <1>3, GoToFields DEF Pcs
<1>7. QED
  BY <1>2, <1>3, <1>5, <1>6, KeepsFrame DEF LogoutInv

LEMMA IssueKeeps ==
  ASSUME IInv, LogoutInv, NEW q \in Requests, Issue(q) PROVE LogoutInv'
<1>1. /\ issued' = issued + 1 /\ issued \in Nat
      /\ store' = store \cup {issued + 1}
      /\ UNCHANGED <<blockedA, out>>
      /\ out \subseteq 1..issued
  BY BoundsAssumption DEF Issue, NewPair, IInv, TypeOK, Issued
<1>2. ~ request[q].late
  BY DEF Issue, NewPair, At, LogoutInv, Keeps, IInv, TypeOK
<1>3. /\ ~ request'[q].late /\ request'[q].pc \in {"handle", "reply"}
      /\ \A p \in Requests \ {q} : request'[p] = request[p]
  <2> DEFINE r == [request[q] EXCEPT !.new = issued + 1,
                                     !.pc = IF request[q].op = "use" THEN "handle" ELSE "reply"]
  <2>1. request[q] \in Request
    BY DEF IInv, TypeOK
  <2>2. PICK pc \in {"handle", "reply"} : r = [request[q] EXCEPT !.new = issued + 1, !.pc = pc]
    OBVIOUS
  <2>3. request' = [request EXCEPT ![q] = r]
    BY DEF Issue, NewPair
  <2> HIDE DEF r
  <2>4. r.late = request[q].late /\ r.pc = pc
    BY <2>1, <2>2 DEF Request
  <2>5. QED
    BY <1>2, <2>3, <2>4 DEF IInv, TypeOK
<1>4. Keeps(request'[q], out', blockedA', store', issued')
  BY <1>3 DEF Keeps
<1>5. out' \cap store' = {} /\ out' \subseteq blockedA'
  BY <1>1 DEF LogoutInv
<1>6. /\ issued' \in Nat /\ issued <= issued' /\ store' \subseteq store \cup {issued + 1}
      /\ out \subseteq out' /\ blockedA \subseteq blockedA'
  BY <1>1
<1>7. QED
  BY <1>3, <1>4, <1>5, <1>6, KeepsFrame

LEMMA BearerKeeps ==
  ASSUME IInv, LogoutInv, NEW q \in Requests, Bearer(q) PROVE LogoutInv'
<1>1. UNCHANGED <<tokens, redis, out>>
  BY DEF Bearer
<1>2. CASE Done(q)
  BY <1>1, <1>2, EndKeeps
<1>3. CASE /\ request[q].op = "use" /\ AccessGood(request[q].old)
           /\ GoTo(q, "handle")
  <2>1. ~ request[q].late
    BY <1>3 DEF LogoutInv, Keeps, AccessGood
  <2>2. QED
    BY <1>1, <1>3, <2>1, MoveKeeps DEF Pcs, IInv, TypeOK
<1>4. CASE GoTo(q, "blockAccess") \/ GoTo(q, "owner")
  BY <1>1, <1>4, MoveKeeps DEF Pcs
<1>5. QED
  BY <1>2, <1>3, <1>4 DEF Bearer

LEMMA HandleKeeps ==
  ASSUME IInv, LogoutInv, NEW q \in Requests,
         Handle(q) \/ (HandlerError(q) /\ ~ Done(q))
  PROVE  LogoutInv'
<1>1. UNCHANGED <<tokens, redis, out>>
  BY DEF Handle, HandlerError
<1>2. UNCHANGED <<issued, out, blockedA, store>> /\ issued \in Nat
  BY <1>1, BoundsAssumption DEF tokens, redis, IInv, TypeOK
<1>3. ~ request[q].late /\ request[q] \in Request /\ request[q].pc = "handle"
  BY DEF Handle, HandlerError, At, LogoutInv, Keeps, IInv, TypeOK
<1>4. /\ ~ request'[q].late /\ request'[q].pc \in {"handle", "reply", "blocklist", "bearer"}
      /\ \A p \in Requests \ {q} : request'[p] = request[p]
  <2>1. CASE Handle(q)
    <3> DEFINE r == [request[q] EXCEPT !.runs = @ + 1, !.pc = "reply"]
    <3>1. request' = [request EXCEPT ![q] = r]
      BY <2>1 DEF Handle
    <3>2. ~ r.late /\ r.pc = "reply"
      BY <1>3 DEF Request
    <3> HIDE DEF r
    <3>3. QED
      BY <3>1, <3>2 DEF IInv, TypeOK
  <2>2. CASE HandlerError(q) /\ ~ Done(q)
    BY <1>3, <2>2, HandlerErrorFields DEF HandlerRetried
  <2>3. QED
    BY <2>1, <2>2
<1>5. Keeps(request'[q], out, blockedA, store, issued)
  BY <1>4 DEF Keeps
<1>6. QED
  BY <1>2, <1>4, <1>5, KeepsFrame DEF LogoutInv
LEMMA BlockAccessKeeps ==
  ASSUME IInv, LogoutInv, NEW q \in Requests, BlockAccess(q) PROVE LogoutInv'
<1>1. /\ GoTo(q, "collect") /\ request[q].op = "logout"
      /\ blockedA' = blockedA \cup {request[q].old}
      /\ UNCHANGED <<issued, out, store>>
  BY DEF BlockAccess, At, tokens
<1>2. request \in [Requests -> Request] /\ issued \in Nat
  BY BoundsAssumption DEF IInv, TypeOK
<1>3. Keeps(request[q], out, blockedA, store, issued)
  BY DEF LogoutInv
<1>4. Keeps(request'[q], out, blockedA', store, issued)
  BY <1>1, <1>2, <1>3, GoToFields DEF Keeps, Pcs
<1>5. \A p \in Requests \ {q} : request'[p] = request[p]
  BY <1>1, <1>2, GoToFields DEF Pcs
<1>6. QED
  BY <1>1, <1>2, <1>4, <1>5, KeepsFrame DEF LogoutInv

LEMMA CollectKeeps ==
  ASSUME IInv, LogoutInv, NEW q \in Requests, Collect(q) PROVE LogoutInv'
<1> DEFINE r == [request[q] EXCEPT !.found = store, !.upto = issued, !.pc = "erase"]
<1>1. UNCHANGED <<issued, out, blockedA, store>> /\ issued \in Nat
  BY BoundsAssumption DEF Collect, Collected, tokens, redis, IInv, TypeOK
<1>2. request[q] \in Request /\ request[q].old \in 0..issued
  BY DEF IInv, TypeOK
<1>3. request' = [request EXCEPT ![q] = r] /\ request[q].pc = "collect"
  BY DEF Collect, Collected, At
<1>4. /\ r.late = request[q].late /\ r.old = request[q].old /\ r.runs = request[q].runs
      /\ r.op = request[q].op /\ r.found = store /\ r.upto = issued /\ r.pc = "erase"
  BY <1>2 DEF Request
<1> HIDE DEF r
<1>5. Keeps(request[q], out, blockedA, store, issued)
  BY DEF LogoutInv
<1>6. Keeps(r, out, blockedA, store, issued)
  BY <1>1, <1>2, <1>3, <1>4, <1>5 DEF Keeps
<1>7. request'[q] = r /\ \A p \in Requests \ {q} : request'[p] = request[p]
  BY <1>3 DEF IInv, TypeOK
<1>8. QED
  BY <1>1, <1>6, <1>7, KeepsFrame DEF LogoutInv

\* A logout that erased what it collected leaves no token of its pair: what
\* the store took in since is younger.
LEMMA EraseKeeps ==
  ASSUME IInv, LogoutInv, NEW q \in Requests, Erase(q) PROVE LogoutInv'
<1>1. /\ request[q].pc = "erase"
      /\ store' = store \ request[q].found
      /\ UNCHANGED <<issued, blockedA>>
      /\ request \in [Requests -> Request] /\ issued \in Nat
  BY BoundsAssumption DEF Erase, At, tokens, IInv, TypeOK
<1>2. Keeps(request[q], out, blockedA, store, issued)
  BY DEF LogoutInv
<1>3. CASE request[q].op = "logout"
  <2>1. out' = out \cup {request[q].old} /\ GoTo(q, "reply")
    BY <1>3 DEF Erase
  <2>2. request[q].old \in blockedA /\ request[q].old \notin store'
    BY <1>1, <1>2, <1>3 DEF Keeps
  <2>3. out' \subseteq blockedA' /\ out' \cap store' = {}
    BY <1>1, <2>1, <2>2 DEF LogoutInv
  <2>4. Keeps(request'[q], out', blockedA', store', issued')
    BY <1>1, <1>2, <2>1, GoToFields DEF Keeps, Pcs
  <2>5. \A p \in Requests \ {q} : request'[p] = request[p]
    BY <1>1, <2>1, GoToFields DEF Pcs
  <2>6. QED
    BY <1>1, <2>1, <2>3, <2>4, <2>5, KeepsFrame
<1>4. CASE request[q].op # "logout"
  <2>1. UNCHANGED out /\ Done(q)
    BY <1>4 DEF Erase
  <2>2. request'[q] = Idle /\ \A p \in Requests \ {q} : request'[p] = request[p]
    BY <1>1, <2>1, DoneFields
  <2>3. Keeps(request'[q], out', blockedA', store', issued')
    BY <2>2 DEF Keeps, Idle
  <2>4. QED
    BY <1>1, <2>1, <2>2, <2>3, KeepsFrame DEF LogoutInv
<1>5. QED
  BY <1>3, <1>4

LEMMA FaultKeeps ==
  ASSUME IInv, LogoutInv, NEW q \in Requests,
         RedisError(q) \/ HandlerError(q) \/ LostReply(q)
  PROVE  LogoutInv'
<1>1. UNCHANGED <<tokens, redis, out>>
  BY DEF RedisError, HandlerError, LostReply
<1>2. CASE Done(q)
  BY <1>1, <1>2, EndKeeps
<1>3. CASE RedisError(q) /\ ~ Done(q)
  <2>1. PICK pc \in {"blocklist", "bearer", "reply"} : GoTo(q, pc)
    BY <1>3 DEF RedisError, NextIfAccessBad
  <2>2. QED
    BY <1>1, <2>1, MoveKeeps DEF Pcs
<1>4. CASE HandlerError(q) /\ ~ Done(q)
  BY <1>4, HandleKeeps
<1>5. QED
  BY <1>2, <1>3, <1>4 DEF LostReply

LEMMA NextKeeps ==
  ASSUME IInv, LogoutInv, [Next]_vars, ~ Happened("redisLoss")' PROVE LogoutInv'
<1>1. CASE UNCHANGED <<issued, redis, request, out>>
  BY <1>1 DEF LogoutInv, redis
<1>2. ASSUME NEW q \in Requests, Step(q) PROVE LogoutInv'
  <2>1. CASE Reply(q)
    BY <2>1, EndKeeps DEF Reply
  <2>2. QED
    BY <1>2, <2>1, CheckKeeps, DropKeeps, IssueKeeps, BearerKeeps, HandleKeeps, BlockAccessKeeps,
       CollectKeeps, EraseKeeps DEF Step
<1>3. ASSUME NEW q \in Requests, NEW b \in Browsers,
             StartLogin(q, b) \/ \E op \in {"use", "refresh", "logout"} : Start(q, b, op)
      PROVE  LogoutInv'
  BY <1>3, StartKeeps
<1>4. ASSUME NEW q \in Requests, RedisError(q) \/ HandlerError(q) \/ LostReply(q)
      PROVE  LogoutInv'
  BY <1>4, FaultKeeps
<1>5. ~ RedisLoss
  BY DEF RedisLoss, Fault, Happened, IInv, TypeOK
<1>6. CASE \E p \in Pairs : ExpireAccess(p) \/ AgeRefresh(p)
  BY <1>1, <1>6 DEF ExpireAccess, AgeRefresh
<1>7. CASE UNCHANGED vars
  BY <1>1, <1>7 DEF vars, tokens
<1>8. QED
  BY <1>2, <1>3, <1>4, <1>5, <1>6, <1>7 DEF Next

LEMMA InitKeeps == Init => LogoutInv
BY DEF Init, LogoutInv, Keeps, Idle

\* A fault that happened stays one that happened.
LEMMA HappenedStays ==
  ASSUME TypeOK, [Next]_vars, NEW fault, Happened(fault) PROVE Happened(fault)'
<1>1. (UNCHANGED faults) \/ \E kind \in Faults : Fault(kind)
  <2>1. ASSUME NEW q \in Requests, Step(q) PROVE UNCHANGED faults
    BY <2>1 DEF Step, CheckAccess, CheckBlocklist, CheckOwner, Drop, Block, Issue, NewPair, Bearer,
       Handle, BlockAccess, Collect, Collected, Erase, Reply
  <2>2. ASSUME NEW q \in Requests, NEW b \in Browsers,
               StartLogin(q, b) \/ \E op \in {"use", "refresh", "logout"} : Start(q, b, op)
        PROVE  UNCHANGED faults
    BY <2>2 DEF StartLogin, Start
  <2>3. ASSUME NEW q \in Requests, RedisError(q) \/ HandlerError(q) \/ LostReply(q)
        PROVE  \E kind \in Faults : Fault(kind)
    BY <2>3 DEF RedisError, HandlerError, LostReply, Fault
  <2>4. ASSUME NEW p \in Pairs, ExpireAccess(p) \/ AgeRefresh(p) PROVE UNCHANGED faults
    BY <2>4 DEF ExpireAccess, AgeRefresh
  <2>5. RedisLoss => \E kind \in Faults : Fault(kind)
    BY DEF RedisLoss, Fault
  <2>6. QED
    BY <2>1, <2>2, <2>3, <2>4, <2>5 DEF Next, vars
<1>2. \A kind \in Faults : Fault(kind) => \A k \in Faults : faults[k] > 0 => faults'[k] > 0
  BY DEF Fault, TypeOK
<1>3. QED
  BY <1>1, <1>2 DEF Happened

\* A request sent after a logout with the pair logged out never reaches a
\* handler, as long as Redis keeps its keys.
THEOREM LogoutHolds == Spec => []LoggedOutStaysOut
<1> DEFINE Holds == ~ Happened("redisLoss") => LogoutInv
<1>1. Init => Holds
  BY InitKeeps
<1>2. IInv /\ Holds /\ [Next]_vars => Holds'
  BY NextKeeps, HappenedStays DEF IInv
<1>3. Holds => LoggedOutStaysOut
  BY DEF LogoutInv, Keeps, LoggedOutStaysOut
<1>4. QED
  BY <1>1, <1>2, <1>3, Invariance, PTL DEF Spec

-----------------------------------------------------------------------------
\* What a step makes of its request r, with S in the store and n pairs issued.
Follows(r, s, S, n) ==
  /\ s.op = r.op /\ s.old = r.old /\ s.who = r.who
  /\ s.pc = "drop" => r.old \in S
  /\ s.pc = "block" => r.pc = "drop"
  /\ s.pc = "issue" => r.pc = "block"
  /\ s.pc = "collect" /\ r.op = "refresh" => r.old \notin S
  /\ s.pc = "erase" => s.found = S /\ s.upto = n

\* A step of a request that exchanges nothing.
LEMMA StepFollows ==
  ASSUME IInv, NEW q \in Requests,
         \/ Step(q) /\ ~ Issue(q)
         \/ HandlerError(q) \/ LostReply(q) \/ RedisError(q)
  PROVE  /\ UNCHANGED <<tokens, overlapped>>
         /\ \A p \in Requests \ {q} : request'[p] = request[p]
         /\ request[q] # Idle
         /\ request'[q] = Idle \/ Follows(request[q], request'[q], store, issued)
         /\ request'[q] = Idle \/ request'[q].new = request[q].new \/ HandlerError(q)
<1>1. request \in [Requests -> Request] /\ request[q] \in Request
  BY DEF IInv, TypeOK
<1>2. UNCHANGED <<tokens, overlapped>>
  BY DEF Step, CheckAccess, CheckBlocklist, CheckOwner, Drop, Block, Bearer, Handle, BlockAccess,
     Collect, Collected, Erase, Reply, HandlerError, LostReply, RedisError
<1>3. request[q] # Idle
  <2>1. request[q].pc # "done" \/ request[q].op # "idle"
    BY DEF Step, CheckAccess, CheckBlocklist, CheckOwner, Drop, Block, Issue, NewPair, Bearer,
       Handle, BlockAccess, Collect, Collected, Erase, Reply, HandlerError, LostReply, RedisError, At
  <2>2. QED
    BY <2>1 DEF Idle
<1>4. CASE Done(q)
  BY <1>1, <1>2, <1>3, <1>4, DoneFields
<1>5. ASSUME NEW pc \in Pcs, GoTo(q, pc),
             /\ pc = "drop" => request[q].old \in store
             /\ pc = "block" => request[q].pc = "drop"
             /\ pc = "issue" => request[q].pc = "block"
             /\ pc = "collect" /\ request[q].op = "refresh" => request[q].old \notin store
             /\ pc # "erase"
      PROVE  /\ \A p \in Requests \ {q} : request'[p] = request[p]
             /\ Follows(request[q], request'[q], store, issued)
             /\ request'[q].new = request[q].new
  BY <1>1, <1>5, GoToFields DEF Follows
<1>6. CASE (CheckAccess(q) \/ CheckBlocklist(q) \/ CheckOwner(q)) /\ ~ Pass(q)
  <2>1. PICK pc \in {"bearer", "blocklist", "owner", "drop", "collect"} :
          /\ GoTo(q, pc)
          /\ pc = "drop" => request[q].old \in store
          /\ pc = "collect" => request[q].old \notin store
    BY <1>6 DEF CheckAccess, CheckBlocklist, CheckOwner, NextIfAccessBad
  <2>2. QED
    BY <1>2, <1>3, <1>5, <2>1 DEF Pcs
<1>7. CASE Drop(q) \/ Block(q) \/ BlockAccess(q)
  <2>1. PICK pc \in {"block", "issue", "collect"} :
          /\ GoTo(q, pc)
          /\ pc = "block" => request[q].pc = "drop"
          /\ pc = "issue" => request[q].pc = "block"
          /\ pc = "collect" => request[q].op = "logout"
    BY <1>7 DEF Drop, Block, BlockAccess, At
  <2>2. QED
    BY <1>2, <1>3, <1>5, <2>1 DEF Pcs
<1>8. CASE Bearer(q) \/ Erase(q) \/ RedisError(q)
  <2>1. Done(q) \/ \E pc \in {"handle", "blockAccess", "owner", "reply", "blocklist", "bearer"} :
                     GoTo(q, pc)
    BY <1>8 DEF Bearer, Erase, RedisError, NextIfAccessBad
  <2>2. QED
    BY <1>2, <1>3, <1>4, <1>5, <2>1 DEF Pcs
<1>9. CASE Pass(q)
  BY <1>1, <1>2, <1>3, <1>9, PassFields DEF Follows
<1>10. CASE HandlerError(q) /\ ~ Done(q)
  BY <1>2, <1>3, <1>10, HandlerErrorFields DEF Follows, HandlerRetried
<1>11. CASE Handle(q) \/ Collect(q)
  <2>1. CASE Done(q)
    BY <1>4, <2>1
  <2>2. CASE ~ Done(q)
    <3>1. \E r : /\ request' = [request EXCEPT ![q] = r]
                 /\ r.op = request[q].op /\ r.old = request[q].old /\ r.who = request[q].who
                 /\ r.new = request[q].new
                 /\ r.pc = "reply"
                    \/ (r.pc = "erase" /\ r.found = store /\ r.upto = issued)
      <4>1. CASE Handle(q)
        <5> DEFINE r == [request[q] EXCEPT !.runs = @ + 1, !.pc = "reply"]
        <5>1. request' = [request EXCEPT ![q] = r]
          BY <4>1 DEF Handle
        <5>2. /\ r.op = request[q].op /\ r.old = request[q].old /\ r.who = request[q].who
              /\ r.new = request[q].new /\ r.pc = "reply"
          BY <1>1 DEF Request
        <5> HIDE DEF r
        <5>3. QED
          BY <5>1, <5>2
      <4>2. CASE Collect(q)
        <5> DEFINE r == [request[q] EXCEPT !.found = store, !.upto = issued, !.pc = "erase"]
        <5>1. request' = [request EXCEPT ![q] = r]
          BY <4>2 DEF Collect, Collected
        <5>2. /\ r.op = request[q].op /\ r.old = request[q].old /\ r.who = request[q].who
              /\ r.new = request[q].new /\ r.pc = "erase"
              /\ r.found = store /\ r.upto = issued
          BY <1>1 DEF Request
        <5> HIDE DEF r
        <5>3. QED
          BY <5>1, <5>2
      <4>3. QED
        BY <1>11, <4>1, <4>2
    <3>2. PICK r : /\ request' = [request EXCEPT ![q] = r]
                   /\ r.op = request[q].op /\ r.old = request[q].old /\ r.who = request[q].who
                   /\ r.new = request[q].new
                   /\ r.pc = "reply"
                      \/ (r.pc = "erase" /\ r.found = store /\ r.upto = issued)
      BY <3>1
    <3>3. request'[q] = r /\ \A p \in Requests \ {q} : request'[p] = request[p]
      BY <1>1, <3>2
    <3>4. QED
      BY <1>2, <1>3, <3>2, <3>3 DEF Follows
  <2>3. QED
    BY <2>1, <2>2
<1>12. QED
  BY <1>4, <1>6, <1>7, <1>8, <1>9, <1>10, <1>11 DEF Step, Reply, LostReply

\* A request that is given a pair: every pair's parent stays what it was, and
\* that of the new one is the pair presented.
LEMMA IssueFields ==
  ASSUME IInv, NEW q \in Requests, Issue(q)
  PROVE  /\ issued \in Nat /\ issued' = issued + 1
         /\ \A c \in Issued' : parent'[c] = IF c = issued + 1 THEN request[q].old ELSE parent[c]
         /\ \A p \in Requests \ {q} : request'[p] = request[p]
         /\ request'[q].op = request[q].op /\ request'[q].old = request[q].old
         /\ request'[q].who = request[q].who /\ request'[q].new = issued + 1
         /\ request'[q].pc \in {"handle", "reply"}
<1> DEFINE r == [request[q] EXCEPT !.new = issued + 1,
                                   !.pc = IF request[q].op = "use" THEN "handle" ELSE "reply"]
<1>1. /\ issued \in Nat /\ issued' = issued + 1 /\ issued + 1 \in Pairs
      /\ parent' = [parent EXCEPT ![issued + 1] = request[q].old]
      /\ request[q] \in Request
  BY BoundsAssumption DEF Issue, NewPair, IInv, TypeOK, Pairs
<1>2. \A c \in Issued' : parent'[c] = IF c = issued + 1 THEN request[q].old ELSE parent[c]
  BY <1>1 DEF IInv, TypeOK, Issued, Pairs
<1>3. PICK pc \in {"handle", "reply"} : r = [request[q] EXCEPT !.new = issued + 1, !.pc = pc]
  OBVIOUS
<1>4. request' = [request EXCEPT ![q] = r]
  BY DEF Issue, NewPair
<1> HIDE DEF r
<1>5. /\ r.op = request[q].op /\ r.old = request[q].old /\ r.pc = pc
      /\ r.who = request[q].who /\ r.new = issued + 1
  BY <1>1, <1>3 DEF Request
<1>6. request'[q] = r /\ \A p \in Requests \ {q} : request'[p] = request[p]
  BY <1>4 DEF IInv, TypeOK
<1>7. QED
  BY <1>1, <1>2, <1>5, <1>6

\* What a request is when it has just been sent.
LEMMA StartFields ==
  ASSUME IInv, NEW q \in Requests, NEW b \in Browsers,
         StartLogin(q, b) \/ \E op \in {"use", "refresh", "logout"} : Start(q, b, op)
  PROVE  /\ UNCHANGED <<tokens, redis, jar, ended, faults>>
         /\ request'[q].who = b /\ request'[q].new = 0 /\ request'[q].old \in {0, jar[b]}
         /\ request[q] = Idle /\ \A p \in Requests \ {q} : request'[p] = request[p]
         /\ overlapped' = (overlapped \/ Active(Requests) # {})
         /\ \/ request'[q].op = "login" /\ request'[q].pc = "issue" /\ request'[q].old = 0
            \/ request'[q].op # "login" /\ request'[q].pc \in {"access", "bearer"}
<1>1. request \in [Requests -> Request]
  BY DEF IInv, TypeOK
<1>2. CASE StartLogin(q, b)
  <2> DEFINE r == [Idle EXCEPT !.op = "login", !.pc = "issue", !.who = b]
  <2>1. r.op = "login" /\ r.pc = "issue" /\ r.old = 0 /\ r.who = b /\ r.new = 0
    BY DEF Idle
  <2>2. request' = [request EXCEPT ![q] = r]
    BY <1>2 DEF StartLogin
  <2> HIDE DEF r
  <2>3. request'[q] = r /\ \A p \in Requests \ {q} : request'[p] = request[p]
    BY <1>1, <2>2
  <2>4. QED
    BY <1>2, <2>1, <2>3 DEF StartLogin
<1>3. ASSUME NEW op \in {"use", "refresh", "logout"}, Start(q, b, op)
      PROVE  /\ UNCHANGED <<tokens, redis, jar, ended, faults>>
             /\ request'[q].who = b /\ request'[q].new = 0 /\ request'[q].old = jar[b]
             /\ request[q] = Idle /\ \A p \in Requests \ {q} : request'[p] = request[p]
             /\ overlapped' = (overlapped \/ Active(Requests) # {})
             /\ request'[q].op # "login" /\ request'[q].pc \in {"access", "bearer"}
  <2> DEFINE r == [Idle EXCEPT !.op = op, !.pc = IF op = "use" THEN "access" ELSE "bearer",
                               !.who = b, !.old = jar[b], !.late = jar[b] \in out]
  <2>1. PICK late \in BOOLEAN : (jar[b] \in out) = late
    BY MembershipIsBoolean
  <2>2. r = [Idle EXCEPT !.op = op, !.pc = IF op = "use" THEN "access" ELSE "bearer",
                         !.who = b, !.old = jar[b], !.late = late]
    BY <2>1
  <2>3. request' = [request EXCEPT ![q] = r]
    BY <1>3 DEF Start
  <2> HIDE DEF r
  <2>4. /\ r.op = op /\ r.pc \in {"access", "bearer"}
        /\ r.who = b /\ r.new = 0 /\ r.old = jar[b]
    BY <2>2 DEF Idle
  <2>5. request'[q] = r /\ \A p \in Requests \ {q} : request'[p] = request[p]
    BY <1>1, <2>3
  <2>6. QED
    BY <1>3, <2>4, <2>5 DEF Start
<1>4. QED
  BY <1>2, <1>3

\* With no two requests in flight at once, the pair that is about to be exchanged
\* has not been exchanged yet.
Alone == \A p, q \in Requests : request[p] # Idle /\ request[q] # Idle => p = q
ChildOnce == \A c, d \in Issued : parent[c] = parent[d] /\ parent[c] # 0 => c = d
SerialInv ==
  /\ Alone
  /\ ChildOnce
  /\ \A q \in Requests :
       request[q].pc \in {"drop", "block", "issue"} /\ request[q].old # 0 =>
         ~ Exchanged(request[q].old)

LEMMA OverlapStays == ASSUME IInv, [Next]_vars, overlapped PROVE overlapped'
<1>1. ASSUME NEW q \in Requests, Step(q) \/ HandlerError(q) \/ LostReply(q) \/ RedisError(q)
      PROVE  overlapped'
  BY <1>1, StepFollows DEF Issue, NewPair
<1>2. ASSUME NEW q \in Requests, NEW b \in Browsers,
             StartLogin(q, b) \/ \E op \in {"use", "refresh", "logout"} : Start(q, b, op)
      PROVE  overlapped'
  BY <1>2, StartFields
<1>3. CASE (\E p \in Pairs : ExpireAccess(p) \/ AgeRefresh(p)) \/ RedisLoss \/ UNCHANGED vars
  BY <1>3 DEF ExpireAccess, AgeRefresh, RedisLoss, vars
<1>4. QED
  BY <1>1, <1>2, <1>3 DEF Next

LEMMA SerialNext == ASSUME IInv, SerialInv, [Next]_vars, ~ overlapped' PROVE SerialInv'
<1> USE DEF SerialInv
<1>1. CASE UNCHANGED <<issued, parent, request>>
  BY <1>1 DEF Alone, ChildOnce, Exchanged, Issued
<1>2. ASSUME NEW q \in Requests,
             \/ Step(q) /\ ~ Issue(q)
             \/ HandlerError(q) \/ LostReply(q) \/ RedisError(q)
      PROVE  SerialInv'
  <2>1. /\ UNCHANGED <<issued, parent>>
        /\ \A p \in Requests \ {q} : request'[p] = request[p]
        /\ request[q] # Idle
        /\ request'[q] = Idle \/ Follows(request[q], request'[q], store, issued)
    BY <1>2, StepFollows DEF tokens
  <2>2. Alone' /\ ChildOnce'
    BY <2>1 DEF Alone, ChildOnce, Issued
  <2>3. \A x : Exchanged(x)' = Exchanged(x)
    BY <2>1 DEF Exchanged, Issued
  <2>4. request'[q].pc \in {"drop", "block", "issue"} /\ request'[q].old # 0 =>
          ~ Exchanged(request'[q].old)
    BY <2>1 DEF Idle, Follows, IInv, ExchangeInv, ExchangedIsNotStored
  <2>5. QED
    BY <2>1, <2>2, <2>3, <2>4
<1>3. ASSUME NEW q \in Requests, Issue(q) PROVE SerialInv'
  <2>1. request[q].pc = "issue" /\ request[q] # Idle
    BY <1>3 DEF Issue, NewPair, At, Idle
  <2>2. \A p \in Requests \ {q} : request'[p] = Idle /\ request[p] = Idle
    BY <1>3, <2>1, IssueFields DEF Alone
  <2>3. Alone'
    BY <2>2 DEF Alone
  <2>4. ChildOnce'
    <3> SUFFICES ASSUME NEW c \in Issued', NEW d \in Issued', parent'[c] = parent'[d],
                        parent'[c] # 0, c # d
                 PROVE  FALSE
      BY DEF ChildOnce
    <3>1. \A e \in Issued' : e = issued + 1 \/ e \in Issued
      BY <1>3, IssueFields DEF Issued
    <3>2. CASE c \in Issued /\ d \in Issued
      BY <1>3, <3>2, IssueFields DEF ChildOnce, Issued
    <3>3. CASE c = issued + 1 \/ d = issued + 1
      <4>1. PICK e \in Issued : parent[e] = request[q].old /\ request[q].old # 0
        BY <1>3, <3>1, <3>3, IssueFields DEF Issued
      <4>2. QED
        BY <2>1, <4>1 DEF Exchanged
    <3>4. QED
      BY <3>1, <3>2, <3>3
  <2>5. \A p \in Requests : request'[p].pc \notin {"drop", "block", "issue"}
    BY <1>3, <2>2, IssueFields DEF Idle
  <2>6. QED
    BY <2>3, <2>4, <2>5
<1>4. ASSUME NEW q \in Requests, NEW b \in Browsers,
             StartLogin(q, b) \/ \E op \in {"use", "refresh", "logout"} : Start(q, b, op)
      PROVE  SerialInv'
  <2>1. /\ UNCHANGED <<issued, parent>>
        /\ \A p \in Requests \ {q} : request'[p] = request[p] /\ request[p] = Idle
        /\ request'[q].pc \in {"drop", "block", "issue"} => request'[q].old = 0
    BY <1>4, StartFields DEF tokens, Active
  <2>2. Alone' /\ ChildOnce'
    BY <2>1 DEF Alone, ChildOnce, Issued
  <2>3. \A p \in Requests \ {q} : request'[p].pc \notin {"drop", "block", "issue"}
    BY <2>1 DEF Idle
  <2>4. QED
    BY <2>1, <2>2, <2>3
<1>5. CASE (\E p \in Pairs : ExpireAccess(p) \/ AgeRefresh(p)) \/ RedisLoss \/ UNCHANGED vars
  BY <1>1, <1>5 DEF ExpireAccess, AgeRefresh, RedisLoss, vars, tokens
<1>6. QED
  BY <1>2, <1>3, <1>4, <1>5 DEF Next

\* Until requests overlap, a refresh token is exchanged for one pair, whatever
\* fails half way through an exchange.
THEOREM ExchangeIsSingle == Spec => []ExchangedOnce
<1> DEFINE Serial == overlapped \/ SerialInv
<1>1. Init => Serial
  BY DEF Init, SerialInv, Alone, ChildOnce, Issued, Idle
<1>2. IInv /\ Serial /\ [Next]_vars => Serial'
  BY SerialNext, OverlapStays
<1>3. Serial => ExchangedOnce
  BY DEF SerialInv, ChildOnce, ExchangedOnce
<1>4. QED
  BY <1>1, <1>2, <1>3, Invariance, PTL DEF Spec

-----------------------------------------------------------------------------
\* Redis has answered every call, and kept its keys.
Calm == ~ Happened("redisError") /\ ~ Happened("redisLoss")

\* A refresh token that is missing from the store was exchanged, or revoked, or
\* is being exchanged; a scan collects no more than there is.
Accounted ==
  /\ \A p \in Issued :
       \/ p \in store \/ Exchanged(p) \/ p <= ended
       \/ \E q \in Requests : request[q].old = p /\ request[q].pc \in {"block", "issue"}
  /\ \A q \in Requests :
       request[q].pc = "erase" => \A p \in request[q].found : p <= request[q].upto

\* A request on its way out of the exchange has been given its pair, as long as
\* Redis answers.
LEMMA ExchangeGoesOn ==
  ASSUME IInv, NEW q \in Requests, Step(q) \/ HandlerError(q) \/ LostReply(q), ~ Issue(q),
         request[q].pc \in {"block", "issue"}
  PROVE  request'[q].old = request[q].old /\ request'[q].pc = "issue"
<1>1. Block(q)
  BY DEF Step, CheckAccess, CheckBlocklist, CheckOwner, Drop, Issue, NewPair, Bearer, Handle,
     BlockAccess, Collect, Collected, Erase, Reply, HandlerError, LostReply, At, IInv, TypeOK,
     Request, RedisError
<1>2. QED
  BY <1>1, GoToFields DEF Block, IInv, TypeOK, Pcs

LEMMA AccountedIssue ==
  ASSUME IInv, Accounted, NEW q \in Requests, Issue(q) PROVE Accounted'
<1>1. store' = store \cup {issued + 1} /\ ended' = ended
  BY DEF Issue, NewPair
<1>2. \A x \in Issued : Exchanged(x) => Exchanged(x)'
  BY IssueFields DEF Exchanged, Issued
<1>3. \E c \in Issued' : parent'[c] = request[q].old
  <2>1. issued + 1 \in Issued' /\ parent'[issued + 1] = request[q].old
    BY IssueFields DEF Issued
  <2>2. QED
    BY <2>1
<1>4. ASSUME NEW x \in Issued'
      PROVE  \/ x \in store' \/ Exchanged(x)' \/ x <= ended'
             \/ \E p \in Requests : request'[p].old = x /\ request'[p].pc \in {"block", "issue"}
  <2>1. CASE x \notin Issued
    BY <1>1, <2>1, IssueFields DEF Issued
  <2>2. CASE x \in Issued /\ x = request[q].old
    BY <1>3, <2>2 DEF Exchanged
  <2>3. CASE x \in Issued /\ x # request[q].old
    BY <1>1, <1>2, <2>3, IssueFields DEF Accounted
  <2>4. QED
    BY <2>1, <2>2, <2>3
<1>5. \A p \in Requests :
        request'[p].pc = "erase" => \A x \in request'[p].found : x <= request'[p].upto
  BY IssueFields DEF Accounted
<1>6. QED
  BY <1>4, <1>5 DEF Accounted

\* A token leaves the store to be exchanged, or revoked; what is revoked stays so.
LEMMA TokenLeaves ==
  ASSUME IInv, Accounted, NEW q \in Requests,
         Step(q) \/ HandlerError(q) \/ LostReply(q), ~ Issue(q)
  PROVE  /\ \A x \in Issued :
              (x \in store => x \in store' \/ x <= ended' \/ (x = request[q].old /\ Drop(q)))
         /\ \A x \in Issued : x <= ended => x <= ended'
<1>1. /\ issued \in Nat /\ store \subseteq Issued /\ ended \in 0..issued
      /\ request[q].upto \in 0..issued
  BY BoundsAssumption DEF IInv, TypeOK
<1>2. \A x \in Issued :
        (x \in store => x \in store' \/ x <= ended' \/ (x = request[q].old /\ Drop(q)))
  <2>1. CASE Drop(q)
    BY <2>1 DEF Drop
  <2>2. CASE Erase(q)
    <3>1. /\ \A x \in request[q].found : x <= request[q].upto
          /\ store' = store \ request[q].found
          /\ request[q].upto <= ended' /\ ended' \in Nat
      BY <1>1, <2>2 DEF Erase, At, Accounted
    <3>2. ASSUME NEW x \in Issued, x \in request[q].found PROVE x <= ended'
      <4>1. x \in Nat /\ x <= request[q].upto /\ request[q].upto \in Nat
        BY <1>1, <3>1, <3>2 DEF Issued
      <4>2. QED
        BY <3>1, <4>1
    <3>3. QED
      BY <3>1, <3>2
  <2>3. CASE ~ Drop(q) /\ ~ Erase(q)
    BY <2>3 DEF Step, CheckAccess, CheckBlocklist, CheckOwner, Block, Bearer, Handle, BlockAccess,
       Collect, Collected, Reply, HandlerError, LostReply, redis
  <2>4. QED
    BY <2>1, <2>2, <2>3
<1>3. \A x \in Issued : x <= ended => x <= ended'
  <2>1. ended' \in {ended, request[q].upto} /\ ended' >= ended
    BY <1>1 DEF Step, CheckAccess, CheckBlocklist, CheckOwner, Drop, Block, Bearer, Handle,
       BlockAccess, Collect, Collected, Erase, Reply, HandlerError, LostReply
  <2>2. QED
    BY <1>1, <2>1 DEF Issued
<1>4. QED
  BY <1>2, <1>3

LEMMA AccountedStep ==
  ASSUME IInv, Accounted, NEW q \in Requests,
         Step(q) \/ HandlerError(q) \/ LostReply(q), ~ Issue(q)
  PROVE  Accounted'
<1>1. /\ UNCHANGED <<issued, parent>>
      /\ \A p \in Requests \ {q} : request'[p] = request[p]
      /\ request'[q] = Idle \/ Follows(request[q], request'[q], store, issued)
  BY StepFollows DEF tokens
<1>2. \A x : Exchanged(x)' = Exchanged(x)
  BY <1>1 DEF Exchanged, Issued
<1>3. /\ issued \in Nat /\ store \subseteq Issued /\ ended \in 0..issued
      /\ request[q].upto \in 0..issued
  BY BoundsAssumption DEF IInv, TypeOK
<1>4. \A x \in Issued :
        (x \in store => x \in store' \/ x <= ended' \/ (x = request[q].old /\ Drop(q)))
  BY TokenLeaves
<1>5. \A x \in Issued : x <= ended => x <= ended'
  BY TokenLeaves
<1>6. Drop(q) => request'[q].old = request[q].old /\ request'[q].pc = "block"
  BY GoToFields DEF Drop, IInv, TypeOK, Pcs
<1>7. ASSUME NEW x \in Issued, NEW p \in Requests,
             request[p].old = x, request[p].pc \in {"block", "issue"}
      PROVE  request'[p].old = x /\ request'[p].pc \in {"block", "issue"}
  BY <1>1, <1>7, ExchangeGoesOn
<1>8. ASSUME NEW x \in Issued'
      PROVE  \/ x \in store' \/ Exchanged(x)' \/ x <= ended'
             \/ \E p \in Requests : request'[p].old = x /\ request'[p].pc \in {"block", "issue"}
  <2>1. x \in Issued
    BY <1>1 DEF Issued
  <2>2. CASE x \in store
    BY <1>4, <1>6, <2>1, <2>2
  <2>3. CASE Exchanged(x) \/ x <= ended
    BY <1>2, <1>5, <2>1, <2>3
  <2>4. CASE \E p \in Requests : request[p].old = x /\ request[p].pc \in {"block", "issue"}
    BY <1>7, <2>1, <2>4
  <2>5. QED
    BY <2>1, <2>2, <2>3, <2>4 DEF Accounted
<1>9. ASSUME NEW p \in Requests, request'[p].pc = "erase", NEW x \in request'[p].found
      PROVE  x <= request'[p].upto
  <2>1. CASE p # q
    BY <1>1, <1>9, <2>1 DEF Accounted
  <2>2. CASE p = q
    <3>1. request'[q].found = store /\ request'[q].upto = issued
      BY <1>1, <1>9, <2>2 DEF Follows, Idle
    <3>2. x \in 1..issued
      BY <1>3, <1>9, <2>2, <3>1 DEF Issued
    <3>3. QED
      BY <1>3, <2>2, <3>1, <3>2
  <2>3. QED
    BY <2>1, <2>2
<1>10. QED
  BY <1>8, <1>9 DEF Accounted

LEMMA AccountedNext ==
  ASSUME IInv, Accounted, [Next]_vars, Calm' PROVE Accounted'
<1>1. ASSUME NEW q \in Requests, Step(q) \/ HandlerError(q) \/ LostReply(q) PROVE Accounted'
  BY <1>1, AccountedIssue, AccountedStep
<1>2. ~ RedisLoss /\ \A q \in Requests : ~ RedisError(q)
  BY DEF RedisLoss, RedisError, Fault, Calm, Happened, IInv, TypeOK
<1>3. ASSUME NEW q \in Requests, NEW b \in Browsers,
             StartLogin(q, b) \/ \E op \in {"use", "refresh", "logout"} : Start(q, b, op)
      PROVE  Accounted'
  <2>1. /\ UNCHANGED <<issued, parent, store, ended>>
        /\ request[q] = Idle /\ \A p \in Requests \ {q} : request'[p] = request[p]
        /\ request'[q].pc # "erase"
    BY <1>3, StartFields DEF tokens, redis
  <2>2. \A x : Exchanged(x)' = Exchanged(x)
    BY <2>1 DEF Exchanged, Issued
  <2>3. request[q].pc \notin {"block", "issue"}
    BY <2>1 DEF Idle
  <2>4. QED
    BY <2>1, <2>2, <2>3 DEF Accounted, Issued
<1>4. CASE (\E p \in Pairs : ExpireAccess(p) \/ AgeRefresh(p)) \/ UNCHANGED vars
  <2>1. UNCHANGED <<issued, parent, store, ended, request>>
    BY <1>4 DEF ExpireAccess, AgeRefresh, vars, tokens, redis
  <2>2. QED
    BY <2>1 DEF Accounted, Exchanged, Issued
<1>5. QED
  BY <1>1, <1>2, <1>3, <1>4 DEF Next

\* A refresh that goes on to revoke everything found its token missing.
LEMMA AlarmOnMissing ==
  ASSUME IInv, [Next]_vars, NEW q \in Requests, At(q, {"refresh"}, "owner"),
         request'[q].pc = "collect"
  PROVE  request[q].old \notin store
<1>1. ASSUME NEW p \in Requests,
             Issue(p) \/ Step(p) \/ HandlerError(p) \/ LostReply(p) \/ RedisError(p)
      PROVE  request[q].old \notin store
  <2>1. CASE p # q
    BY <1>1, <2>1, StepFollows, IssueFields DEF At
  <2>2. CASE p = q /\ ~ Issue(q)
    BY <1>1, <2>2, StepFollows DEF At, Follows, Idle
  <2>3. QED
    BY <2>1, <2>2 DEF Issue, NewPair, At
<1>2. ASSUME NEW p \in Requests, NEW b \in Browsers,
             StartLogin(p, b) \/ \E op \in {"use", "refresh", "logout"} : Start(p, b, op)
      PROVE  request[q].old \notin store
  BY <1>2, StartFields DEF At, Idle
<1>3. ~ UNCHANGED request
  BY DEF At
<1>4. QED
  BY <1>1, <1>2, <1>3 DEF Next, RedisLoss, ExpireAccess, AgeRefresh, vars

\* Until requests overlap or Redis fails, every session is revoked over a refresh
\* token only if that token was exchanged or revoked before.
THEOREM AlarmsAreTrue == Spec => NoFalseAlarm
<1> DEFINE Serial == overlapped \/ SerialInv
           Known == Calm => Accounted
           Alarm == \/ overlapped \/ Happened("redisError") \/ Happened("redisLoss")
                    \/ \A q \in Requests :
                         At(q, {"refresh"}, "owner") /\ request'[q].pc = "collect" =>
                           Exchanged(request[q].old) \/ request[q].old <= ended
<1>1. Init => Serial /\ Known
  BY DEF Init, SerialInv, Alone, ChildOnce, Accounted, Issued, Idle
<1>2. IInv /\ Serial /\ [Next]_vars => Serial'
  BY SerialNext, OverlapStays
<1>3. IInv /\ Known /\ [Next]_vars => Known'
  BY AccountedNext, HappenedStays DEF IInv, Calm
<1>4. IInv /\ Serial /\ Known /\ [Next]_vars => [Alarm]_vars
  <2> SUFFICES ASSUME IInv, SerialInv, Accounted, [Next]_vars, NEW q \in Requests,
                      At(q, {"refresh"}, "owner"), request'[q].pc = "collect"
               PROVE  Exchanged(request[q].old) \/ request[q].old <= ended
    BY DEF Calm
  <2>1. request[q].old \notin store
    BY AlarmOnMissing
  <2>2. request[q].old \in Issued
    BY BoundsAssumption DEF At, IInv, TypeOK, ExchangeInv, Fits, Issued
  <2>3. \A p \in Requests : request[p].pc \in {"block", "issue"} => request[p].old # request[q].old
    BY DEF SerialInv, Alone, At, Idle
  <2>4. QED
    BY <2>1, <2>2, <2>3 DEF Accounted
<1>5. QED
  BY <1>1, <1>2, <1>3, <1>4, Invariance, PTL DEF Spec, NoFalseAlarm
-----------------------------------------------------------------------------
(* Root, and the sessions that a revocation ends                           *)

\* A set of numbers that is not empty has a least one.
LEMMA LeastElement ==
  ASSUME NEW S, S \subseteq Nat, S # {} PROVE \E n \in S : \A m \in S : n <= m
<1>1. \E n \in S : \A m \in S : ~ (<<m, n>> \in OpToRel(<, Nat))
  BY NatLessThanWellFounded, WFMin
<1>2. PICK n \in S : \A m \in S : ~ (m < n)
  BY <1>1 DEF OpToRel
<1>3. QED
  BY <1>2

\* Pairs are exchanged for older ones.
Older == \A p \in Pairs : parent[p] < p /\ parent[p] \in Nat

\* g takes each pair up to n to its login.
RootFunction(g, n) ==
  g \in [1..n -> Pairs] /\ \A p \in 1..n : g[p] = IF parent[p] = 0 THEN p ELSE g[parent[p]]

\* A function that follows parents to the login exists for the pairs up to any n.
LEMMA RootsExist == ASSUME Older PROVE \A n \in 0..MaxPairs : \E g : RootFunction(g, n)
<1> DEFINE Without == {n \in 0..MaxPairs : ~ \E g : RootFunction(g, n)}
<1> SUFFICES ASSUME Without # {} PROVE FALSE
  OBVIOUS
<1>1. PICK n \in Without : \A m \in Without : n <= m
  <2>1. Without \subseteq Nat
    BY BoundsAssumption
  <2> HIDE DEF Without
  <2>2. QED
    BY <2>1, LeastElement
<1>2. n # 0
  <2>1. RootFunction([p \in 1..0 |-> p], 0)
    BY BoundsAssumption DEF RootFunction, Pairs
  <2>2. QED
    BY <2>1
<1>3. n \in 1..MaxPairs /\ n - 1 \in 0..MaxPairs
  BY <1>2, BoundsAssumption
<1>4. PICK g : RootFunction(g, n - 1)
  BY <1>1, <1>3
<1> DEFINE h == [p \in 1..n |-> IF p = n THEN IF parent[n] = 0 THEN n ELSE g[parent[n]] ELSE g[p]]
<1>5. RootFunction(h, n)
  <2>1. n \in Pairs /\ parent[n] \in 0..(n - 1)
    BY <1>3, BoundsAssumption DEF Older, Pairs
  <2>2. \A p \in 1..(n - 1) : parent[p] \in 0..(n - 1) /\ p \in 1..n /\ p # n
    BY <1>3, BoundsAssumption DEF Older, Pairs
  <2>3. g \in [1..(n - 1) -> Pairs]
        /\ \A p \in 1..(n - 1) : g[p] = IF parent[p] = 0 THEN p ELSE g[parent[p]]
    BY <1>4 DEF RootFunction
  <2>4. \A p \in 1..n : p = n \/ p \in 1..(n - 1)
    BY <1>3
  <2>5. \A p \in 0..(n - 1) : p # 0 => h[p] = g[p]
    BY <1>3
  <2>6. h \in [1..n -> Pairs]
    BY <2>1, <2>3, <2>4
  <2>7. ASSUME NEW p \in 1..n PROVE h[p] = IF parent[p] = 0 THEN p ELSE h[parent[p]]
    <3>1. CASE p = n
      <4>1. h[n] = IF parent[n] = 0 THEN n ELSE g[parent[n]]
        BY <1>3
      <4> HIDE DEF h
      <4>2. QED
        BY <2>1, <2>5, <3>1, <4>1
    <3>2. CASE p \in 1..(n - 1)
      <4>1. h[p] = g[p]
        BY <2>2, <3>2
      <4> HIDE DEF h
      <4>2. QED
        BY <2>2, <2>3, <2>5, <3>2, <4>1
    <3>3. QED
      BY <2>4, <3>1, <3>2
  <2> HIDE DEF h
  <2>8. QED
    BY <2>6, <2>7 DEF RootFunction
<1>6. QED
  BY <1>1, <1>5

\* Root is what its definition says.
LEMMA RootIsRoot ==
  ASSUME Older
  PROVE  \A p \in Pairs : Root[p] = IF parent[p] = 0 THEN p ELSE Root[parent[p]]
<1> DEFINE IsRoot(g) == g = [p \in Pairs |-> IF parent[p] = 0 THEN p ELSE g[parent[p]]]
<1>1. \E g : IsRoot(g)
  <2>1. PICK g : RootFunction(g, MaxPairs)
    BY RootsExist, BoundsAssumption
  <2>2. IsRoot(g)
    BY <2>1 DEF RootFunction, Pairs
  <2>3. QED
    BY <2>2
<1>2. Root = CHOOSE g : IsRoot(g)
  BY DEF Root
<1>3. IsRoot(Root)
  <2> HIDE DEF IsRoot
  <2>1. QED
    BY <1>1, <1>2, Zenon
<1>4. QED
  BY <1>3

\* A pair goes back to a login after the revocation, if each of its ancestors was
\* exchanged after it.
LEMMA RootAfter ==
  ASSUME Older, NEW e \in Nat, \A c \in Pairs : c > e /\ parent[c] # 0 => parent[c] > e
  PROVE  \A p \in Pairs : p > e => Root[p] > e
<1> DEFINE Bad == {p \in Pairs : p > e /\ ~ (Root[p] > e)}
<1> SUFFICES ASSUME Bad # {} PROVE FALSE
  OBVIOUS
<1>1. PICK p \in Bad : \A m \in Bad : p <= m
  <2>1. Bad \subseteq Nat
    BY BoundsAssumption DEF Pairs
  <2> HIDE DEF Bad
  <2>2. QED
    BY <2>1, LeastElement
<1>2. p \in Pairs /\ p > e /\ ~ (Root[p] > e) /\ p \in Nat
  BY BoundsAssumption DEF Pairs
<1>3. Root[p] = IF parent[p] = 0 THEN p ELSE Root[parent[p]]
  BY <1>2, RootIsRoot
<1>4. parent[p] # 0
  BY <1>2, <1>3
<1>5. parent[p] \in Pairs /\ parent[p] \in Nat /\ parent[p] < p /\ parent[p] > e
  BY <1>2, <1>4, BoundsAssumption DEF Older, Pairs
<1>6. parent[p] \in Bad
  BY <1>2, <1>3, <1>4, <1>5
<1> HIDE DEF Bad
<1>7. p <= parent[p]
  BY <1>1, <1>6
<1>8. QED
  BY <1>2, <1>5, <1>7

\* A pair not issued yet was exchanged for none.
Unissued == \A p \in Pairs : p \notin Issued => parent[p] = 0

LEMMA OlderPairs == ASSUME IInv, Unissued PROVE Older
BY BoundsAssumption DEF IInv, TypeOK, ExchangeInv, Unissued, Older, Pairs, Issued

LEMMA UnissuedNext == ASSUME IInv, Unissued, [Next]_vars PROVE Unissued'
<1>1. CASE UNCHANGED <<issued, parent>>
  BY <1>1 DEF Unissued, Issued
<1>2. ASSUME NEW q \in Requests, Issue(q) PROVE Unissued'
  <2>1. /\ issued' = issued + 1 /\ parent' = [parent EXCEPT ![issued + 1] = request[q].old]
        /\ parent \in [Pairs -> 0..MaxPairs] /\ issued \in Nat
    BY <1>2, BoundsAssumption DEF Issue, NewPair, IInv, TypeOK
  <2>2. QED
    BY <2>1 DEF Unissued, Issued, Pairs
<1>3. ASSUME NEW q \in Requests, Step(q) \/ HandlerError(q) \/ LostReply(q) \/ RedisError(q)
      PROVE  Unissued'
  BY <1>1, <1>2, <1>3, StepFollows DEF tokens
<1>4. ASSUME NEW q \in Requests, NEW b \in Browsers,
             StartLogin(q, b) \/ \E op \in {"use", "refresh", "logout"} : Start(q, b, op)
      PROVE  Unissued'
  BY <1>1, <1>4, StartFields DEF tokens
<1>5. CASE (\E p \in Pairs : ExpireAccess(p) \/ AgeRefresh(p)) \/ RedisLoss \/ UNCHANGED vars
  BY <1>1, <1>5 DEF ExpireAccess, AgeRefresh, RedisLoss, vars, tokens
<1>6. QED
  BY <1>3, <1>4, <1>5 DEF Next

\* With no two requests in flight at once, what is in the store, or about to be
\* exchanged, was issued after the last revocation, and so was what it was
\* exchanged for; what a scan collects is the whole store.
AfterInv ==
  /\ \A p \in store : p > ended
  /\ \A c \in Issued : c > ended /\ parent[c] # 0 => parent[c] > ended
  /\ \A q \in Requests :
       /\ request[q].pc \in {"drop", "block", "issue"} /\ request[q].old # 0 =>
            request[q].old > ended
       /\ request[q].pc = "erase" => store \subseteq request[q].found /\ request[q].upto = issued

\* All but a finished revocation leave the mark of revocations alone, and add
\* nothing to the store.
LEMMA StoreShrinks ==
  ASSUME NEW q \in Requests,
         \/ Step(q) /\ ~ Issue(q)
         \/ HandlerError(q) \/ LostReply(q) \/ RedisError(q)
  PROVE  store' \subseteq store /\ (~ Erase(q) => ended' = ended)
BY DEF Step, CheckAccess, CheckBlocklist, CheckOwner, Drop, Block, Bearer, Handle, BlockAccess,
   Collect, Collected, Erase, Reply, HandlerError, LostReply, RedisError, redis

LEMMA AfterErase ==
  ASSUME IInv, SerialInv, AfterInv, NEW q \in Requests, Erase(q) PROVE AfterInv'
<1>1. request[q].pc = "erase" /\ request[q] # Idle
  BY DEF Erase, At, Idle
<1>2. store' = {}
  BY <1>1 DEF Erase, AfterInv
<1>3. UNCHANGED <<issued, parent>>
  BY DEF Erase, tokens
<1>4. ended' = issued
  BY <1>1, BoundsAssumption DEF Erase, AfterInv, IInv, TypeOK
<1>5. \A p \in Requests : request'[p].pc \in {"done", "reply"}
  <2>1. GoTo(q, "reply") \/ Done(q)
    BY DEF Erase
  <2>2. request'[q].pc \in {"done", "reply"}
    BY <2>1, GoToFields, DoneFields DEF IInv, TypeOK, Pcs, Idle
  <2>3. \A p \in Requests \ {q} : request'[p] = request[p] /\ request[p] = Idle
    BY <1>1, <2>1, GoToFields, DoneFields DEF IInv, TypeOK, Pcs, SerialInv, Alone
  <2>4. QED
    BY <2>2, <2>3 DEF Idle
<1>6. issued \in Nat
  BY BoundsAssumption DEF IInv, TypeOK
<1>7. QED
  BY <1>2, <1>3, <1>4, <1>5, <1>6 DEF AfterInv, Issued

LEMMA AfterIssue ==
  ASSUME IInv, SerialInv, AfterInv, NEW q \in Requests, Issue(q) PROVE AfterInv'
<1>1. /\ issued \in Nat /\ issued' = issued + 1 /\ ended' = ended /\ ended \in 0..issued
      /\ store' = store \cup {issued + 1}
  BY BoundsAssumption DEF Issue, NewPair, IInv, TypeOK
<1>2. request[q].pc = "issue" /\ request[q] # Idle
  BY DEF Issue, NewPair, At, Idle
<1>3. \A p \in Requests : request'[p].pc \in {"handle", "reply", "done"}
  BY <1>2, IssueFields DEF SerialInv, Alone, Idle
<1>4. \A p \in store' : p > ended'
  BY <1>1 DEF AfterInv
<1>5. ASSUME NEW c \in Issued', c > ended', parent'[c] # 0 PROVE parent'[c] > ended'
  <2>1. CASE c = issued + 1
    BY <1>1, <1>2, <1>5, <2>1, IssueFields DEF AfterInv
  <2>2. CASE c \in Issued
    BY <1>1, <1>5, <2>2, IssueFields DEF AfterInv, Issued
  <2>3. QED
    BY <1>1, <2>1, <2>2 DEF Issued
<1>6. QED
  BY <1>3, <1>4, <1>5 DEF AfterInv

LEMMA AfterNext ==
  ASSUME IInv, SerialInv, AfterInv, [Next]_vars, ~ overlapped' PROVE AfterInv'
<1>1. CASE UNCHANGED <<issued, parent, store, ended, request>>
  BY <1>1 DEF AfterInv, Issued
<1>2. ASSUME NEW q \in Requests,
             \/ Step(q) /\ ~ Issue(q) /\ ~ Erase(q)
             \/ HandlerError(q) \/ LostReply(q) \/ (RedisError(q) /\ ~ Erase(q))
      PROVE  AfterInv'
  <2>1. UNCHANGED <<issued, parent, ended>> /\ store' \subseteq store
    BY <1>2, StepFollows, StoreShrinks DEF tokens, HandlerError, LostReply, Erase, At
  <2>2. /\ \A p \in Requests \ {q} : request'[p] = request[p]
        /\ request'[q] = Idle \/ Follows(request[q], request'[q], store, issued)
    BY <1>2, StepFollows
  <2>3. \A p \in Requests :
          /\ request'[p].pc \in {"drop", "block", "issue"} /\ request'[p].old # 0 =>
               request'[p].old > ended
          /\ request'[p].pc = "erase" =>
               store' \subseteq request'[p].found /\ request'[p].upto = issued
    BY <2>1, <2>2 DEF AfterInv, Follows, Idle
  <2>4. QED
    BY <2>1, <2>3 DEF AfterInv, Issued
<1>3. ASSUME NEW q \in Requests, NEW b \in Browsers,
             StartLogin(q, b) \/ \E op \in {"use", "refresh", "logout"} : Start(q, b, op)
      PROVE  AfterInv'
  <2>1. /\ UNCHANGED <<issued, parent, store, ended>>
        /\ \A p \in Requests \ {q} : request'[p] = request[p]
        /\ request'[q].pc \in {"drop", "block", "issue"} => request'[q].old = 0
        /\ request'[q].pc # "erase"
    BY <1>3, StartFields DEF tokens, redis
  <2>2. QED
    BY <2>1 DEF AfterInv, Issued
<1>4. CASE RedisLoss
  BY <1>4 DEF RedisLoss, tokens, AfterInv, Issued
<1>5. CASE (\E p \in Pairs : ExpireAccess(p) \/ AgeRefresh(p)) \/ UNCHANGED vars
  BY <1>1, <1>5 DEF ExpireAccess, AgeRefresh, vars, tokens, redis
<1>6. QED
  BY <1>2, <1>3, <1>4, <1>5, AfterErase, AfterIssue DEF Next

\* Until requests overlap, a revocation ends every session there was: what the
\* store holds goes back to a login after it, whatever fails.
THEOREM RevocationIsFull == Spec => []SessionsEnd
<1> DEFINE Serial == overlapped \/ (SerialInv /\ AfterInv)
<1>1. Init => Serial /\ Unissued
  BY DEF Init, SerialInv, Alone, ChildOnce, AfterInv, Unissued, Issued, Idle
<1>2. IInv /\ Serial /\ [Next]_vars => Serial'
  BY SerialNext, AfterNext, OverlapStays
<1>3. IInv /\ Unissued /\ [Next]_vars => Unissued'
  BY UnissuedNext
<1>4. IInv /\ Unissued /\ Serial => SessionsEnd
  <2> SUFFICES ASSUME IInv, Unissued, AfterInv PROVE \A p \in store : Root[p] > ended
    BY DEF SessionsEnd
  <2>1. ended \in Nat /\ \A p \in store : p \in Pairs /\ p > ended
    <3>1. issued \in 0..MaxPairs /\ ended \in 0..issued /\ store \subseteq 1..issued
      BY DEF IInv, TypeOK, Issued
    <3>2. QED
      BY <3>1, BoundsAssumption DEF AfterInv, Pairs
  <2>2. \A c \in Pairs : c > ended /\ parent[c] # 0 => parent[c] > ended
    BY DEF Unissued, AfterInv
  <2>3. QED
    BY <2>1, <2>2, OlderPairs, RootAfter
<1>5. QED
  BY <1>1, <1>2, <1>3, <1>4, Invariance, PTL DEF Spec
-----------------------------------------------------------------------------
(* What a browser is left with                                             *)

\* No call failed and no reply was lost.
Sound == \A kind \in Faults : ~ Happened(kind)

\* The pair on its way to a browser is in no jar, and in no other request.
Apart ==
  \A q \in Requests : request[q].new # 0 =>
    /\ request[q].pc \in {"handle", "reply"} /\ request[q].op # "logout"
    /\ \A p \in Requests : /\ request[p].old # request[q].new
                           /\ request[p].new = request[q].new => p = q
    /\ \A b \in Browsers : jar[b] # request[q].new

\* A pair in a jar is in no other, and only its browser presents it.
OwnJar ==
  \A b \in Browsers : jar[b] # 0 =>
    /\ \A c \in Browsers : jar[c] = jar[b] => c = b
    /\ \A q \in Requests : request[q].old = jar[b] => request[q].who = b

Saved(p) == p \in store \/ p <= ended

\* The pair in a jar has left the store with one of the browser's requests, which
\* will be given another.
Exchanging(b) ==
  \E q \in Requests : /\ request[q].who = b /\ request[q].old = jar[b]
                      /\ request[q].pc \in {"block", "issue"} \/ request[q].new # 0

Kept ==
  /\ \A q \in Requests : request[q].new # 0 => Saved(request[q].new)
  /\ \A b \in Browsers : jar[b] # 0 => Saved(jar[b]) \/ Exchanging(b)

JarInv == Apart /\ OwnJar /\ Kept

\* What a request holds is a pair issued, or none.
LEMMA HeldPairs ==
  ASSUME IInv
  PROVE  /\ issued \in Nat /\ issued <= MaxPairs
         /\ \A q \in Requests : request[q].old \in 0..issued /\ request[q].new \in 0..issued
         /\ \A b \in Browsers : jar[b] \in 0..issued
BY BoundsAssumption DEF IInv, TypeOK

LEMMA JarStart ==
  ASSUME IInv, JarInv, NEW q \in Requests, NEW b \in Browsers,
         StartLogin(q, b) \/ \E op \in {"use", "refresh", "logout"} : Start(q, b, op)
  PROVE  JarInv'
<1>1. /\ UNCHANGED <<store, jar, ended>>
      /\ request[q] = Idle /\ \A p \in Requests \ {q} : request'[p] = request[p]
      /\ request'[q].who = b /\ request'[q].new = 0 /\ request'[q].old \in {0, jar[b]}
  BY StartFields DEF redis
<1>2. Apart'
  BY <1>1 DEF JarInv, Apart
<1>3. OwnJar'
  BY <1>1 DEF JarInv, OwnJar
<1>4. request[q].new = 0 /\ request[q].pc \notin {"block", "issue"}
  BY <1>1 DEF Idle
<1>5. \A c \in Browsers : Exchanging(c) => Exchanging(c)'
  BY <1>1, <1>4 DEF Exchanging
<1>6. Kept'
  BY <1>1, <1>5 DEF JarInv, Kept, Saved
<1>7. QED
  BY <1>2, <1>3, <1>6 DEF JarInv

LEMMA JarIssue ==
  ASSUME IInv, JarInv, NEW q \in Requests, Issue(q) PROVE JarInv'
<1>1. /\ UNCHANGED <<jar, ended>> /\ store' = store \cup {issued + 1}
      /\ request[q].op # "logout" /\ request[q].pc = "issue"
  BY DEF Issue, NewPair, At
<1>2. /\ issued \in Nat
      /\ \A p \in Requests \ {q} : request'[p] = request[p]
      /\ request'[q].op = request[q].op /\ request'[q].old = request[q].old
      /\ request'[q].who = request[q].who /\ request'[q].new = issued + 1
      /\ request'[q].pc \in {"handle", "reply"}
  BY IssueFields
<1>3. request[q].new = 0
  BY <1>1 DEF JarInv, Apart
<1>4. Apart'
  <2> SUFFICES ASSUME NEW p \in Requests, request'[p].new # 0
               PROVE  /\ request'[p].pc \in {"handle", "reply"} /\ request'[p].op # "logout"
                      /\ \A r \in Requests : /\ request'[r].old # request'[p].new
                                             /\ request'[r].new = request'[p].new => r = p
                      /\ \A b \in Browsers : jar'[b] # request'[p].new
    BY DEF Apart
  <2>1. CASE p = q
    BY <1>1, <1>2, <2>1, HeldPairs
  <2>2. CASE p # q
    BY <1>1, <1>2, <2>2, HeldPairs DEF JarInv, Apart
  <2>3. QED
    BY <2>1, <2>2
<1>5. OwnJar'
  BY <1>1, <1>2 DEF JarInv, OwnJar
<1>6. \A b \in Browsers : Exchanging(b) => Exchanging(b)'
  BY <1>1, <1>2 DEF Exchanging
<1>7. Kept'
  BY <1>1, <1>2, <1>6 DEF JarInv, Kept, Saved
<1>8. QED
  BY <1>4, <1>5, <1>7 DEF JarInv

LEMMA JarReply ==
  ASSUME IInv, JarInv, NEW q \in Requests, Reply(q) PROVE JarInv'
<1>1. /\ UNCHANGED <<store, ended>> /\ Done(q)
      /\ jar \in [Browsers -> 0..issued]
      /\ jar' = [jar EXCEPT ![request[q].who] =
                   IF request[q].op = "logout" THEN 0
                   ELSE IF request[q].new # 0 THEN request[q].new ELSE @]
  BY DEF Reply, redis, IInv, TypeOK
<1>2. /\ request'[q].new = 0 /\ request'[q].old = 0 /\ request'[q].pc = "done"
      /\ \A p \in Requests \ {q} : request'[p] = request[p]
  BY <1>1, DoneFields DEF IInv, TypeOK, Idle
<1>3. \A b \in Browsers :
        \/ jar'[b] = jar[b] /\ (b = request[q].who => request[q].new = 0)
        \/ jar'[b] = 0
        \/ b = request[q].who /\ jar'[b] = request[q].new /\ request[q].new # 0
  <2>1. request[q].new # 0 => request[q].op # "logout"
    BY DEF JarInv, Apart
  <2>2. QED
    BY <1>1, <2>1
<1>4. Apart'
  BY <1>2, <1>3 DEF JarInv, Apart
<1>5. OwnJar'
  <2> SUFFICES ASSUME NEW b \in Browsers, jar'[b] # 0
               PROVE  /\ \A c \in Browsers : jar'[c] = jar'[b] => c = b
                      /\ \A p \in Requests : request'[p].old = jar'[b] => request'[p].who = b
    BY DEF OwnJar
  <2>1. CASE jar'[b] = jar[b]
    BY <1>2, <1>3, <2>1 DEF JarInv, OwnJar, Apart
  <2>2. CASE b = request[q].who /\ jar'[b] = request[q].new
    BY <1>2, <1>3, <2>2 DEF JarInv, Apart
  <2>3. QED
    BY <1>3, <2>1, <2>2
<1>6. ASSUME NEW b \in Browsers, jar'[b] # 0 PROVE jar'[b] \in store' \/ jar'[b] <= ended' \/ Exchanging(b)'
  <2>1. CASE jar'[b] = jar[b] /\ (b = request[q].who => request[q].new = 0)
    <3>1. CASE Saved(jar[b])
      BY <1>1, <2>1, <3>1 DEF Saved
    <3>2. CASE Exchanging(b)
      <4>1. PICK p \in Requests :
              /\ request[p].who = b /\ request[p].old = jar[b]
              /\ request[p].pc \in {"block", "issue"} \/ request[p].new # 0
        BY <3>2 DEF Exchanging
      <4>2. p # q
        BY <2>1, <4>1 DEF Reply, At
      <4>3. QED
        BY <1>2, <2>1, <4>1, <4>2 DEF Exchanging
    <3>3. QED
      BY <1>6, <2>1, <3>1, <3>2 DEF JarInv, Kept
  <2>2. CASE b = request[q].who /\ jar'[b] = request[q].new /\ request[q].new # 0
    BY <1>1, <2>2 DEF JarInv, Kept, Saved
  <2>3. QED
    BY <1>3, <1>6, <2>1, <2>2
<1>7. \A p \in Requests : request'[p].new # 0 => request'[p].new \in store' \/ request'[p].new <= ended'
  BY <1>1, <1>2 DEF JarInv, Kept, Saved
<1>8. Kept'
  BY <1>6, <1>7 DEF Kept, Saved
<1>9. QED
  BY <1>4, <1>5, <1>8 DEF JarInv

\* A request that exchanges its pair, or was given one, goes on to its reply.
LEMMA GiftGoesOn ==
  ASSUME IInv, NEW q \in Requests, Step(q), ~ Issue(q), ~ Reply(q),
         request[q].pc \in {"block", "issue", "handle", "reply"}
  PROVE  request'[q].pc = IF request[q].pc \in {"block", "issue"} THEN "issue" ELSE "reply"
<1>1. Block(q) \/ Handle(q)
  BY DEF Step, CheckAccess, CheckBlocklist, CheckOwner, Drop, Issue, NewPair, Bearer,
     BlockAccess, Collect, Collected, Erase, At
<1>2. CASE Block(q)
  BY <1>2, GoToFields DEF Block, At, IInv, TypeOK, Pcs
<1>3. CASE Handle(q)
  <2> DEFINE r == [request[q] EXCEPT !.runs = @ + 1, !.pc = "reply"]
  <2>1. request' = [request EXCEPT ![q] = r] /\ request \in [Requests -> Request]
    BY <1>3 DEF Handle, IInv, TypeOK
  <2>2. r.pc = "reply" /\ request[q].pc = "handle"
    BY <1>3, <2>1 DEF Request, Handle, At
  <2> HIDE DEF r
  <2>3. QED
    BY <2>1, <2>2
<1>4. QED
  BY <1>1, <1>2, <1>3

LEMMA JarStep ==
  ASSUME IInv, Accounted, JarInv, NEW q \in Requests, Step(q), ~ Issue(q), ~ Reply(q)
  PROVE  JarInv'
<1>1. UNCHANGED jar
  BY DEF Step, CheckAccess, CheckBlocklist, CheckOwner, Drop, Block, Bearer, Handle, BlockAccess,
     Collect, Collected, Erase
<1>2. /\ \A p \in Requests \ {q} : request'[p] = request[p]
      /\ \/ request'[q] = Idle
         \/ /\ request'[q].op = request[q].op /\ request'[q].old = request[q].old
            /\ request'[q].who = request[q].who /\ request'[q].new = request[q].new
  <2>1. ~ HandlerError(q)
    <3>1. UNCHANGED faults
      BY DEF Step, CheckAccess, CheckBlocklist, CheckOwner, Drop, Block, Bearer, Handle,
         BlockAccess, Collect, Collected, Erase
    <3>2. HandlerError(q) => faults' # faults
      BY DEF HandlerError, Fault, IInv, TypeOK
    <3>3. QED
      BY <3>1, <3>2
  <2>2. QED
    BY <2>1, StepFollows DEF Follows
<1>3. request[q].pc \in {"block", "issue", "handle", "reply"} =>
        request'[q] # Idle /\ request'[q].pc \in {"issue", "reply"}
  BY GiftGoesOn DEF Idle
<1>4. Apart'
  <2> SUFFICES ASSUME NEW p \in Requests, request'[p].new # 0
               PROVE  /\ request'[p].pc \in {"handle", "reply"} /\ request'[p].op # "logout"
                      /\ \A r \in Requests : /\ request'[r].old # request'[p].new
                                             /\ request'[r].new = request'[p].new => r = p
                      /\ \A b \in Browsers : jar'[b] # request'[p].new
    BY DEF Apart
  <2>1. request'[p].new = request[p].new /\ request'[p].op = request[p].op
    BY <1>2 DEF Idle
  <2>2. \A r \in Requests : /\ request'[r].old \in {0, request[r].old}
                            /\ request'[r].new \in {0, request[r].new}
    BY <1>2 DEF Idle
  <2>3. request'[p].pc \in {"handle", "reply"}
    <3>1. request[p].pc \in {"handle", "reply"}
      BY <2>1 DEF JarInv, Apart
    <3>2. request[p].pc \in {"handle", "reply"} /\ p = q => request'[p].pc = "reply"
      BY GiftGoesOn
    <3>3. QED
      BY <1>2, <3>1, <3>2
  <2>4. QED
    BY <1>1, <2>1, <2>2, <2>3 DEF JarInv, Apart
<1>5. OwnJar'
  BY <1>1, <1>2 DEF JarInv, OwnJar, Idle
<1>6. ASSUME NEW b \in Browsers, Exchanging(b) PROVE Exchanging(b)'
  <2>1. PICK p \in Requests : /\ request[p].who = b /\ request[p].old = jar[b]
                              /\ request[p].pc \in {"block", "issue"} \/ request[p].new # 0
    BY <1>6 DEF Exchanging
  <2>2. CASE p # q
    BY <1>1, <1>2, <2>1, <2>2 DEF Exchanging
  <2>3. CASE p = q
    <3>1. request[q].pc \in {"block", "issue", "handle", "reply"}
      BY <2>1, <2>3 DEF JarInv, Apart
    <3>2. request[q].pc \in {"block", "issue"} /\ request[q].new = 0 => request'[q].pc = "issue"
      BY ExchangeGoesOn
    <3>3. QED
      BY <1>1, <1>2, <1>3, <2>1, <2>3, <3>1, <3>2 DEF Exchanging
  <2>4. QED
    BY <2>2, <2>3
<1>7. ASSUME NEW x \in Issued, Saved(x)
      PROVE  Saved(x)' \/ (x = request[q].old /\ Drop(q))
  BY <1>7, TokenLeaves DEF Saved
<1>8. ASSUME NEW b \in Browsers, jar'[b] # 0 PROVE jar'[b] \in store' \/ jar'[b] <= ended' \/ Exchanging(b)'
  <2>1. jar[b] \in Issued /\ jar'[b] = jar[b]
    BY <1>1, <1>8, HeldPairs DEF Issued
  <2>2. CASE jar[b] = request[q].old /\ Drop(q)
    <3>1. request[q].who = b
      BY <1>1, <1>8, <2>2 DEF JarInv, OwnJar
    <3>2. request'[q].pc = "block" /\ request'[q].old = request[q].old /\ request'[q].who = b
      BY <2>2, <3>1, GoToFields DEF Drop, IInv, TypeOK, Pcs
    <3>3. QED
      BY <2>1, <2>2, <3>2 DEF Exchanging
  <2>3. CASE Saved(jar[b]) /\ ~ (jar[b] = request[q].old /\ Drop(q))
    BY <1>7, <2>1, <2>3 DEF Saved
  <2>4. CASE Exchanging(b)
    BY <1>6, <2>4
  <2>5. QED
    BY <1>8, <2>1, <2>2, <2>3, <2>4 DEF JarInv, Kept
<1>9. ASSUME NEW p \in Requests, request'[p].new # 0 PROVE request'[p].new \in store' \/ request'[p].new <= ended'
  <2>1. request'[p].new = request[p].new
    BY <1>2, <1>9 DEF Idle
  <2>2. request[p].new \in Issued /\ Saved(request[p].new) /\ request[p].new # request[q].old
    BY <1>9, <2>1, HeldPairs DEF JarInv, Kept, Apart, Issued
  <2>3. QED
    BY <1>7, <2>1, <2>2 DEF Saved
<1>10. Kept'
  BY <1>8, <1>9 DEF Kept, Saved
<1>11. QED
  BY <1>4, <1>5, <1>10 DEF JarInv

LEMMA JarNext ==
  ASSUME IInv, Accounted, JarInv, [Next]_vars, Sound' PROVE JarInv'
<1>1. ASSUME NEW q \in Requests, Step(q) PROVE JarInv'
  BY <1>1, JarIssue, JarReply, JarStep
<1>2. ~ RedisLoss /\ \A q \in Requests : ~ (RedisError(q) \/ HandlerError(q) \/ LostReply(q))
  <2>1. ASSUME NEW kind \in FaultKinds, Fault(kind) PROVE FALSE
    BY <2>1 DEF Fault, Sound, Happened, IInv, TypeOK
  <2>2. QED
    BY <2>1 DEF RedisLoss, RedisError, HandlerError, LostReply, FaultKinds
<1>3. ASSUME NEW q \in Requests, NEW b \in Browsers,
             StartLogin(q, b) \/ \E op \in {"use", "refresh", "logout"} : Start(q, b, op)
      PROVE  JarInv'
  BY <1>3, JarStart
<1>4. CASE (\E p \in Pairs : ExpireAccess(p) \/ AgeRefresh(p)) \/ UNCHANGED vars
  <2>1. UNCHANGED <<store, jar, ended, request>>
    BY <1>4 DEF ExpireAccess, AgeRefresh, vars, redis
  <2>2. QED
    BY <2>1 DEF JarInv, Apart, OwnJar, Kept, Saved, Exchanging
<1>5. QED
  BY <1>1, <1>2, <1>3, <1>4 DEF Next

\* As long as nothing fails and no reply is lost, a browser whose requests are all
\* answered can go on with its session, however they overlapped, unless its token
\* was revoked.
THEOREM BrowserGoesOn == Spec => []BrowserKeepsSession
<1> DEFINE Holds == Sound => Accounted /\ JarInv
<1>1. Sound => Calm
  BY DEF Sound, Calm, Happened
<1>2. Init => Holds
  BY DEF Init, Accounted, JarInv, Apart, OwnJar, Kept, Issued, Idle
<1>3. IInv /\ Holds /\ [Next]_vars => Holds'
  <2> SUFFICES ASSUME IInv, Holds, [Next]_vars, Sound' PROVE Accounted' /\ JarInv'
    OBVIOUS
  <2>1. Sound
    BY HappenedStays DEF Sound, IInv
  <2>2. Calm'
    BY DEF Sound, Calm, Happened
  <2>3. QED
    BY <2>1, <2>2, AccountedNext, JarNext
<1>4. Holds => BrowserKeepsSession
  BY DEF Sound, JarInv, Kept, Saved, Exchanging, BrowserKeepsSession
<1>5. QED
  BY <1>2, <1>3, <1>4, Invariance, PTL DEF Spec

-----------------------------------------------------------------------------
(* The page of AppSession *)

\* The requests that a call is made with.
Ops(what) ==
  CASE what \in {"me", "page"} -> {"use"}
    [] what = "left" -> {"use", "login", "logout"}
    [] OTHER -> {what}

\* A call is a request on its way, or the error it was answered with.
Matches(r, c) ==
  /\ r # Idle => c.what # "none" /\ c.error = 0 /\ r.who = Tab /\ r.op \in Ops(c.what)
  /\ r = Idle /\ c.error = 0 => c = NoCall
  /\ c.error # 0 => c.what \in {"me", "page", "logout"}

MatchInv == \A q \in Requests : Matches(request[q], call[q])

\* The document checks once, knows nobody meanwhile, and logs nobody in.
CheckInv ==
  /\ checking => ~user
  /\ \A q \in Requests :
       /\ call[q].what = "me" => checking /\ \A p \in Requests : call[p].what = "me" => p = q
       /\ call[q].what = "login" => ~checking

Spent == jar[Tab] = 0 \/ ~Usable(jar[Tab])

\* On its way to CookieTokenBearer a request has an access token that is good,
\* or a pair that cannot be exchanged.
OnItsWay(r) ==
  r.op = "use" =>
    /\ r.old = jar[Tab]
    /\ r.pc \in {"blocklist", "owner"} => ~AccessGood(jar[Tab])
    /\ r.pc = "bearer" => AccessGood(jar[Tab]) \/ Spent

\* As long as no calls crossed and none failed, an error means there is no session.
SureInv ==
  ~doubt =>
    /\ \A p, q \in Requests : call[p] # NoCall /\ call[q] # NoCall => p = q
    /\ \A q \in Requests :
         /\ call[q].what # "left"
         /\ OnItsWay(request[q])
         /\ call[q].error # 0 => call[q].what = "logout" \/ Spent

\* What a guest asks for is refused, and exchanges nothing.
Hopeless(r) ==
  r.op = "use" =>
    /\ r.pc \in {"access", "blocklist", "owner", "bearer"}
    /\ r.pc \in {"blocklist", "owner"} => jar[Tab] \notin store

GuestInv ==
  ~doubt /\ ~user /\ ~checking => Spent /\ \A q \in Requests : Hopeless(request[q])

AppIInv == IInv /\ AppTypeOK /\ MatchInv /\ CheckInv /\ SureInv /\ GuestInv

-----------------------------------------------------------------------------
\* Tokens die, and only new ones are born.
Wears ==
  /\ issued <= issued'
  /\ \A p \in Issued : /\ access'[p] = "live" => access[p] = "live"
                       /\ refresh'[p] = "long" => refresh[p] = "long"
                       /\ p \in store' => p \in store
                       /\ p \in blockedA => p \in blockedA'

\* So a jar that is left alone comes to be worth no more.
LEMMA JarWears ==
  ASSUME IInv, Wears, UNCHANGED jar
  PROVE  /\ Spent => Spent'
         /\ jar[Tab] # 0 => /\ AccessGood(jar[Tab])' => AccessGood(jar[Tab])
                            /\ jar[Tab] \in store' => jar[Tab] \in store
<1>1. jar[Tab] \in 0..issued /\ issued \in Nat
  BY TabAssumption, HeldPairs
<1>2. jar[Tab] # 0 => jar[Tab] \in Issued
  BY <1>1 DEF Issued
<1>3. QED
  BY <1>2 DEF Wears, Spent, Usable, AccessGood

LEMMA StepWears == ASSUME IInv, NEW q \in Requests, Step(q) PROVE Wears
<1>1. issued \in Nat
  BY HeldPairs
<1>2. CASE Issue(q)
  <2>1. /\ issued' = issued + 1 /\ issued + 1 \notin Issued
        /\ access' = [access EXCEPT ![issued + 1] = "live"]
        /\ refresh' = [refresh EXCEPT ![issued + 1] = "long"]
        /\ store' = store \cup {issued + 1} /\ UNCHANGED blockedA
    BY <1>1, <1>2 DEF Issue, NewPair, Issued
  <2>2. Issued \subseteq Pairs
    BY HeldPairs, BoundsAssumption DEF Issued, Pairs
  <2>3. QED
    BY <1>1, <2>1, <2>2 DEF Wears, IInv, TypeOK
<1>3. CASE ~ Issue(q)
  <2>1. UNCHANGED tokens
    BY <1>3, StepFollows
  <2>2. store' \subseteq store /\ blockedA \subseteq blockedA'
    BY <1>3 DEF Step, CheckAccess, CheckBlocklist, CheckOwner, Drop, Block, Bearer, Handle,
       BlockAccess, Collect, Collected, Erase, Reply, redis
  <2>3. QED
    BY <1>1, <2>1, <2>2 DEF Wears, tokens
<1>4. QED
  BY <1>2, <1>3

LEMMA TimeWears ==
  ASSUME IInv, NEW p \in Pairs, ExpireAccess(p) \/ AgeRefresh(p)
  PROVE  Wears /\ UNCHANGED <<issued, parent, store, blockedA, blockedR, jar, request, ended, out>>
<1>1. UNCHANGED <<issued, parent, store, blockedA, blockedR, jar, request, ended, out>>
  BY DEF ExpireAccess, AgeRefresh, redis
<1>2. \A o \in Issued : /\ access'[o] = "live" => access[o] = "live"
                        /\ refresh'[o] = "long" => refresh[o] = "long"
  <2>1. Issued \subseteq Pairs
    BY HeldPairs, BoundsAssumption DEF Issued, Pairs
  <2>2. CASE ExpireAccess(p)
    BY <2>1, <2>2 DEF ExpireAccess, IInv, TypeOK
  <2>3. CASE AgeRefresh(p)
    BY <2>1, <2>3 DEF AgeRefresh, IInv, TypeOK
  <2>4. QED
    BY <2>2, <2>3
<1>3. QED
  BY <1>1, <1>2, HeldPairs DEF Wears

\* A request that goes on inside the server stays what it is.
LEMMA InsideMoves ==
  ASSUME IInv, NEW q \in Requests, request[q].op # "refresh", Inside(q)
  PROVE  /\ Step(q) /\ UNCHANGED jar
         /\ \A p \in Requests \ {q} : request'[p] = request[p]
         /\ request[q] # Idle /\ request'[q] # Idle
         /\ request'[q].op = request[q].op
         /\ request'[q].who = request[q].who
         /\ request'[q].old = request[q].old
<1>1. Step(q) /\ UNCHANGED jar
  BY DEF Inside, Step, CheckAccess, CheckBlocklist, CheckOwner, Drop, Block, Issue, NewPair, Bearer,
     Handle, BlockAccess, Collect, Collected, Erase
<1>2. CASE Issue(q)
  <2>1. request[q].pc = "issue"
    BY <1>2 DEF Issue, NewPair, At
  <2>2. Idle.pc = "done"
    BY DEF Idle
  <2>3. QED
    BY <1>1, <1>2, <2>1, <2>2, IssueFields
<1>3. CASE ~ Issue(q)
  <2>1. /\ \A p \in Requests \ {q} : request'[p] = request[p]
        /\ request[q] # Idle
        /\ request'[q] = Idle \/ Follows(request[q], request'[q], store, issued)
    BY <1>1, <1>3, StepFollows
  <2>2. request'[q] # Idle
    <3>1. request \in [Requests -> Request] /\ request[q] \in Request
      BY DEF IInv, TypeOK
    <3>2. CASE \E pc \in Pcs \ {"done"} : GoTo(q, pc)
      <4>1. PICK pc \in Pcs \ {"done"} : GoTo(q, pc)
        BY <3>2
      <4>2. request'[q].pc = pc
        BY <3>1, <4>1, GoToFields
      <4>3. QED
        BY <4>1, <4>2 DEF Idle
    <3>3. CASE Handle(q) \/ Collect(q)
      <4>1. request[q].op \in {"use", "refresh", "logout"}
        BY <3>3 DEF Handle, Collect, Collected, At
      <4>2. CASE Handle(q)
        <5> DEFINE r == [request[q] EXCEPT !.runs = @ + 1, !.pc = "reply"]
        <5>1. request' = [request EXCEPT ![q] = r]
          BY <4>2 DEF Handle
        <5>2. r.op = request[q].op
          BY <3>1 DEF Request
        <5> HIDE DEF r
        <5>3. QED
          BY <3>1, <4>1, <5>1, <5>2 DEF Idle
      <4>3. CASE Collect(q)
        <5> DEFINE r == [request[q] EXCEPT !.found = store, !.upto = issued, !.pc = "erase"]
        <5>1. request' = [request EXCEPT ![q] = r]
          BY <4>3 DEF Collect, Collected
        <5>2. r.op = request[q].op
          BY <3>1 DEF Request
        <5> HIDE DEF r
        <5>3. QED
          BY <3>1, <4>1, <5>1, <5>2 DEF Idle
      <4>4. QED
        BY <3>3, <4>2, <4>3
    <3>4. CASE Pass(q)
      <4>1. request'[q].pc = "bearer"
        BY <3>1, <3>4, PassFields
      <4>2. QED
        BY <4>1 DEF Idle
    <3>5. \/ (\E pc \in Pcs \ {"done"} : GoTo(q, pc)) \/ Pass(q)
          \/ Handle(q) \/ Collect(q) \/ request'[q] # Idle
      BY <1>3 DEF Inside, CheckAccess, NextIfAccessBad, CheckBlocklist, CheckOwner, Drop, Block,
         BlockAccess, Erase, At, Pcs
    <3>6. QED
      BY <3>2, <3>3, <3>4, <3>5
  <2>3. QED
    BY <1>1, <2>1, <2>2 DEF Follows
<1>4. QED
  BY <1>2, <1>3

\* The way of a request to its handler: the middleware looks at the tokens, and
\* exchanges the pair, or CookieTokenBearer lets it pass.
LEMMA InsideUse ==
  ASSUME IInv, NEW q \in Requests, request[q].op = "use", Inside(q)
  PROVE  \/ /\ UNCHANGED <<tokens, redis>>
            /\ \/ /\ request[q].pc = "access" /\ request'[q].pc = "bearer"
                  /\ AccessGood(request[q].old) \/ refresh[request[q].old] # "long"
               \/ /\ request[q].pc = "access" /\ request'[q].pc = "blocklist"
                  /\ ~ AccessGood(request[q].old) /\ refresh[request[q].old] = "long"
               \/ /\ request[q].pc = "blocklist" /\ request'[q].pc = "bearer"
                  /\ request[q].old \in blockedR
               \/ /\ request[q].pc = "blocklist" /\ request'[q].pc = "owner"
               \/ /\ request[q].pc = "owner" /\ request'[q].pc = "bearer"
                  /\ request[q].old \notin store
               \/ /\ request[q].pc = "owner" /\ request'[q].pc = "drop"
                  /\ request[q].old \in store
               \/ /\ request[q].pc = "bearer" /\ request'[q].pc = "handle"
                  /\ AccessGood(request[q].old)
         \/ /\ request[q].pc \in {"drop", "block", "issue", "handle"}
            /\ request'[q].pc \in {"block", "issue", "handle", "reply"}
<1>1. request \in [Requests -> Request] /\ request[q] \in Request
  BY DEF IInv, TypeOK
<1>2. \A pc \in Pcs : GoTo(q, pc) => request'[q].pc = pc
  BY <1>1, GoToFields
<1>3. CASE CheckAccess(q)
  <2>1. UNCHANGED <<tokens, redis>> /\ request[q].pc = "access"
    BY <1>3 DEF CheckAccess, At
  <2>2. \/ AccessGood(request[q].old) /\ Pass(q)
        \/ ~ AccessGood(request[q].old) /\ refresh[request[q].old] = "long" /\ GoTo(q, "blocklist")
        \/ refresh[request[q].old] # "long" /\ GoTo(q, "bearer")
    BY <1>3 DEF CheckAccess, NextIfAccessBad
  <2>3. Pass(q) => request'[q].pc = "bearer"
    BY <1>1, PassFields
  <2>4. QED
    BY <1>2, <2>1, <2>2, <2>3 DEF Pcs
<1>4. CASE CheckBlocklist(q)
  <2>1. UNCHANGED <<tokens, redis>> /\ request[q].pc = "blocklist"
    BY <1>4 DEF CheckBlocklist, At
  <2>2. (request[q].old \in blockedR /\ GoTo(q, "bearer")) \/ GoTo(q, "owner")
    BY <1>4 DEF CheckBlocklist
  <2>3. QED
    BY <1>2, <2>1, <2>2 DEF Pcs
<1>5. CASE CheckOwner(q)
  <2>1. UNCHANGED <<tokens, redis>> /\ request[q].pc = "owner"
    BY <1>5 DEF CheckOwner, At
  <2>2. \/ request[q].old \in store /\ GoTo(q, "drop")
        \/ request[q].old \notin store /\ GoTo(q, "bearer")
    BY <1>5 DEF CheckOwner
  <2>3. QED
    BY <1>2, <2>1, <2>2 DEF Pcs
<1>6. CASE Bearer(q) /\ request'[q] # Idle
  <2>1. UNCHANGED <<tokens, redis>> /\ request[q].pc = "bearer"
    BY <1>6 DEF Bearer, At
  <2>2. ~ Done(q)
    BY <1>1, <1>6, DoneFields
  <2>3. AccessGood(request[q].old) /\ GoTo(q, "handle")
    BY <1>6, <2>2 DEF Bearer
  <2>4. QED
    BY <1>2, <2>1, <2>3 DEF Pcs
<1>7. CASE Drop(q)
  BY <1>2, <1>7 DEF Drop, At, Pcs
<1>8. CASE Block(q)
  BY <1>2, <1>8 DEF Block, At, Pcs
<1>9. CASE Issue(q)
  BY <1>9, IssueFields DEF Issue, NewPair, At
<1>10. CASE Handle(q)
  <2>1. Step(q) /\ ~ Issue(q) /\ ~ Reply(q) /\ request[q].pc = "handle"
    BY <1>10 DEF Step, Handle, Issue, NewPair, Reply, At
  <2>2. QED
    BY <2>1, GiftGoesOn
<1>11. ~ BlockAccess(q) /\ ~ Collect(q) /\ ~ Erase(q)
  BY DEF BlockAccess, Collect, Collected, Erase, At
<1>12. QED
  BY <1>3, <1>4, <1>5, <1>6, <1>7, <1>8, <1>9, <1>10, <1>11 DEF Inside

-----------------------------------------------------------------------------
\* A call that carries the cookies is sent, or refused at once without any.
LEMMA SendMoves ==
  ASSUME IInv, NEW q \in Requests, NEW op \in {"use", "logout"}, Send(q, op)
  PROVE  /\ UNCHANGED <<tokens, redis, jar>>
         /\ \A p \in Requests \ {q} : request'[p] = request[p]
         /\ jar[Tab] = 0 => request'[q] = request[q]
         /\ jar[Tab] # 0 =>
              /\ request'[q].op = op /\ request'[q].who = Tab /\ request'[q].old = jar[Tab]
              /\ request'[q].pc = IF op = "use" THEN "access" ELSE "bearer"
<1>1. CASE jar[Tab] = 0
  BY <1>1 DEF Send, vars
<1>2. CASE jar[Tab] # 0
  <2> DEFINE r == [Idle EXCEPT !.op = op, !.pc = IF op = "use" THEN "access" ELSE "bearer",
                               !.who = Tab, !.old = jar[Tab], !.late = jar[Tab] \in out]
  <2>1. Start(q, Tab, op)
    BY <1>2 DEF Send
  <2>2. request' = [request EXCEPT ![q] = r] /\ request \in [Requests -> Request]
    BY <2>1 DEF Start, IInv, TypeOK
  <2>3. PICK late \in BOOLEAN : (jar[Tab] \in out) = late
    BY MembershipIsBoolean
  <2>4. r = [Idle EXCEPT !.op = op, !.pc = IF op = "use" THEN "access" ELSE "bearer",
                         !.who = Tab, !.old = jar[Tab], !.late = late]
    BY <2>3
  <2> HIDE DEF r
  <2>5. /\ r.op = op /\ r.who = Tab /\ r.old = jar[Tab]
        /\ r.pc = IF op = "use" THEN "access" ELSE "bearer"
    BY <2>4 DEF Idle
  <2>6. UNCHANGED <<tokens, redis, jar>>
    BY <2>1 DEF Start
  <2>7. QED
    BY <1>2, <2>2, <2>5, <2>6
<1>3. QED
  BY <1>1, <1>2

LEMMA LoginMoves ==
  ASSUME IInv, NEW q \in Requests, StartLogin(q, Tab)
  PROVE  /\ UNCHANGED <<tokens, redis, jar>>
         /\ \A p \in Requests \ {q} : request'[p] = request[p]
         /\ request'[q].op = "login" /\ request'[q].who = Tab
<1> DEFINE r == [Idle EXCEPT !.op = "login", !.pc = "issue", !.who = Tab]
<1>1. request' = [request EXCEPT ![q] = r] /\ request \in [Requests -> Request]
  BY DEF StartLogin, IInv, TypeOK
<1>2. r.op = "login" /\ r.who = Tab
  BY DEF Idle
<1>3. UNCHANGED <<tokens, redis, jar>>
  BY DEF StartLogin
<1> HIDE DEF r
<1>4. QED
  BY <1>1, <1>2, <1>3

\* The server below the page: that of AuthSessions, but for answers that the
\* browser hung up on.
ServerNext == Next \/ \E q \in Requests : HungUp(q)

LEMMA ServerStep == [AppNext]_appVars => [ServerNext]_vars
<1> SUFFICES ASSUME [AppNext]_appVars PROVE [ServerNext]_vars
  OBVIOUS
<1>1. ASSUME NEW q \in Requests, NEW op \in {"use", "logout"}, Send(q, op)
      PROVE  [Next]_vars
  BY <1>1, TabAssumption DEF Send, Next
<1>2. ASSUME NEW q \in Requests, StartLogin(q, Tab) PROVE Next
  BY <1>2, TabAssumption DEF Next
<1>3. ASSUME NEW q \in Requests, Step(q) \/ LostReply(q) PROVE Next
  BY <1>3 DEF Next
<1>4. ASSUME NEW q \in Requests, Inside(q) \/ Denied(q) \/ Answered(q) PROVE Next
  BY <1>3, <1>4 DEF Inside, Denied, Answered, Step
<1>5. ASSUME NEW q \in Requests, AnsweredToNobody(q) PROVE ServerNext
  BY <1>3, <1>5 DEF AnsweredToNobody, ServerNext, Step
<1>6. ASSUME NEW q \in Requests,
             \/ \E r \in Route : Load(q, r)
             \/ PageCall(q) \/ Login(q) \/ Logout(q) \/ Refused(q) \/ Expelled(q) \/ AnswerLost(q)
      PROVE  [Next]_vars
  BY <1>1, <1>2, <1>3, <1>6 DEF Load, PageCall, Login, Logout, Refused, Expelled, AnswerLost
<1>7. CASE Time
  BY <1>7 DEF Time, Next, ServerNext
<1>8. CASE UNCHANGED appVars \/ \E r \in Route : Visit(r)
  BY <1>8 DEF appVars, Visit
<1>9. Next => ServerNext
  BY DEF ServerNext
<1>10. QED
  BY <1>4, <1>5, <1>6, <1>7, <1>8, <1>9 DEF AppNext

LEMMA HungUpIInv == ASSUME IInv, NEW q \in Requests, HungUp(q) PROVE IInv'
BY EndStep DEF HungUp, IInv, TypeOK

LEMMA AppNextIInv == ASSUME IInv, [AppNext]_appVars PROVE IInv'
<1>1. [Next]_vars \/ \E q \in Requests : HungUp(q)
  BY ServerStep DEF ServerNext
<1>2. QED
  BY <1>1, NextIInv, HungUpIInv

-----------------------------------------------------------------------------
Calls == [what : Purpose, error : {0, 401, 403}]

LEMMA OpsAre ==
  /\ Ops("me") = {"use"} /\ Ops("page") = {"use"}
  /\ Ops("login") = {"login"} /\ Ops("logout") = {"logout"}
  /\ Ops("left") = {"use", "login", "logout"}
BY DEF Ops

LEMMA CallFields ==
  ASSUME AppTypeOK, NEW q \in Requests, NEW c \in Calls, call' = [call EXCEPT ![q] = c]
  PROVE  /\ call' \in [Requests -> Calls]
         /\ call'[q] = c /\ \A p \in Requests \ {q} : call'[p] = call[p]
BY DEF AppTypeOK, Calls

LEMMA NoCallIsCall == NoCall \in Calls /\ NoCall.what = "none" /\ NoCall.error = 0
BY DEF NoCall, Calls, Purpose

\* Nothing is on its way for a call that was not made, or was answered.
LEMMA CallIsIdle ==
  ASSUME MatchInv, NEW q \in Requests, call[q].what = "none" \/ call[q].error # 0
  PROVE  request[q] = Idle
BY DEF MatchInv, Matches

\* What the types of AppSession say beyond MatchInv.
LEMMA AppTypes ==
  ASSUME route \in Route, user \in BOOLEAN, checking \in BOOLEAN, doubt \in BOOLEAN,
         loads \in 0..MaxLoads, call \in [Requests -> Calls], MatchInv
  PROVE  AppTypeOK
BY DEF AppTypeOK, MatchInv, Matches, Calls

LEMMA Guards == \A r \in Route : \A u \in BOOLEAN : Guarded(r, u) \in Route
BY DEF Guarded, Route

\* A call is matched once its request and its answer are.
LEMMA MatchFrame ==
  ASSUME MatchInv, NEW q \in Requests, Matches(request'[q], call'[q]),
         \A p \in Requests \ {q} : request'[p] = request[p] /\ call'[p] = call[p]
  PROVE  MatchInv'
BY DEF MatchInv

\* What is sent, or refused at once, matches.
LEMMA SentMatches ==
  ASSUME IInv, MatchInv, NEW q \in Requests, call[q] = NoCall \/ call[q].error # 0,
         NEW w \in {"me", "page", "logout"}, NEW op \in Ops(w), Send(q, op),
         call'[q] = [what |-> w, error |-> ErrorAtOnce]
  PROVE  Matches(request'[q], call'[q])
<1>1. request[q] = Idle
  BY CallIsIdle, NoCallIsCall
<1>2. op \in {"use", "logout"} /\ w # "none"
  BY OpsAre
<1>3. Idle.op = "idle"
  BY DEF Idle
<1>4. QED
  BY <1>1, <1>2, <1>3, SendMoves DEF Matches, ErrorAtOnce

\* A document asks who the user is, and leaves what was on its way.
LEMMA MatchDocument ==
  ASSUME IInv, AppTypeOK, MatchInv, NEW q \in Requests, call[q] = NoCall \/ call[q].error # 0,
         Send(q, "use"), NEW r \in Route, Document(q, r)
  PROVE  call' \in [Requests -> Calls] /\ MatchInv'
<1>1. call'[q] = [what |-> "me", error |-> ErrorAtOnce]
  BY DEF Document
<1>2. call'[q] \in Calls
  BY <1>1 DEF Calls, Purpose, ErrorAtOnce
<1>3. ASSUME NEW p \in Requests \ {q}
      PROVE  /\ call'[p] \in Calls
             /\ Matches(request'[p], call'[p])
  <2>1. request'[p] = request[p]
    BY SendMoves
  <2>2. CASE call[p].what = "none" \/ call[p].error # 0
    <3>1. call'[p] = NoCall
      BY <2>2 DEF Document
    <3>2. request[p] = Idle
      BY <2>2, CallIsIdle
    <3>3. QED
      BY <2>1, <3>1, <3>2, NoCallIsCall DEF Matches
  <2>3. CASE ~ (call[p].what = "none" \/ call[p].error # 0)
    <3>1. call'[p] = [call[p] EXCEPT !.what = "left"]
      BY <2>3 DEF Document
    <3>2. call[p] \in Calls /\ call[p].error = 0
      BY <2>3 DEF AppTypeOK, Calls
    <3>3. call'[p] \in Calls /\ call'[p].what = "left" /\ call'[p].error = 0
      BY <3>1, <3>2 DEF Calls, Purpose
    <3>4. request[p] # Idle /\ request[p].who = Tab /\ request[p].op \in Ops(call[p].what)
      BY <2>3, NoCallIsCall DEF MatchInv, Matches
    <3>5. request[p].op \in Ops("left")
      BY <2>3, <3>2, <3>4, OpsAre DEF Calls, Purpose
    <3>6. QED
      BY <2>1, <3>3, <3>4, <3>5 DEF Matches
  <2>4. QED
    BY <2>2, <2>3
<1>4. Matches(request'[q], call'[q])
  BY <1>1, SentMatches, OpsAre
<1>5. \A p \in Requests : call'[p] \in Calls
  BY <1>2, <1>3
<1>6. call' \in [Requests -> Calls]
  BY <1>5 DEF Document
<1>7. QED
  BY <1>3, <1>4, <1>6 DEF MatchInv

\* An error 401 or 403 ends the request, and a call that was left is forgotten.
LEMMA DeniedMoves ==
  ASSUME IInv, AppTypeOK, MatchInv, NEW q \in Requests, Denied(q)
  PROVE  /\ UNCHANGED <<tokens, redis, jar>>
         /\ \A p \in Requests \ {q} : request'[p] = request[p] /\ call'[p] = call[p]
         /\ request'[q] = Idle
         /\ request[q] # Idle /\ request[q].pc = "bearer" /\ request[q].old # 0
         /\ request[q].op = "use" => ~ AccessGood(request[q].old)
         /\ call' \in [Requests -> Calls]
         /\ \/ call[q].what = "left" /\ call'[q] = NoCall
            \/ /\ call[q].what \in {"me", "page", "logout"} /\ call'[q].what = call[q].what
               /\ call'[q].error # 0
<1>1. /\ UNCHANGED <<tokens, redis, jar>> /\ request'[q] = Idle
      /\ request[q].op \in {"use", "refresh", "logout"} /\ request[q].pc = "bearer"
  BY DEF Denied, Bearer, At
<1>2. request \in [Requests -> Request]
  BY DEF IInv, TypeOK
<1>3. request[q] # Idle /\ request[q].old # 0
  BY <1>1 DEF Idle, IInv, ExchangeInv, Fits
<1>4. \A pc \in Pcs \ {"done"} : ~ GoTo(q, pc)
  BY <1>1, <1>2, GoToFields DEF Idle
<1>5. Done(q) /\ (request[q].op = "use" => ~ AccessGood(request[q].old))
  BY <1>4 DEF Denied, Bearer, Pcs
<1>6. \A p \in Requests \ {q} : request'[p] = request[p]
  BY <1>2, <1>5, DoneFields
<1>7. call[q] \in Calls
  BY DEF AppTypeOK, Calls
<1>8. PICK c \in Calls : /\ call' = [call EXCEPT ![q] = c]
                         /\ \/ call[q].what = "left" /\ c = NoCall
                            \/ /\ call[q].what # "left" /\ c.what = call[q].what
                               /\ c.error \in {401, 403}
  <2>1. CASE call[q].what = "left"
    BY <2>1, NoCallIsCall DEF Denied
  <2>2. CASE call[q].what # "left"
    <3> DEFINE c == [call[q] EXCEPT !.error = Status(request[q].old)]
    <3>1. call' = [call EXCEPT ![q] = c]
      BY <2>2 DEF Denied
    <3>2. Status(request[q].old) \in {401, 403}
      BY DEF Status
    <3>3. c \in Calls /\ c.what = call[q].what /\ c.error \in {401, 403}
      BY <1>7, <3>2 DEF Calls
    <3> HIDE DEF c
    <3>4. QED
      BY <2>2, <3>1, <3>3
  <2>3. QED
    BY <2>1, <2>2
<1>9. /\ call' \in [Requests -> Calls] /\ call'[q] = c
      /\ \A p \in Requests \ {q} : call'[p] = call[p]
  <2>1. call' = [call EXCEPT ![q] = c]
    BY <1>8
  <2>2. QED
    BY <2>1, CallFields, Zenon
<1>10. call[q].what \in {"me", "page", "logout", "left"}
  BY <1>1, <1>3, <1>7, OpsAre DEF MatchInv, Matches, Calls, Purpose
<1>11. QED
  BY <1>1, <1>3, <1>5, <1>6, <1>8, <1>9, <1>10

\* An answer ends the request and the call.
LEMMA FinishedMoves ==
  ASSUME AppTypeOK, NEW q \in Requests, Finished(q)
  PROVE  /\ call' \in [Requests -> Calls]
         /\ call'[q] = NoCall /\ \A p \in Requests \ {q} : call'[p] = call[p]
BY NoCallIsCall, CallFields DEF Finished

LEMMA EndMatches ==
  ASSUME IInv, AppTypeOK, MatchInv, NEW q \in Requests, Done(q), Finished(q) PROVE MatchInv'
<1>1. Matches(Idle, NoCall)
  BY NoCallIsCall DEF Matches
<1>2. request'[q] = Idle /\ \A p \in Requests \ {q} : request'[p] = request[p]
  BY DoneFields DEF IInv, TypeOK
<1>3. QED
  BY <1>1, <1>2, FinishedMoves, MatchFrame

LEMMA SentStep ==
  ASSUME IInv, AppTypeOK, MatchInv, NEW q \in Requests, call[q] = NoCall,
         NEW w \in {"me", "page", "logout"}, NEW op \in Ops(w), Send(q, op),
         call' = [call EXCEPT ![q] = [what |-> w, error |-> ErrorAtOnce]]
  PROVE  call' \in [Requests -> Calls] /\ MatchInv'
<1>1. [what |-> w, error |-> ErrorAtOnce] \in Calls
  BY DEF Calls, Purpose, ErrorAtOnce
<1>2. /\ call' \in [Requests -> Calls] /\ call'[q] = [what |-> w, error |-> ErrorAtOnce]
      /\ \A p \in Requests \ {q} : call'[p] = call[p]
  BY <1>1, CallFields
<1>3. \A p \in Requests \ {q} : request'[p] = request[p]
  BY SendMoves, OpsAre
<1>4. QED
  BY <1>2, <1>3, SentMatches, MatchFrame

\* Calls keep matching their requests.
LEMMA MatchNext ==
  ASSUME IInv, AppTypeOK, MatchInv, [AppNext]_appVars PROVE AppTypeOK' /\ MatchInv'
<1>1. /\ route \in Route /\ user \in BOOLEAN /\ checking \in BOOLEAN /\ doubt \in BOOLEAN
      /\ loads \in 0..MaxLoads /\ loads \in Nat /\ call \in [Requests -> Calls]
  BY TabAssumption DEF AppTypeOK, Calls
<1>2. ASSUME route' \in Route, user' \in BOOLEAN, checking' \in BOOLEAN, doubt' \in BOOLEAN,
             loads' \in 0..MaxLoads, call' \in [Requests -> Calls], MatchInv'
      PROVE  AppTypeOK' /\ MatchInv'
  BY <1>2 DEF AppTypeOK, MatchInv, Matches, Calls
<1>3. CASE UNCHANGED appVars \/ \E r \in Route : Visit(r)
  <2>1. UNCHANGED <<request, user, checking, doubt, loads, call>>
    BY <1>3 DEF appVars, vars, page, Visit
  <2>2. route' \in Route
    BY <1>1, <1>3, Guards DEF appVars, page, Visit
  <2>3. MatchInv'
    BY <2>1 DEF MatchInv
  <2>4. QED
    BY <1>1, <1>2, <2>1, <2>2, <2>3
<1>4. ASSUME NEW q \in Requests, NEW r \in Route, Load(q, r) PROVE AppTypeOK' /\ MatchInv'
  <2>1. call' \in [Requests -> Calls] /\ MatchInv'
    BY <1>4, MatchDocument DEF Load
  <2>2. /\ route' \in Route /\ user' \in BOOLEAN /\ checking' \in BOOLEAN /\ doubt' \in BOOLEAN
    BY <1>4 DEF Load, Document, Crossing
  <2>3. loads' \in 0..MaxLoads
    BY <1>1, <1>4, TabAssumption DEF Load
  <2>4. QED
    BY <1>2, <2>1, <2>2, <2>3
<1>5. ASSUME NEW q \in Requests, Expelled(q) PROVE AppTypeOK' /\ MatchInv'
  <2>1. call' \in [Requests -> Calls] /\ MatchInv'
    BY <1>5, MatchDocument DEF Expelled, Route
  <2>2. /\ route' \in Route /\ user' \in BOOLEAN /\ checking' \in BOOLEAN /\ doubt' \in BOOLEAN
        /\ loads' = loads
    BY <1>5 DEF Expelled, Document, Crossing, Route
  <2>3. QED
    BY <1>1, <1>2, <2>1, <2>2
<1>6. ASSUME NEW q \in Requests, PageCall(q) \/ Login(q) \/ Logout(q)
      PROVE  AppTypeOK' /\ MatchInv'
  <2>1. call[q] = NoCall /\ UNCHANGED <<page, loads>> /\ doubt' = (doubt \/ Crossing(q))
    BY <1>6 DEF PageCall, Login, Logout
  <2>2. CASE PageCall(q) \/ Logout(q)
    BY <2>1, <2>2, SentStep, OpsAre, <1>1, <1>2 DEF PageCall, Logout, page
  <2>3. CASE Login(q)
    <3> DEFINE c == [what |-> "login", error |-> 0]
    <3>1. c \in Calls /\ c.what = "login" /\ c.error = 0
      BY DEF Calls, Purpose
    <3>2. call' = [call EXCEPT ![q] = c] /\ StartLogin(q, Tab)
      BY <2>3 DEF Login
    <3> HIDE DEF c
    <3>3. /\ call' \in [Requests -> Calls] /\ call'[q] = c
          /\ \A p \in Requests \ {q} : call'[p] = call[p]
      BY <3>1, <3>2, CallFields
    <3>4. Idle.op # "login"
      BY DEF Idle
    <3>5. Matches(request'[q], c)
      BY <3>1, <3>2, <3>4, LoginMoves, OpsAre DEF Matches
    <3>6. MatchInv'
      BY <3>2, <3>3, <3>5, LoginMoves, MatchFrame
    <3>7. QED
      BY <1>1, <1>2, <2>1, <3>3, <3>6 DEF page
  <2>4. QED
    BY <1>6, <2>2, <2>3
<1>7. ASSUME NEW q \in Requests, Inside(q) PROVE AppTypeOK' /\ MatchInv'
  <2>1. UNCHANGED <<route, user, checking, call, loads, doubt>>
    BY <1>7 DEF Inside, page
  <2>2. request[q].op # "refresh"
    BY <1>1, OpsAre DEF MatchInv, Matches, Idle, Calls, Purpose
  <2>3. MatchInv'
    <3>1. Matches(request'[q], call[q])
      BY <1>7, <2>2, InsideMoves DEF MatchInv, Matches
    <3>2. QED
      BY <1>7, <2>1, <2>2, <3>1, InsideMoves, MatchFrame
  <2>4. QED
    BY <1>1, <1>2, <2>1, <2>3
<1>8. ASSUME NEW q \in Requests, Denied(q) PROVE AppTypeOK' /\ MatchInv'
  <2>1. UNCHANGED <<route, user, checking, loads, doubt>>
    BY <1>8 DEF Denied, page
  <2>2. Matches(Idle, call'[q])
    BY <1>8, DeniedMoves, NoCallIsCall DEF Matches
  <2>3. MatchInv'
    BY <1>8, <2>2, DeniedMoves, MatchFrame
  <2>4. QED
    BY <1>1, <1>2, <1>8, <2>1, <2>3, DeniedMoves
<1>9. ASSUME NEW q \in Requests, Answered(q) \/ AnsweredToNobody(q) \/ AnswerLost(q)
      PROVE  AppTypeOK' /\ MatchInv'
  <2>1. Done(q) /\ Finished(q) /\ loads' = loads
    BY <1>9 DEF Answered, AnsweredToNobody, AnswerLost, Reply, HungUp, LostReply
  <2>2. /\ user' \in BOOLEAN /\ checking' \in BOOLEAN /\ doubt' \in BOOLEAN
    BY <1>1, <1>9 DEF Answered, AnsweredToNobody, AnswerLost, page
  <2>3. route' \in Route
    <3>1. Guarded(route, TRUE) \in Route
      BY <1>1, Guards
    <3>2. QED
      BY <1>1, <1>9, <3>1 DEF Answered, AnsweredToNobody, AnswerLost, page, Route
  <2>4. QED
    BY <1>1, <1>2, <2>1, <2>2, <2>3, EndMatches, FinishedMoves
<1>10. ASSUME NEW q \in Requests, Refused(q) PROVE AppTypeOK' /\ MatchInv'
  <2>1. Finished(q) /\ request' = request /\ loads' = loads
    BY <1>10 DEF Refused, vars
  <2>2. /\ user' \in BOOLEAN /\ checking' \in BOOLEAN /\ doubt' \in BOOLEAN
    BY <1>1, <1>10 DEF Refused
  <2>3. route' \in Route
    <3>1. Guarded(route, FALSE) \in Route
      BY <1>1, Guards
    <3>2. QED
      BY <1>1, <1>10, <3>1 DEF Refused, Route
  <2>4. Matches(request'[q], NoCall)
    <3>1. request[q] = Idle
      BY <1>10, CallIsIdle DEF Refused
    <3>2. QED
      BY <2>1, <3>1, NoCallIsCall DEF Matches
  <2>5. MatchInv'
    BY <2>1, <2>4, FinishedMoves, MatchFrame
  <2>6. QED
    BY <1>1, <1>2, <2>1, <2>2, <2>3, <2>5, FinishedMoves
<1>11. CASE Time
  <2>1. UNCHANGED <<request, route, user, checking, call, loads>>
    BY <1>11, TimeWears DEF Time, page
  <2>2. MatchInv' /\ doubt' \in BOOLEAN
    BY <1>1, <1>11, <2>1 DEF MatchInv, Time
  <2>3. QED
    BY <1>1, <1>2, <2>1, <2>2
<1>12. QED
  BY <1>3, <1>4, <1>5, <1>6, <1>7, <1>8, <1>9, <1>10, <1>11 DEF AppNext

\* A check is over once it is answered, and a login is asked for only then.
LEMMA CheckNext ==
  ASSUME IInv, AppTypeOK, MatchInv, CheckInv, [AppNext]_appVars PROVE CheckInv'
<1>1. ASSUME user' = user, checking' = checking,
             \A p \in Requests : call'[p].what \in {"none", "left", "page", "logout", call[p].what}
      PROVE  CheckInv'
  BY <1>1 DEF CheckInv
<1>2. ASSUME NEW q \in Requests, NEW r \in Route, Document(q, r) PROVE CheckInv'
  <2>1. ~ user' /\ checking' /\ call'[q].what = "me"
    BY <1>2 DEF Document
  <2>2. \A p \in Requests \ {q} : call'[p].what \in {"none", "left"}
    <3> SUFFICES ASSUME NEW p \in Requests \ {q} PROVE call'[p].what \in {"none", "left"}
      OBVIOUS
    <3>1. call[p] \in Calls
      BY DEF AppTypeOK, Calls
    <3>2. call'[p] = NoCall \/ call'[p] = [call[p] EXCEPT !.what = "left"]
      BY <1>2 DEF Document
    <3>3. QED
      BY <3>1, <3>2, NoCallIsCall DEF Calls
  <2>3. QED
    BY <2>1, <2>2 DEF CheckInv
<1>3. ASSUME NEW q \in Requests, Finished(q), checking' = (checking /\ call[q].what # "me"),
             checking' => ~ user'
      PROVE  CheckInv'
  <2>1. call'[q].what = "none" /\ \A p \in Requests \ {q} : call'[p] = call[p]
    BY <1>3, FinishedMoves, NoCallIsCall
  <2>2. QED
    BY <1>3, <2>1 DEF CheckInv
<1>4. ASSUME NEW q \in Requests, Answered(q) \/ Refused(q) PROVE CheckInv'
  <2>1. Finished(q) /\ checking' = (checking /\ call[q].what # "me")
    BY <1>4 DEF Answered, Refused
  <2>2. checking' => ~ user'
    BY <1>4 DEF CheckInv, Answered, Refused
  <2>3. QED
    BY <1>3, <2>1, <2>2
<1>5. ASSUME NEW q \in Requests, AnsweredToNobody(q) \/ AnswerLost(q) PROVE CheckInv'
  BY <1>1, <1>5, FinishedMoves, NoCallIsCall DEF AnsweredToNobody, AnswerLost, page
<1>6. ASSUME NEW q \in Requests, Denied(q) PROVE CheckInv'
  BY <1>1, <1>6, DeniedMoves, NoCallIsCall DEF Denied, page
<1>7. ASSUME NEW q \in Requests, PageCall(q) \/ Logout(q) PROVE CheckInv'
  <2>1. PICK w \in {"page", "logout"} :
          call' = [call EXCEPT ![q] = [what |-> w, error |-> ErrorAtOnce]]
    BY <1>7 DEF PageCall, Logout
  <2>2. UNCHANGED <<user, checking>>
    BY <1>7 DEF PageCall, Logout, page
  <2>3. [what |-> w, error |-> ErrorAtOnce] \in Calls
    BY DEF Calls, Purpose, ErrorAtOnce
  <2>4. call'[q].what = w /\ \A p \in Requests \ {q} : call'[p] = call[p]
    BY <2>1, <2>3, CallFields
  <2>5. QED
    BY <1>1, <2>2, <2>4
<1>8. ASSUME NEW q \in Requests, Login(q) PROVE CheckInv'
  <2>1. UNCHANGED <<user, checking>> /\ ~ checking
    BY <1>8 DEF Login, LoginShown, page
  <2>2. [what |-> "login", error |-> 0] \in Calls
    BY DEF Calls, Purpose
  <2>3. call'[q].what = "login" /\ \A p \in Requests \ {q} : call'[p] = call[p]
    BY <1>8, <2>2, CallFields DEF Login
  <2>4. QED
    BY <2>1, <2>3 DEF CheckInv
<1>9. CASE \/ UNCHANGED appVars \/ Time
           \/ \E r \in Route : Visit(r)
           \/ \E q \in Requests : Inside(q)
  <2>1. UNCHANGED <<user, checking, call>>
    BY <1>9 DEF appVars, page, Time, Visit, Inside
  <2>2. QED
    BY <2>1 DEF CheckInv
<1>10. \A q \in Requests : Expelled(q) => CheckInv'
  BY <1>2 DEF Expelled, Route
<1>11. \A q \in Requests : \A r \in Route : Load(q, r) => CheckInv'
  BY <1>2 DEF Load
<1>12. QED
  BY <1>4, <1>5, <1>6, <1>7, <1>8, <1>9, <1>10, <1>11 DEF AppNext

-----------------------------------------------------------------------------
\* As long as no calls cross, nothing else is on its way beside a call.
LEMMA OneCall ==
  ASSUME MatchInv, SureInv, ~ doubt, NEW q \in Requests, call[q] # NoCall
  PROVE  /\ \A p \in Requests \ {q} : call[p] = NoCall /\ request[p] = Idle
         /\ call[q].what # "left" /\ OnItsWay(request[q])
         /\ call[q].error # 0 => call[q].what = "logout" \/ Spent
BY CallIsIdle, NoCallIsCall DEF SureInv

LEMMA BusyIsCall ==
  ASSUME MatchInv, NEW q \in Requests, request[q] # Idle PROVE call[q] # NoCall
BY CallIsIdle, NoCallIsCall

\* What is left to show of one call after a step.
LEMMA SureFrame ==
  ASSUME MatchInv', NEW q \in Requests, \A p \in Requests \ {q} : call'[p] = NoCall,
         call'[q].what # "left", OnItsWay(request[q])',
         call'[q].error # 0 => call'[q].what = "logout" \/ Spent',
         ~ user' /\ ~ checking' => Spent' /\ Hopeless(request[q])'
  PROVE  SureInv' /\ GuestInv'
<1>1. \A p \in Requests \ {q} : call'[p].what = "none" /\ call'[p].error = 0
  BY NoCallIsCall
<1>2. \A p \in Requests \ {q} : request'[p] = Idle
  BY <1>1 DEF MatchInv, Matches
<1>3. Idle.op # "use"
  BY DEF Idle
<1>4. SureInv'
  BY <1>1, <1>2, <1>3 DEF SureInv, OnItsWay
<1>5. GuestInv'
  BY <1>2, <1>3 DEF GuestInv, Hopeless
<1>6. QED
  BY <1>4, <1>5

\* The same once all is answered.
LEMMA SureIdle ==
  ASSUME MatchInv', NEW q \in Requests, \A p \in Requests : call'[p] = NoCall,
         ~ user' /\ ~ checking' => Spent'
  PROVE  SureInv' /\ GuestInv'
<1>1. call'[q].what = "none" /\ call'[q].error = 0
  BY NoCallIsCall
<1>2. request'[q] = Idle
  BY <1>1 DEF MatchInv, Matches
<1>3. Idle.op # "use"
  BY DEF Idle
<1>4. OnItsWay(request[q])' /\ Hopeless(request[q])'
  BY <1>2, <1>3 DEF OnItsWay, Hopeless
<1>5. QED
  BY <1>1, <1>4, SureFrame

\* The first call of a document, or the next of one that has no other on its way.
LEMMA SureSent ==
  ASSUME IInv, MatchInv, MatchInv', NEW q \in Requests, call[q] = NoCall \/ call[q].error # 0,
         NEW w \in {"me", "page", "logout"}, NEW op \in {"use", "logout"}, Send(q, op),
         call'[q] = [what |-> w, error |-> ErrorAtOnce],
         \A p \in Requests \ {q} : call'[p] = NoCall,
         ~ user' /\ ~ checking' => Spent
  PROVE  SureInv' /\ GuestInv'
<1>1. UNCHANGED <<tokens, redis, jar>>
  BY SendMoves
<1>2. Spent => Spent'
  BY <1>1 DEF Spent, Usable, tokens, redis
<1>3. request[q] = Idle /\ Idle.op = "idle"
  BY CallIsIdle, NoCallIsCall DEF Idle
<1>4. OnItsWay(request[q])' /\ Hopeless(request[q])'
  BY <1>1, <1>3, SendMoves DEF OnItsWay, Hopeless
<1>5. call'[q].error # 0 => Spent'
  BY <1>1 DEF ErrorAtOnce, Spent
<1>6. QED
  BY <1>2, <1>4, <1>5, SureFrame

LEMMA SureDocument ==
  ASSUME IInv, MatchInv, MatchInv', NEW q \in Requests, call[q] = NoCall \/ call[q].error # 0,
         Send(q, "use"), NEW r \in Route, Document(q, r), ~ doubt'
  PROVE  SureInv' /\ GuestInv'
<1>1. \A p \in Requests \ {q} : call[p] = NoCall
  BY DEF Document, Crossing
<1>2. \A p \in Requests \ {q} : call'[p] = NoCall
  BY <1>1, NoCallIsCall DEF Document
<1>3. checking' /\ call'[q] = [what |-> "me", error |-> ErrorAtOnce]
  BY DEF Document
<1>4. QED
  BY <1>2, <1>3, SureSent

LEMMA SureInside ==
  ASSUME IInv, AppTypeOK, MatchInv, MatchInv', SureInv, GuestInv, NEW q \in Requests, Inside(q),
         ~ doubt'
  PROVE  SureInv' /\ GuestInv'
<1>1. UNCHANGED <<user, checking, call, doubt>> /\ ~ doubt
  BY DEF Inside, page
<1>2. request[q].op # "refresh"
  <2>1. call[q] \in Calls
    BY DEF AppTypeOK, Calls
  <2>2. QED
    BY <2>1, OpsAre DEF MatchInv, Matches, Idle, Calls, Purpose
<1>3. /\ Step(q) /\ UNCHANGED jar
      /\ request[q] # Idle /\ request'[q] # Idle
      /\ request'[q].op = request[q].op /\ request'[q].old = request[q].old
  BY <1>2, InsideMoves
<1>4. call[q] # NoCall /\ call[q].error = 0
  BY <1>3, BusyIsCall DEF MatchInv, Matches
<1>5. /\ \A p \in Requests \ {q} : call[p] = NoCall
      /\ call[q].what # "left" /\ OnItsWay(request[q])
  BY <1>1, <1>4, OneCall
<1>6. Wears
  BY <1>3, StepWears
<1>7. /\ Spent => Spent'
      /\ jar[Tab] # 0 => /\ AccessGood(jar[Tab])' => AccessGood(jar[Tab])
                         /\ jar[Tab] \in store' => jar[Tab] \in store
  BY <1>3, <1>6, JarWears
<1>8. ASSUME request[q].op = "use"
      PROVE  OnItsWay(request[q])' /\ (~ user /\ ~ checking => Hopeless(request[q])')
  <2>1. /\ request[q].old = jar[Tab] /\ jar[Tab] # 0
        /\ request[q].pc \in {"blocklist", "owner"} => ~ AccessGood(jar[Tab])
        /\ request[q].pc = "bearer" => AccessGood(jar[Tab]) \/ Spent
    BY <1>5, <1>8 DEF OnItsWay, IInv, ExchangeInv, Fits
  <2>2. ~ user /\ ~ checking =>
          /\ Spent /\ request[q].pc \in {"access", "blocklist", "owner", "bearer"}
          /\ request[q].pc \in {"blocklist", "owner"} => jar[Tab] \notin store
    BY <1>1, <1>8 DEF GuestInv, Hopeless
  <2>3. CASE /\ request[q].pc \in {"drop", "block", "issue", "handle"}
             /\ request'[q].pc \in {"block", "issue", "handle", "reply"}
    BY <1>3, <2>1, <2>2, <2>3 DEF OnItsWay, Hopeless
  <2>4. CASE UNCHANGED <<tokens, redis>>
    <3>1. /\ AccessGood(jar[Tab])' = AccessGood(jar[Tab])
          /\ store' = store /\ Spent' = Spent
      BY <1>3, <2>4 DEF tokens, redis, AccessGood, Spent, Usable
    <3>2. jar[Tab] \in blockedR => jar[Tab] \notin store
      BY DEF IInv, ExchangeInv, BlockedIsNotStored
    <3>3. ~ AccessGood(jar[Tab]) /\ (refresh[jar[Tab]] # "long" \/ jar[Tab] \notin store) => Spent
      BY DEF AccessGood, Spent, Usable
    <3>4. Spent => ~ AccessGood(jar[Tab]) /\ (refresh[jar[Tab]] # "long" \/ jar[Tab] \notin store)
      BY <2>1 DEF AccessGood, Spent, Usable
    <3>5. /\ request'[q].pc = "bearer" => AccessGood(jar[Tab]) \/ Spent
          /\ request'[q].pc \in {"blocklist", "owner"} => ~ AccessGood(jar[Tab])
      BY <1>8, <2>1, <3>2, <3>3, InsideUse
    <3>6. ~ user /\ ~ checking =>
            /\ request'[q].pc \in {"access", "blocklist", "owner", "bearer"}
            /\ request'[q].pc \in {"blocklist", "owner"} => jar[Tab] \notin store
      BY <1>8, <2>1, <2>2, <3>4, InsideUse
    <3>7. OnItsWay(request[q])'
      BY <1>3, <2>1, <3>1, <3>5 DEF OnItsWay
    <3>8. ~ user /\ ~ checking => Hopeless(request[q])'
      BY <1>3, <3>1, <3>6 DEF Hopeless
    <3>9. QED
      BY <3>7, <3>8
  <2>5. QED
    BY <1>8, <2>3, <2>4, InsideUse
<1>9. request[q].op # "use" => OnItsWay(request[q])' /\ Hopeless(request[q])'
  BY <1>3 DEF OnItsWay, Hopeless
<1>10. ~ user' /\ ~ checking' => Spent'
  BY <1>1, <1>7 DEF GuestInv
<1>11. QED
  BY <1>1, <1>4, <1>5, <1>8, <1>9, <1>10, SureFrame

\* CookieTokenBearer turns away only who has no session left.
LEMMA SureDenied ==
  ASSUME IInv, AppTypeOK, MatchInv, MatchInv', SureInv, GuestInv, NEW q \in Requests, Denied(q),
         ~ doubt'
  PROVE  SureInv' /\ GuestInv'
<1>1. UNCHANGED <<user, checking, doubt>> /\ ~ doubt
  BY DEF Denied, page
<1>2. call[q] # NoCall
  BY DeniedMoves, BusyIsCall
<1>3. /\ \A p \in Requests \ {q} : call[p] = NoCall
      /\ call[q].what # "left" /\ OnItsWay(request[q])
  BY <1>1, <1>2, OneCall
<1>4. Spent' = Spent
  BY DeniedMoves DEF Spent, Usable, tokens, redis
<1>5. call[q].what \in {"me", "page"} => request[q].op = "use"
  BY DeniedMoves, OpsAre DEF MatchInv, Matches
<1>6. request[q].op = "use" => Spent
  BY <1>3, DeniedMoves DEF OnItsWay
<1>7. /\ call'[q].what = call[q].what /\ call'[q].error # 0
      /\ call[q].what \in {"me", "page", "logout"}
  BY <1>3, DeniedMoves
<1>8. request'[q] = Idle /\ Idle.op # "use"
  BY DeniedMoves DEF Idle
<1>9. OnItsWay(request[q])' /\ Hopeless(request[q])'
  BY <1>8 DEF OnItsWay, Hopeless
<1>10. \A p \in Requests \ {q} : call'[p] = NoCall
  BY <1>3, DeniedMoves
<1>11. ~ user' /\ ~ checking' => Spent'
  BY <1>1, <1>4 DEF GuestInv
<1>12. QED
  BY <1>3, <1>4, <1>5, <1>6, <1>7, <1>9, <1>10, <1>11, SureFrame

\* A guest gets no answer but errors.
LEMMA SureAnswered ==
  ASSUME IInv, AppTypeOK, MatchInv, MatchInv', SureInv, GuestInv, NEW q \in Requests, Answered(q),
         ~ doubt'
  PROVE  SureInv' /\ GuestInv'
<1>1. ~ doubt /\ Reply(q) /\ Finished(q) /\ call[q].what # "left"
  BY DEF Answered
<1>2. request[q].pc = "reply" /\ request[q] # Idle
  BY <1>1 DEF Reply, At, Idle
<1>3. \A p \in Requests : call'[p] = NoCall
  BY <1>1, <1>2, BusyIsCall, OneCall, FinishedMoves
<1>4. /\ request[q].who = Tab /\ request[q].op \in Ops(call[q].what)
      /\ call[q].what \in {"me", "page", "login", "logout"}
  BY <1>1, <1>2 DEF MatchInv, Matches, AppTypeOK, Purpose
<1>5. ASSUME ~ user', ~ checking' PROVE Spent'
  <2>1. CASE call[q].what \in {"me", "login"}
    BY <1>5, <2>1 DEF Answered
  <2>2. CASE call[q].what = "logout"
    <3>1. request[q].op = "logout" /\ jar \in [Browsers -> 0..issued]
      BY <1>4, <2>2, OpsAre DEF IInv, TypeOK
    <3>2. jar'[Tab] = 0
      BY <1>1, <1>4, <3>1, TabAssumption DEF Reply
    <3>3. QED
      BY <3>2 DEF Spent
  <2>3. CASE call[q].what = "page"
    <3>1. request[q].op = "use" /\ ~ user /\ ~ checking
      BY <1>4, <1>5, <2>3, OpsAre DEF Answered
    <3>2. QED
      BY <1>1, <1>2, <3>1 DEF GuestInv, Hopeless
  <2>4. QED
    BY <1>4, <2>1, <2>2, <2>3
<1>6. QED
  BY <1>3, <1>5, SureIdle

\* Who is refused and was no user before, has no session.
LEMMA SureRefused ==
  ASSUME IInv, AppTypeOK, MatchInv, MatchInv', SureInv, NEW q \in Requests, Refused(q), ~ doubt'
  PROVE  SureInv' /\ GuestInv'
<1>1. ~ doubt /\ call[q].what # "logout" /\ Finished(q) /\ call[q].error = 403 /\ UNCHANGED vars
  BY DEF Refused
<1>2. call[q] # NoCall
  BY <1>1, NoCallIsCall
<1>3. (\A p \in Requests \ {q} : call[p] = NoCall) /\ Spent
  BY <1>1, <1>2, OneCall
<1>4. Spent'
  BY <1>1, <1>3 DEF Spent, Usable, vars, tokens, redis
<1>5. \A p \in Requests : call'[p] = NoCall
  BY <1>1, <1>3, FinishedMoves
<1>6. QED
  BY <1>4, <1>5, SureIdle

\* Time takes sessions away, and doubt covers a token that expires on the way.
LEMMA SureTime ==
  ASSUME IInv, SureInv, GuestInv, Time, ~ doubt' PROVE SureInv' /\ GuestInv'
<1>1. /\ Wears /\ UNCHANGED <<store, blockedA, jar, request>>
      /\ UNCHANGED <<user, checking, call>> /\ ~ doubt
      /\ access' = access \/ \A q \in Requests : ~ At(q, {"use"}, "bearer")
  BY TimeWears DEF Time, page
<1>2. /\ Spent => Spent'
      /\ jar[Tab] # 0 => (AccessGood(jar[Tab])' => AccessGood(jar[Tab]))
  BY <1>1, JarWears
<1>3. access' = access => AccessGood(jar[Tab])' = AccessGood(jar[Tab])
  BY <1>1 DEF AccessGood
<1>4. ASSUME NEW q \in Requests, OnItsWay(request[q]) PROVE OnItsWay(request[q])'
  <2>1. request[q].op = "use" => request[q].old # 0
    BY DEF IInv, ExchangeInv, Fits
  <2>2. QED
    BY <1>1, <1>2, <1>3, <1>4, <2>1 DEF OnItsWay, At
<1>5. SureInv'
  BY <1>1, <1>2, <1>4 DEF SureInv
<1>6. GuestInv'
  BY <1>1, <1>2 DEF GuestInv, Hopeless
<1>7. QED
  BY <1>5, <1>6

LEMMA SureNext ==
  ASSUME AppIInv, MatchInv', [AppNext]_appVars, ~ doubt' PROVE SureInv' /\ GuestInv'
<1> USE DEF AppIInv
<1>1. CASE UNCHANGED appVars \/ \E r \in Route : Visit(r)
  <2>1. UNCHANGED <<tokens, redis, jar, request, user, checking, call, doubt>>
    BY <1>1 DEF appVars, vars, page, Visit
  <2>2. QED
    BY <2>1 DEF SureInv, GuestInv, OnItsWay, Hopeless, Spent, Usable, AccessGood, tokens, redis
<1>2. ASSUME NEW q \in Requests, (\E r \in Route : Load(q, r)) \/ Expelled(q)
      PROVE  SureInv' /\ GuestInv'
  BY <1>2, SureDocument DEF Load, Expelled, Route
<1>3. ASSUME NEW q \in Requests, PageCall(q) \/ Logout(q) PROVE SureInv' /\ GuestInv'
  <2>1. PICK w \in {"page", "logout"}, op \in {"use", "logout"} :
          Send(q, op) /\ call' = [call EXCEPT ![q] = [what |-> w, error |-> ErrorAtOnce]]
    BY <1>3 DEF PageCall, Logout
  <2>2. UNCHANGED <<user, checking>> /\ call[q] = NoCall /\ ~ doubt
        /\ \A p \in Requests \ {q} : call[p] = NoCall
    BY <1>3 DEF PageCall, Logout, page, Crossing
  <2>3. [what |-> w, error |-> ErrorAtOnce] \in Calls
    BY DEF Calls, Purpose, ErrorAtOnce
  <2>4. /\ call'[q] = [what |-> w, error |-> ErrorAtOnce]
        /\ \A p \in Requests \ {q} : call'[p] = NoCall
    BY <2>1, <2>2, <2>3, CallFields
  <2>5. ~ user' /\ ~ checking' => Spent
    BY <2>2 DEF GuestInv
  <2>6. QED
    BY <2>1, <2>2, <2>4, <2>5, SureSent
<1>4. ASSUME NEW q \in Requests, Login(q) PROVE SureInv' /\ GuestInv'
  <2>1. UNCHANGED <<user, checking>> /\ ~ doubt /\ StartLogin(q, Tab)
        /\ \A p \in Requests \ {q} : call[p] = NoCall
    BY <1>4 DEF Login, page, Crossing
  <2>2. [what |-> "login", error |-> 0] \in Calls
    BY DEF Calls, Purpose
  <2>3. /\ call'[q].what = "login" /\ call'[q].error = 0
        /\ \A p \in Requests \ {q} : call'[p] = NoCall
    BY <1>4, <2>1, <2>2, CallFields DEF Login
  <2>4. OnItsWay(request[q])' /\ Hopeless(request[q])'
    BY <2>1, LoginMoves DEF OnItsWay, Hopeless
  <2>5. Spent' = Spent
    BY <2>1, LoginMoves DEF Spent, Usable, tokens, redis
  <2>6. ~ user' /\ ~ checking' => Spent'
    BY <2>1, <2>5 DEF GuestInv
  <2>7. QED
    BY <2>3, <2>4, <2>6, SureFrame
<1>5. ASSUME NEW q \in Requests, AnsweredToNobody(q) \/ AnswerLost(q) PROVE SureInv' /\ GuestInv'
  BY <1>5 DEF AnsweredToNobody, AnswerLost, SureInv
<1>6. QED
  BY <1>1, <1>2, <1>3, <1>4, <1>5, SureInside, SureDenied, SureAnswered, SureRefused, SureTime
  DEF AppNext

LEMMA InitAppIInv == AppInit => AppIInv
<1> SUFFICES ASSUME AppInit PROVE AppIInv
  OBVIOUS
<1>1. IInv
  BY InitIInv DEF AppInit
<1>2. \A q \in Requests : request[q] = Idle /\ call[q] = NoCall
  BY DEF AppInit, Init
<1>3. MatchInv /\ CheckInv
  BY <1>2, NoCallIsCall DEF AppInit, MatchInv, Matches, CheckInv
<1>4. AppTypeOK
  <2>1. call \in [Requests -> Calls]
    BY NoCallIsCall DEF AppInit
  <2>2. /\ route \in Route /\ user \in BOOLEAN /\ checking \in BOOLEAN /\ doubt \in BOOLEAN
        /\ loads \in 0..MaxLoads
    <3>1. loads = 0 /\ MaxLoads \in Nat
      BY TabAssumption DEF AppInit
    <3>2. user = FALSE /\ checking = FALSE /\ doubt = FALSE /\ route \in Route
      BY DEF AppInit, Route
    <3>3. loads \in 0..MaxLoads
      BY <3>1
    <3>4. QED
      BY <3>2, <3>3
  <2>3. QED
    BY <1>3, <2>1, <2>2, AppTypes
<1>5. SureInv /\ GuestInv
  <2>1. Spent
    BY TabAssumption DEF AppInit, Init, Spent
  <2>2. Idle.op # "use"
    BY DEF Idle
  <2>3. QED
    BY <1>2, <2>1, <2>2, NoCallIsCall DEF SureInv, GuestInv, OnItsWay, Hopeless
<1>6. QED
  BY <1>1, <1>3, <1>4, <1>5 DEF AppIInv

\* What the page makes of its cookies is what AuthSessions expects of a browser,
\* which may hang up on an answer besides.
THEOREM PageDrivesServer == AppSpec => Init /\ [][ServerNext]_vars
<1>1. AppInit => Init
  BY DEF AppInit
<1>2. QED
  BY <1>1, ServerStep, PTL DEF AppSpec

\* The invariant of the page holds throughout, and with it that of the server.
THEOREM AppInvariance == AppSpec => []AppIInv
<1>1. ASSUME AppIInv, [AppNext]_appVars PROVE AppIInv'
  <2>1. IInv' /\ AppTypeOK' /\ MatchInv' /\ CheckInv'
    BY <1>1, AppNextIInv, MatchNext, CheckNext DEF AppIInv
  <2>2. SureInv' /\ GuestInv'
    <3>1. CASE doubt'
      BY <3>1 DEF SureInv, GuestInv
    <3>2. CASE ~ doubt'
      BY <1>1, <2>1, <3>2, SureNext
    <3>3. QED
      BY <3>1, <3>2
  <2>3. QED
    BY <2>1, <2>2 DEF AppIInv
<1>2. QED
  BY <1>1, InitAppIInv, PTL DEF AppSpec

\* Every variable of the page keeps its type.
THEOREM AppTypeCorrect == AppSpec => []AppTypeOK
<1>1. AppIInv => AppTypeOK
  BY DEF AppIInv
<1>2. QED
  BY <1>1, AppInvariance, PTL

\* A page that shows a guest, with every call answered, has no session it could
\* use, however the calls of earlier documents were answered.
THEOREM GuestsHaveNoSession == AppSpec => []GuestHasNoSession
<1>1. AppIInv => GuestHasNoSession
  BY DEF AppIInv, GuestInv, Spent, GuestHasNoSession
<1>2. QED
  BY <1>1, AppInvariance, PTL

\* Nobody is logged out but by a logout or a new document: a late answer to the
\* check finds nobody logged in.
THEOREM LoginsStick == AppSpec => LoginSticks
<1> DEFINE Stays == user /\ ~ user' =>
                      \/ checking'
                      \/ \E q \in Requests : call[q].what = "logout" /\ call'[q] = NoCall
<1>1. ASSUME AppIInv, [AppNext]_appVars PROVE Stays \/ UNCHANGED appVars
  <2> SUFFICES ASSUME user, ~ user', AppNext
               PROVE  \/ checking'
                      \/ \E q \in Requests : call[q].what = "logout" /\ call'[q] = NoCall
    BY <1>1
  <2>1. user' # user
    OBVIOUS
  <2>2. PICK q \in Requests :
          \/ \E r \in Route : Load(q, r)
          \/ Answered(q) \/ Refused(q) \/ Expelled(q)
    BY <2>1 DEF AppNext, Visit, PageCall, Login, Logout, Inside, Denied, AnsweredToNobody,
       AnswerLost, Time, page
  <2>3. CASE (\E r \in Route : Load(q, r)) \/ Expelled(q)
    BY <2>3 DEF Load, Expelled, Document
  <2>4. CASE Answered(q) \/ Refused(q)
    <3>1. call'[q] = NoCall
      BY <1>1, <2>4, FinishedMoves DEF Answered, Refused, AppIInv
    <3>2. call[q].what = "logout"
      <4>1. CASE Answered(q)
        BY <4>1 DEF Answered
      <4>2. CASE Refused(q)
        <5>1. call[q].what \notin {"page", "login"}
          BY <4>2 DEF Refused
        <5>2. call[q].what \in {"me", "page", "logout"}
          BY <1>1, <4>2 DEF Refused, AppIInv, MatchInv, Matches
        <5>3. call[q].what # "me"
          BY <1>1 DEF AppIInv, CheckInv
        <5>4. QED
          BY <5>1, <5>2, <5>3
      <4>3. QED
        BY <2>4, <4>1, <4>2
    <3>3. QED
      BY <3>1, <3>2
  <2>5. QED
    BY <2>2, <2>3, <2>4
<1>2. QED
  BY <1>1, AppInvariance, PTL DEF LoginSticks, AppSpec

\* A page that was logged out reaches no handler with the pair of that logout,
\* whatever documents are loaded and whatever answers the browser hung up on.
THEOREM LoggedOutPageStaysOut == AppSpec => []LoggedOutStaysOut
<1> DEFINE Holds == ~ Happened("redisLoss") => LogoutInv
<1>1. AppInit => Holds
  BY InitKeeps DEF AppInit
<1>2. ASSUME AppIInv, Holds, [AppNext]_appVars PROVE Holds'
  <2>1. IInv /\ TypeOK
    BY <1>2 DEF AppIInv, IInv
  <2>2. CASE [Next]_vars
    BY <1>2, <2>1, <2>2, NextKeeps, HappenedStays
  <2>3. ASSUME NEW q \in Requests, HungUp(q) PROVE Holds'
    BY <1>2, <2>1, <2>3, EndKeeps DEF HungUp, Happened
  <2>4. QED
    BY <1>2, <2>2, <2>3, ServerStep DEF ServerNext
<1>3. Holds => LoggedOutStaysOut
  BY DEF LogoutInv, Keeps, LoggedOutStaysOut
<1>4. QED
  BY <1>1, <1>2, <1>3, AppInvariance, PTL DEF AppSpec
=============================================================================
