--------------------------- MODULE AccountsProofs ---------------------------
(***************************************************************************)
(* The accounts, for any names, addresses, requests in flight and faults.  *)
(***************************************************************************)
EXTENDS Accounts, TLAPS

HasRow(i) == \E row \in pending \cup user \cup rejected : row.id = i
Inserting(r) == r.op = "signup" /\ r.pc = "newPending"
Deciding(r) == r.op \in {"approve", "reject"} /\ r.pc = "commit"

\* What a request holds, however requests overlap.
Holding(r) ==
  /\ r.op = "signup" => r.form \in Form
  /\ Inserting(r) => r.id \in 1..ids /\ ~HasRow(r.id)
  /\ Deciding(r) => r.row \in Row /\ HasRow(r.row.id)

\* What it has seen that still holds, as long as none overlap.
Seen(r) ==
  /\ r.op = "signup" /\ r.pc \notin {"userName"} => Named(user, r.form.name) = {}
  /\ r.op = "signup" /\ r.pc \notin {"userName", "pendingName"} =>
       Named(pending, r.form.name) = {}
  /\ r.op = "signup" /\ r.pc \in {"newId", "newPending"} /\ r.form.email # None =>
       Mailed(pending, r.form.email) = {}
  /\ Deciding(r) => r.row \in pending

Held == \A q \in Requests : Holding(request[q])

\* Each request that inserts has a user_id row of its own.
OwnIds ==
  \A p, q \in Requests :
    Inserting(request[p]) /\ Inserting(request[q]) /\ request[p].id = request[q].id => p = q

\* A pending row is the only one of its account and of its name.
PendingOnce ==
  /\ \A r \in pending, s \in user \cup rejected : r.id # s.id
  /\ \A r, s \in pending : r.id = s.id \/ r.name = s.name => r = s

Alone ==
  /\ \A p, q \in Requests : request[p] # Idle /\ request[q] # Idle => p = q
  /\ \A q \in Requests : Seen(request[q])
  /\ \A r \in user, s \in rejected : r.id # s.id
  /\ \A r \in pending, s \in user : r.name # s.name

Accounted ==
  \A i \in 1..ids : HasRow(i) \/ \E q \in Requests : Inserting(request[q]) /\ request[q].id = i

IInv ==
  /\ TypeOK
  /\ Held
  /\ OwnIds
  /\ PendingOnce
  /\ overlapped \/ Alone
  /\ overlapped \/ faults > 0 \/ Accounted

-----------------------------------------------------------------------------
LEMMA IdleType == Idle \in Request /\ Holding(Idle) /\ Seen(Idle) /\ ~Inserting(Idle)
BY BoundsAssumption DEF Idle, Request, Holding, Seen, Inserting, Deciding

LEMMA Put ==
  ASSUME request \in [Requests -> Request], NEW q \in Requests, NEW r \in Request,
         request' = [request EXCEPT ![q] = r]
  PROVE  /\ request' \in [Requests -> Request]
         /\ request'[q] = r
         /\ \A p \in Requests \ {q} : request'[p] = request[p]
OBVIOUS

LEMMA InitInv == Init => IInv
<1> SUFFICES ASSUME Init PROVE IInv
  OBVIOUS
<1>1. \A q \in Requests : request[q] = Idle
  BY DEF Init
<1>2. TypeOK
  <2>1. request \in [Requests -> Request]
    BY IdleType DEF Init
  <2>2. ids \in 0..MaxIds /\ faults \in 0..MaxFaults
    BY BoundsAssumption DEF Init
  <2>3. QED
    BY <2>1, <2>2 DEF Init, TypeOK
<1>3. Held /\ OwnIds /\ PendingOnce /\ Alone
  BY <1>1, IdleType DEF Init, Held, OwnIds, PendingOnce, Alone
<1>4. Accounted
  BY DEF Init, Accounted
<1>5. QED
  BY <1>2, <1>3, <1>4 DEF IInv

\* A request goes on, or ends, and no table changes.
LEMMA Moved ==
  ASSUME IInv, NEW q \in Requests, NEW r \in Request, Holding(r), ~Inserting(r),
         request' = [request EXCEPT ![q] = r], UNCHANGED <<ids, tables>>,
         faults' \in 0..MaxFaults, faults' >= faults, overlapped' \in BOOLEAN,
         overlapped => overlapped',
         ~overlapped' =>
           /\ Seen(r)
           /\ \/ request[q] # Idle \/ r = Idle
              \/ \A p \in Requests \ {q} : request[p] = Idle,
         Inserting(request[q]) => faults' > 0
  PROVE  IInv'
<1>1. /\ request' \in [Requests -> Request]
      /\ request'[q] = r
      /\ \A p \in Requests \ {q} : request'[p] = request[p]
  BY Put DEF IInv, TypeOK
<1>2. \A s : (Holding(s) <=> Holding(s)') /\ (Seen(s) <=> Seen(s)')
  BY DEF Holding, Seen, HasRow, tables, Inserting, Deciding
<1>3. TypeOK'
  BY <1>1 DEF IInv, TypeOK, tables
<1>4. Held' /\ OwnIds' /\ PendingOnce'
  BY <1>1, <1>2 DEF IInv, Held, OwnIds, PendingOnce, tables
<1>5. overlapped' \/ Alone'
  BY <1>1, <1>2 DEF IInv, Alone, tables
<1>6. overlapped' \/ faults' > 0 \/ Accounted'
  <2> SUFFICES ASSUME ~overlapped', ~(faults' > 0) PROVE Accounted'
    OBVIOUS
  <2>1. ~overlapped /\ ~(faults > 0)
    BY BoundsAssumption DEF IInv, TypeOK
  <2>2. ~Inserting(request[q])
    OBVIOUS
  <2>3. QED
    BY <1>1, <2>1, <2>2 DEF IInv, Accounted, HasRow, tables
<1>7. QED
  BY <1>3, <1>4, <1>5, <1>6 DEF IInv

LEMMA StartStep ==
  ASSUME IInv, NEW q \in Requests, NEW op, NEW pc, NEW form \in Form,
         \/ op = "signup" /\ pc = "userName"
         \/ op \in {"approve", "reject"} /\ pc = "verified",
         Started(q, [Idle EXCEPT !.op = op, !.pc = pc, !.form = form]),
         UNCHANGED <<ids, tables, faults>>
  PROVE  IInv'
<1> DEFINE r == [Idle EXCEPT !.op = op, !.pc = pc, !.form = form]
<1>1. r.op = op /\ r.pc = pc /\ r.form = form
  BY DEF Idle
<1>2. r \in Request
  BY IdleType DEF Request
<1>3. request' = [request EXCEPT ![q] = r] /\ request[q] = Idle
      /\ overlapped' = (overlapped \/ \E p \in Requests : request[p] # Idle)
  BY DEF Started
<1> HIDE DEF r
<1>4. Holding(r) /\ Seen(r) /\ ~Inserting(r)
  BY <1>1 DEF Holding, Seen, Inserting, Deciding
<1>5. ~overlapped' => \A p \in Requests : request[p] = Idle
  BY <1>3
<1>6. faults' \in 0..MaxFaults /\ faults' >= faults /\ overlapped' \in BOOLEAN
  BY <1>3, BoundsAssumption DEF IInv, TypeOK
<1>7. ~Inserting(request[q])
  BY <1>3, IdleType
<1>8. QED
  BY <1>2, <1>3, <1>4, <1>5, <1>6, <1>7, Moved

\* A request is turned down.
LEMMA DoneStep ==
  ASSUME IInv, NEW q \in Requests, Done(q), UNCHANGED <<ids, tables, overlapped>>,
         faults' \in 0..MaxFaults, faults' >= faults, Inserting(request[q]) => faults' > 0
  PROVE  IInv'
<1>1. overlapped' \in BOOLEAN
  BY DEF IInv, TypeOK
<1>2. QED
  BY <1>1, IdleType, Moved DEF Done

LEMMA CheckStep == ASSUME IInv, NEW q \in Requests, Check(q) PROVE IInv'
<1> DEFINE r == [request[q] EXCEPT !.pc = After(request[q].pc, request[q].form)]
<1>1. /\ request[q] \in Request /\ Holding(request[q]) /\ request[q].op = "signup"
      /\ request[q].pc \in {"userName", "pendingName", "userEmail", "pendingEmail"}
      /\ UNCHANGED <<ids, tables, overlapped, faults>>
      /\ faults' \in 0..MaxFaults /\ faults' >= faults /\ overlapped' \in BOOLEAN
  BY BoundsAssumption DEF IInv, TypeOK, Held, Check
<1>2. ~Inserting(request[q])
  BY <1>1 DEF Inserting
<1>3. CASE Found(request[q].pc, request[q].form) = {}
  <2>1. request' = [request EXCEPT ![q] = r]
    BY <1>3 DEF Check, GoTo
  <2>2. r \in Request /\ r.op = "signup" /\ r.form = request[q].form
        /\ r.pc = After(request[q].pc, request[q].form)
        /\ r.pc \in {"pendingName", "userEmail", "pendingEmail", "newId"}
    BY <1>1 DEF Request, After
  <2> HIDE DEF r
  <2>3. Holding(r) /\ ~Inserting(r) /\ ~Deciding(r)
    BY <1>1, <2>2 DEF Holding, Inserting, Deciding
  <2>4. ~overlapped => Seen(r)
    <3> SUFFICES ASSUME ~overlapped PROVE Seen(r)
      OBVIOUS
    <3>1. Seen(request[q])
      BY DEF IInv, Alone
    <3>2. CASE request[q].pc = "userName"
      BY <1>1, <1>3, <2>2, <2>3, <3>2 DEF Seen, After, Found
    <3>3. CASE request[q].pc = "pendingName"
      BY <1>1, <1>3, <2>2, <2>3, <3>1, <3>3 DEF Seen, After, Found
    <3>4. CASE request[q].pc = "userEmail"
      BY <1>1, <1>3, <2>2, <2>3, <3>1, <3>4 DEF Seen, After, Found
    <3>5. CASE request[q].pc = "pendingEmail"
      BY <1>1, <1>3, <2>2, <2>3, <3>1, <3>5 DEF Seen, After, Found
    <3>6. QED
      BY <1>1, <3>2, <3>3, <3>4, <3>5
  <2>5. request[q] # Idle
    BY <1>1 DEF Idle
  <2>6. QED
    BY <1>1, <1>2, <2>1, <2>2, <2>3, <2>4, <2>5, Moved
<1>4. CASE Found(request[q].pc, request[q].form) # {}
  BY <1>1, <1>2, <1>4, DoneStep DEF Check
<1>5. QED
  BY <1>3, <1>4

LEMMA CheckVerifiedStep == ASSUME IInv, NEW q \in Requests, CheckVerified(q) PROVE IInv'
<1> DEFINE r == [request[q] EXCEPT !.pc = "load"]
<1>1. /\ request[q] \in Request /\ Holding(request[q])
      /\ request[q].op \in {"approve", "reject"} /\ request[q].pc = "verified"
      /\ UNCHANGED <<ids, tables, overlapped, faults>>
      /\ faults' \in 0..MaxFaults /\ faults' >= faults /\ overlapped' \in BOOLEAN
  BY BoundsAssumption DEF IInv, TypeOK, Held, CheckVerified, At
<1>2. ~Inserting(request[q]) /\ request[q] # Idle
  BY <1>1 DEF Inserting, Idle
<1>3. CASE Done(q)
  BY <1>1, <1>2, <1>3, DoneStep
<1>4. CASE GoTo(q, "load")
  <2>1. request' = [request EXCEPT ![q] = r]
    BY <1>4 DEF GoTo
  <2>2. r \in Request /\ r.op = request[q].op /\ r.pc = "load"
    BY <1>1 DEF Request
  <2> HIDE DEF r
  <2>3. Holding(r) /\ Seen(r) /\ ~Inserting(r)
    BY <1>1, <2>2 DEF Holding, Seen, Inserting, Deciding
  <2>4. QED
    BY <1>1, <1>2, <2>1, <2>2, <2>3, Moved
<1>5. QED
  BY <1>3, <1>4 DEF CheckVerified

LEMMA LoadStep == ASSUME IInv, NEW q \in Requests, Load(q) PROVE IInv'
<1>1. /\ request[q] \in Request
      /\ request[q].op \in {"approve", "reject"} /\ request[q].pc = "load"
      /\ UNCHANGED <<ids, tables, overlapped, faults>>
      /\ faults' \in 0..MaxFaults /\ faults' >= faults /\ overlapped' \in BOOLEAN
  BY BoundsAssumption DEF IInv, TypeOK, Load, At
<1>2. ~Inserting(request[q]) /\ request[q] # Idle
  BY <1>1 DEF Inserting, Idle
<1>3. CASE Done(q)
  BY <1>1, <1>2, <1>3, DoneStep
<1>4. ASSUME NEW row \in Named(pending, request[q].form.name),
             request' = [request EXCEPT ![q].row = row, ![q].pc = "commit"]
      PROVE  IInv'
  <2> DEFINE r == [request[q] EXCEPT !.row = row, !.pc = "commit"]
  <2>1. row \in pending /\ row \in Row /\ HasRow(row.id)
    BY DEF Named, IInv, TypeOK, HasRow
  <2>2. request' = [request EXCEPT ![q] = r]
    BY <1>1, <1>4 DEF Request, IInv, TypeOK
  <2>3. r \in Request /\ r.op = request[q].op /\ r.pc = "commit" /\ r.row = row
    BY <1>1, <2>1 DEF Request
  <2> HIDE DEF r
  <2>4. Holding(r) /\ Seen(r) /\ ~Inserting(r)
    BY <1>1, <2>1, <2>3 DEF Holding, Seen, Inserting, Deciding
  <2>5. QED
    BY <1>1, <1>2, <2>2, <2>3, <2>4, Moved
<1>5. QED
  BY <1>3, <1>4 DEF Load

LEMMA NewIdStep == ASSUME IInv, NEW q \in Requests, NewId(q) PROVE IInv'
<1> DEFINE r == [request[q] EXCEPT !.id = ids + 1, !.pc = "newPending"]
<1>1. /\ request[q] \in Request /\ Holding(request[q])
      /\ request[q].op = "signup" /\ request[q].pc = "newId"
      /\ ids \in Nat /\ ids' = ids + 1 /\ ids' \in 0..MaxIds
      /\ UNCHANGED <<pending, user, rejected, overlapped, faults>>
  BY BoundsAssumption DEF IInv, TypeOK, Held, NewId, At, tables
<1>2. r \in Request /\ r.op = "signup" /\ r.pc = "newPending" /\ r.id = ids + 1
      /\ r.form = request[q].form
  BY <1>1 DEF Request
<1>3. request' = [request EXCEPT ![q] = r]
  BY <1>1 DEF Request, NewId
<1> HIDE DEF r
<1>4. /\ request' \in [Requests -> Request]
      /\ request'[q] = r
      /\ \A p \in Requests \ {q} : request'[p] = request[p]
  BY <1>2, <1>3, Put DEF IInv, TypeOK
<1>5. ~HasRow(ids + 1) /\ \A i : HasRow(i)' <=> HasRow(i)
  <2>1. \A row \in pending \cup user \cup rejected : row.id \in Nat /\ row.id <= ids
    BY BoundsAssumption DEF IInv, TypeOK, Row, Ids
  <2>2. QED
    BY <1>1, <2>1 DEF HasRow
<1>6. TypeOK'
  <2>1. \A row \in pending \cup user \cup rejected : row.id <= ids + 1
    BY <1>1, BoundsAssumption DEF IInv, TypeOK, Row, Ids
  <2>2. QED
    BY <1>1, <1>4, <2>1 DEF IInv, TypeOK
<1>7. Held'
  <2>1. ASSUME NEW p \in Requests \ {q} PROVE Holding(request[p])'
    <3>1. Holding(request[p]) /\ request'[p] = request[p]
      BY <1>4 DEF IInv, Held
    <3>2. QED
      BY <1>1, <1>5, <3>1 DEF Holding, Inserting, Deciding
  <2>2. Holding(request[q])'
    BY <1>1, <1>2, <1>4, <1>5 DEF Holding, Inserting, Deciding
  <2>3. QED
    BY <2>1, <2>2 DEF Held
<1>8. OwnIds'
  <2>1. \A p \in Requests \ {q} : Inserting(request[p]) => request[p].id <= ids
    BY <1>1 DEF IInv, Held, Holding
  <2>2. QED
    BY <1>1, <1>2, <1>4, <2>1 DEF IInv, OwnIds
<1>9. PendingOnce'
  BY <1>1 DEF IInv, PendingOnce
<1>10. overlapped' \/ Alone'
  <2> SUFFICES ASSUME ~overlapped PROVE Alone'
    BY <1>1
  <2>1. Alone /\ request[q] # Idle
    BY <1>1 DEF IInv, Idle
  <2>2. Seen(r)
    BY <1>1, <1>2, <2>1 DEF Alone, Seen, Deciding
  <2>3. \A s : Seen(s) <=> Seen(s)'
    BY <1>1 DEF Seen
  <2>4. QED
    BY <1>1, <1>4, <2>1, <2>2, <2>3 DEF Alone
<1>11. overlapped' \/ faults' > 0 \/ Accounted'
  <2> SUFFICES ASSUME Accounted PROVE Accounted'
    BY <1>1 DEF IInv
  <2>1. ~Inserting(request[q]) /\ Inserting(r)
    BY <1>1, <1>2 DEF Inserting
  <2>2. QED
    BY <1>1, <1>2, <1>4, <1>5, <2>1 DEF Accounted
<1>12. QED
  BY <1>6, <1>7, <1>8, <1>9, <1>10, <1>11 DEF IInv

\* A request ends with a commit that may have changed the tables.
LEMMA Settles ==
  ASSUME IInv, NEW q \in Requests, request[q] # Idle, Done(q),
         UNCHANGED <<ids, overlapped, faults>>,
         pending' \subseteq Row, user' \subseteq Row, rejected' \subseteq Row,
         \A i : HasRow(i) => HasRow(i)',
         \A i : HasRow(i)' => HasRow(i) \/ (Inserting(request[q]) /\ i = request[q].id),
         PendingOnce',
         ~overlapped =>
           /\ \A r \in user', s \in rejected' : r.id # s.id
           /\ \A r \in pending', s \in user' : r.name # s.name
           /\ Inserting(request[q]) =>
                \E row \in pending' \cup user' \cup rejected' : row.id = request[q].id
  PROVE  IInv'
<1>1. /\ request' \in [Requests -> Request]
      /\ request'[q] = Idle
      /\ \A p \in Requests \ {q} : request'[p] = request[p]
  BY Put, IdleType DEF IInv, TypeOK, Done
<1>2. Held
  BY DEF IInv
<1>3. \A i : HasRow(i)' => i <= ids
  BY <1>2 DEF IInv, TypeOK, HasRow, Held, Holding
<1>4. TypeOK'
  <2>1. \A r \in pending' \cup user' \cup rejected' : r.id <= ids
    BY <1>3 DEF HasRow
  <2>2. QED
    BY <1>1, <2>1 DEF IInv, TypeOK
<1>5. Held'
  <2>1. ASSUME NEW p \in Requests \ {q} PROVE Holding(request[p])'
    <3>1. Holding(request[p]) /\ request'[p] = request[p]
      BY <1>1, <1>2 DEF Held
    <3>2. Inserting(request[p]) /\ Inserting(request[q]) => request[p].id # request[q].id
      BY DEF IInv, OwnIds
    <3>3. Inserting(request[p]) => ~HasRow(request[p].id)'
      BY <3>1, <3>2 DEF Holding
    <3>4. QED
      BY <3>1, <3>3 DEF Holding, Inserting, Deciding
  <2>2. Holding(request[q])'
    BY <1>1 DEF Holding, Inserting, Deciding, Idle
  <2>3. QED
    BY <2>1, <2>2 DEF Held
<1>6. OwnIds'
  BY <1>1, IdleType DEF IInv, OwnIds
<1>7. overlapped' \/ Alone'
  <2> SUFFICES ASSUME ~overlapped PROVE Alone'
    OBVIOUS
  <2>1. \A p \in Requests : request'[p] = Idle
    BY <1>1 DEF IInv, Alone
  <2>2. \A p \in Requests : Seen(request[p])'
    BY <2>1 DEF Seen, Idle, Deciding
  <2>3. QED
    BY <2>1, <2>2 DEF Alone
<1>8. overlapped' \/ faults' > 0 \/ Accounted'
  <2> SUFFICES ASSUME ~overlapped, Accounted PROVE Accounted'
    BY DEF IInv
  <2>1. \A p \in Requests \ {q} : request[p] = Idle
    BY DEF IInv, Alone
  <2>2. \A p \in Requests : Inserting(request[p]) => p = q
    BY <2>1, IdleType
  <2>3. ASSUME NEW i \in 1..ids PROVE HasRow(i)'
    <3>1. HasRow(i) \/ (Inserting(request[q]) /\ request[q].id = i)
      BY <2>2 DEF Accounted
    <3>2. QED
      BY <3>1 DEF HasRow
  <2>4. QED
    BY <2>3 DEF Accounted
<1>9. QED
  BY <1>4, <1>5, <1>6, <1>7, <1>8 DEF IInv

LEMMA NewPendingStep == ASSUME IInv, NEW q \in Requests, NewPending(q) PROVE IInv'
<1> DEFINE row == [id |-> request[q].id, name |-> request[q].form.name,
                   email |-> request[q].form.email]
<1>1. /\ Holding(request[q]) /\ Inserting(request[q]) /\ Done(q)
      /\ UNCHANGED <<ids, user, rejected, overlapped, faults>>
      /\ pending' = (IF Refuses(pending, row) THEN pending ELSE pending \cup {row})
  BY DEF IInv, Held, NewPending, Inserting, At
<1>2. request[q] # Idle
  BY <1>1, IdleType
<1>3. row \in Row /\ row.id = request[q].id /\ ~HasRow(row.id)
  BY <1>1, BoundsAssumption DEF IInv, TypeOK, Holding, Inserting, Form, Row, Ids
<1>4. PendingOnce /\ pending \subseteq Row /\ user \subseteq Row /\ rejected \subseteq Row
  BY DEF IInv, TypeOK
<1>5. ASSUME Refuses(pending, row) PROVE overlapped
  <2> SUFFICES ASSUME ~overlapped PROVE FALSE
    OBVIOUS
  <2>1. Seen(request[q])
    BY DEF IInv, Alone
  <2>2. PICK r \in pending : r.id = row.id \/ r.name = row.name
                             \/ (row.email # None /\ r.email = row.email)
    BY <1>5 DEF Refuses
  <2>3. r.id # row.id
    BY <1>3 DEF HasRow
  <2>4. r.name # row.name
    BY <1>1, <2>1 DEF Seen, Inserting, Named
  <2>5. row.email # None => r.email # row.email
    BY <1>1, <2>1 DEF Seen, Inserting, Mailed
  <2>6. QED
    BY <2>2, <2>3, <2>4, <2>5
<1>6. ~overlapped =>
        /\ \A r \in user, s \in rejected : r.id # s.id
        /\ \A r \in pending, s \in user : r.name # s.name
        /\ \A s \in user : row.name # s.name
  <2>1. ~overlapped => Alone /\ Seen(request[q])
    BY DEF IInv, Alone
  <2>2. QED
    BY <1>1, <2>1 DEF Alone, Seen, Inserting, Named
<1>7. CASE Refuses(pending, row)
  <2>1. UNCHANGED <<pending, user, rejected>>
    BY <1>1, <1>7
  <2>2. PendingOnce' /\ \A i : HasRow(i) <=> HasRow(i)'
    BY <1>4, <2>1 DEF PendingOnce, HasRow
  <2>3. QED
    BY <1>1, <1>2, <1>4, <1>5, <1>7, <2>1, <2>2, Settles
<1>8. CASE ~Refuses(pending, row)
  <2>1. pending' = pending \cup {row} /\ pending' \subseteq Row
    BY <1>1, <1>3, <1>4, <1>8
  <2>2. \A r \in pending : r.id # row.id /\ r.name # row.name
    BY <1>8 DEF Refuses
  <2>3. \A s \in user \cup rejected : s.id # row.id
    BY <1>3 DEF HasRow
  <2> HIDE DEF row
  <2>4. PendingOnce'
    BY <1>1, <1>4, <2>1, <2>2, <2>3 DEF PendingOnce
  <2>5. /\ \A i : HasRow(i) => HasRow(i)'
        /\ \A i : HasRow(i)' => HasRow(i) \/ i = request[q].id
        /\ \E r \in pending' \cup user' \cup rejected' : r.id = request[q].id
    BY <1>1, <1>3, <2>1 DEF HasRow
  <2>6. ~overlapped =>
          /\ \A r \in user', s \in rejected' : r.id # s.id
          /\ \A r \in pending', s \in user' : r.name # s.name
    BY <1>1, <1>6, <2>1
  <2>7. QED
    BY <1>1, <1>2, <1>4, <2>1, <2>4, <2>5, <2>6, Settles
<1>9. QED
  BY <1>7, <1>8

\* What a decision finds, and what is left of the pending rows.
LEMMA Decision ==
  ASSUME IInv, NEW q \in Requests, Deciding(request[q])
  PROVE  /\ request[q] # Idle /\ ~Inserting(request[q])
         /\ request[q].row \in Row /\ HasRow(request[q].row.id)
         /\ PendingOnce /\ pending \subseteq Row /\ user \subseteq Row /\ rejected \subseteq Row
         /\ ~overlapped =>
              /\ request[q].row \in pending
              /\ \A r \in user, s \in rejected : r.id # s.id
              /\ \A r \in pending, s \in user : r.name # s.name
<1>1. Holding(request[q])
  BY DEF IInv, Held
<1>2. ~overlapped => Alone
  BY DEF IInv
<1>3. request[q] # Idle /\ ~Inserting(request[q])
  BY DEF Deciding, Inserting, Idle
<1>4. QED
  BY <1>1, <1>2, <1>3 DEF IInv, TypeOK, Holding, Alone, Seen

LEMMA ApproveStep == ASSUME IInv, NEW q \in Requests, Approve(q) PROVE IInv'
<1> DEFINE row == request[q].row
<1>1. Deciding(request[q]) /\ Done(q) /\ UNCHANGED <<ids, rejected, overlapped, faults>>
  BY DEF Approve, At, Deciding
<1>2. CASE UNCHANGED <<pending, user>>
  <2>1. PendingOnce' /\ \A i : HasRow(i) <=> HasRow(i)'
    BY <1>1, <1>2, Decision DEF PendingOnce, HasRow
  <2>2. QED
    BY <1>1, <1>2, <2>1, Decision, Settles
<1>3. CASE user' = user \cup {row} /\ pending' = {r \in pending : r.id # row.id}
  <2>1. pending' \subseteq Row /\ user' \subseteq Row /\ rejected' \subseteq Row
    BY <1>1, <1>3, Decision
  <2>2. \A i : HasRow(i) <=> HasRow(i)'
    BY <1>1, <1>3, Decision DEF HasRow
  <2>3. PendingOnce'
    BY <1>1, <1>3, Decision DEF PendingOnce
  <2>4. ~overlapped =>
          /\ \A r \in user', s \in rejected' : r.id # s.id
          /\ \A r \in pending', s \in user' : r.name # s.name
    BY <1>1, <1>3, Decision DEF PendingOnce
  <2>5. QED
    BY <1>1, <2>1, <2>2, <2>3, <2>4, Decision, Settles
<1>4. QED
  BY <1>2, <1>3 DEF Approve

LEMMA RejectStep == ASSUME IInv, NEW q \in Requests, Reject(q) PROVE IInv'
<1> DEFINE row == request[q].row
<1>1. Deciding(request[q]) /\ Done(q) /\ UNCHANGED <<ids, user, overlapped, faults>>
  BY DEF Reject, At, Deciding
<1>2. CASE UNCHANGED <<pending, rejected>>
  <2>1. PendingOnce' /\ \A i : HasRow(i) <=> HasRow(i)'
    BY <1>1, <1>2, Decision DEF PendingOnce, HasRow
  <2>2. QED
    BY <1>1, <1>2, <2>1, Decision, Settles
<1>3. CASE rejected' = rejected \cup {row} /\ pending' = {r \in pending : r.id # row.id}
  <2>1. pending' \subseteq Row /\ user' \subseteq Row /\ rejected' \subseteq Row
    BY <1>1, <1>3, Decision
  <2>2. \A i : HasRow(i) <=> HasRow(i)'
    BY <1>1, <1>3, Decision DEF HasRow
  <2>3. PendingOnce'
    BY <1>1, <1>3, Decision DEF PendingOnce
  <2>4. ~overlapped =>
          /\ \A r \in user', s \in rejected' : r.id # s.id
          /\ \A r \in pending', s \in user' : r.name # s.name
    BY <1>1, <1>3, Decision DEF PendingOnce
  <2>5. QED
    BY <1>1, <2>1, <2>2, <2>3, <2>4, Decision, Settles
<1>4. QED
  BY <1>2, <1>3 DEF Reject

LEMMA DbErrorStep == ASSUME IInv, NEW q \in Requests, DbError(q) PROVE IInv'
<1>1. faults' \in 0..MaxFaults /\ faults' >= faults /\ faults' > 0
  BY BoundsAssumption DEF IInv, TypeOK, DbError
<1>2. QED
  BY <1>1, DoneStep DEF DbError

LEMMA CrashStep == ASSUME IInv, Crash PROVE IInv'
<1>1. /\ faults' \in 0..MaxFaults /\ faults' > 0 /\ UNCHANGED <<ids, tables, overlapped>>
      /\ \A q \in Requests : request'[q] = Idle
      /\ request' \in [Requests -> Request]
  BY BoundsAssumption, IdleType DEF IInv, TypeOK, Crash
<1>2. TypeOK'
  BY <1>1 DEF IInv, TypeOK, tables
<1>3. Held' /\ OwnIds'
  BY <1>1, IdleType DEF Held, OwnIds, Holding, Inserting, Deciding, Idle
<1>4. PendingOnce'
  BY <1>1 DEF IInv, PendingOnce, tables
<1>5. overlapped' \/ Alone'
  <2>1. \A q \in Requests : Seen(request[q])'
    BY <1>1 DEF Seen, Deciding, Idle
  <2>2. QED
    BY <1>1, <2>1 DEF IInv, Alone, tables
<1>6. QED
  BY <1>1, <1>2, <1>3, <1>4, <1>5 DEF IInv

LEMMA StutterStep == ASSUME IInv, UNCHANGED vars PROVE IInv'
<1>1. \A s : (Holding(s) <=> Holding(s)') /\ (Seen(s) <=> Seen(s)')
  BY DEF Holding, Seen, HasRow, vars, tables, Inserting, Deciding
<1>2. QED
  BY <1>1 DEF IInv, TypeOK, Held, OwnIds, PendingOnce, Alone, Accounted, HasRow, vars, tables

LEMMA NextInv == IInv /\ [Next]_vars => IInv'
<1> SUFFICES ASSUME IInv, [Next]_vars PROVE IInv'
  OBVIOUS
<1>1. CASE UNCHANGED vars
  BY <1>1, StutterStep
<1>2. ASSUME NEW q \in Requests, NEW form \in Form, StartSignup(q, form) PROVE IInv'
  BY <1>2, StartStep DEF StartSignup
<1>3. ASSUME NEW q \in Requests, NEW op \in {"approve", "reject"}, NEW n \in Names,
             StartDecision(q, op, n)
      PROVE  IInv'
  <2>1. [name |-> n, email |-> None] \in Form
    BY DEF Form
  <2>2. QED
    BY <1>3, <2>1, StartStep DEF StartDecision
<1>4. ASSUME NEW q \in Requests, Step(q) PROVE IInv'
  BY <1>4, CheckStep, NewIdStep, NewPendingStep, CheckVerifiedStep, LoadStep, ApproveStep,
     RejectStep DEF Step
<1>5. ASSUME NEW q \in Requests, DbError(q) PROVE IInv'
  BY <1>5, DbErrorStep
<1>6. CASE Crash
  BY <1>6, CrashStep
<1>7. QED
  BY <1>1, <1>2, <1>3, <1>4, <1>5, <1>6 DEF Next

-----------------------------------------------------------------------------
\* The four tables and what requests hold keep to their types.
THEOREM TypeCorrect == Spec => []TypeOK
<1>1. IInv => TypeOK
  BY DEF IInv
<1>2. QED
  BY <1>1, InitInv, NextInv, PTL DEF Spec

\* As long as no two requests are in flight at once, no account is both
\* approved and rejected, whatever fails.
THEOREM OneVerdict == Spec => []DecidedOnce
<1>1. IInv => DecidedOnce
  BY DEF IInv, Alone, DecidedOnce, IdsOf
<1>2. QED
  BY <1>1, InitInv, NextInv, PTL DEF Spec

\* As long as no two requests are in flight at once, no pending account has the
\* name of a user.
THEOREM OneName == Spec => []NameTakenOnce
<1>1. IInv => NameTakenOnce
  BY DEF IInv, Alone, NameTakenOnce
<1>2. QED
  BY <1>1, InitInv, NextInv, PTL DEF Spec

\* Without overlap and faults no user_id row is left without an account.
THEOREM NoIdWithoutAccount == Spec => []EveryIdHasAccount
<1>1. ASSUME IInv PROVE EveryIdHasAccount
  <2> SUFFICES ASSUME \A q \in Requests : request[q] = Idle, ~overlapped, ~(faults > 0),
                      NEW i \in 1..ids
               PROVE  i \in IdsOf(pending) \cup IdsOf(user) \cup IdsOf(rejected)
    BY DEF EveryIdHasAccount
  <2>1. HasRow(i)
    BY <1>1, IdleType DEF IInv, Accounted
  <2>2. QED
    BY <2>1 DEF HasRow, IdsOf
<1>2. QED
  BY <1>1, InitInv, NextInv, PTL DEF Spec

-----------------------------------------------------------------------------
(* Accounts implements AccountLife                                         *)

In(t) == IF t = "pending" THEN pending ELSE IF t = "user" THEN user ELSE rejected
Where == [i \in Ids |-> {t \in {"pending", "user", "rejected"} : i \in IdsOf(In(t))}]

\* A step that moves one account's row.
LEMMA OneMoves ==
  ASSUME NEW i \in Ids,
         \A j \in Ids \ {i}, t \in {"pending", "user", "rejected"} :
           j \in IdsOf(In(t)) <=> j \in IdsOf(In(t))'
  PROVE  Where' = [Where EXCEPT ![i] =
           {t \in {"pending", "user", "rejected"} : i \in IdsOf(In(t))'}]
BY DEF Where

LEMMA NoneMoves == ASSUME UNCHANGED tables PROVE UNCHANGED Where
BY DEF tables, Where, In, IdsOf

LEMMA RegisterMaps ==
  ASSUME IInv, NEW q \in Requests, NewPending(q) PROVE Life!Next \/ UNCHANGED Where
<1> DEFINE row == [id |-> request[q].id, name |-> request[q].form.name,
                   email |-> request[q].form.email]
<1> DEFINE i == request[q].id
<1>1. /\ Holding(request[q]) /\ Inserting(request[q]) /\ UNCHANGED <<user, rejected>>
      /\ pending' = (IF Refuses(pending, row) THEN pending ELSE pending \cup {row})
  BY DEF IInv, Held, NewPending, Inserting, At
<1>2. i \in Ids /\ ~HasRow(i)
  BY <1>1, BoundsAssumption DEF IInv, TypeOK, Holding, Ids
<1>3. CASE pending' = pending
  <2>1. UNCHANGED tables
    BY <1>1, <1>3 DEF tables
  <2>2. QED
    BY <2>1, NoneMoves
<1>4. CASE pending' = pending \cup {row}
  <2>1. row.id = i
    OBVIOUS
  <2> HIDE DEF row, i
  <2>2. \A t \in {"pending", "user", "rejected"} : i \notin IdsOf(In(t))
    BY <1>2 DEF HasRow, IdsOf, In
  <2>3. IdsOf(pending)' = IdsOf(pending) \cup {i}
    BY <1>4, <2>1 DEF IdsOf
  <2>4. IdsOf(In("user"))' = IdsOf(In("user")) /\ IdsOf(In("rejected"))' = IdsOf(In("rejected"))
        /\ IdsOf(In("pending"))' = IdsOf(In("pending")) \cup {i}
    BY <1>1, <2>3 DEF In, IdsOf
  <2>5. PICK k \in Ids : k = i
    BY <1>2
  <2>6. {t \in {"pending", "user", "rejected"} : k \in IdsOf(In(t))'} = {"pending"}
    BY <2>2, <2>4, <2>5
  <2>7. Where' = [Where EXCEPT ![k] = {"pending"}]
    BY <2>4, <2>5, <2>6, OneMoves
  <2>8. Where[k] = {}
    BY <2>2, <2>5 DEF Where
  <2>9. Life!Register(k)
    BY <2>7, <2>8 DEF Life!Register, Where, In
  <2>10. QED
    BY <2>9 DEF Life!Next
<1>5. QED
  BY <1>1, <1>3, <1>4

\* A verdict: the account has a row and none in the table it comes to.
LEMMA VerdictMaps ==
  ASSUME IInv, NEW q \in Requests, Deciding(request[q]), NEW v \in {"user", "rejected"},
         \A r \in In(v) : r.id # request[q].row.id,
         In(v)' = In(v) \cup {request[q].row},
         \A t \in {"user", "rejected"} \ {v} : In(t)' = In(t),
         pending' = {r \in pending : r.id # request[q].row.id}
  PROVE  Life!Next
<1>1. request[q].row \in Row /\ HasRow(request[q].row.id)
  BY Decision
<1>2. PICK i \in Ids : i = request[q].row.id
  BY <1>1 DEF Row
<1>3. i \notin IdsOf(In(v)) /\ \E t \in {"pending", "user", "rejected"} : i \in IdsOf(In(t))
  BY <1>1, <1>2 DEF HasRow, IdsOf, In
<1>4. /\ IdsOf(In(v))' = IdsOf(In(v)) \cup {i}
      /\ \A t \in {"user", "rejected"} \ {v} : IdsOf(In(t))' = IdsOf(In(t))
      /\ IdsOf(In("pending"))' = IdsOf(In("pending")) \ {i}
  BY <1>2 DEF IdsOf, In
<1>5. {t \in {"pending", "user", "rejected"} : i \in IdsOf(In(t))'}
      = ({t \in {"pending", "user", "rejected"} : i \in IdsOf(In(t))} \ {"pending"}) \cup {v}
  BY <1>4
<1>6. Where[i] = {t \in {"pending", "user", "rejected"} : i \in IdsOf(In(t))}
  BY DEF Where
<1>7. Where' = [Where EXCEPT ![i] = (@ \ {"pending"}) \cup {v}]
  BY <1>4, <1>5, <1>6, OneMoves
<1>8. Where[i] # {} /\ v \notin Where[i]
  BY <1>3, <1>6
<1>9. Life!Decide(i, v)
  BY <1>7, <1>8 DEF Life!Decide, Where, In
<1>10. QED
  BY <1>9 DEF Life!Next

LEMMA StepMaps == ASSUME IInv, [Next]_vars PROVE Life!Next \/ UNCHANGED Where
<1>1. CASE UNCHANGED tables
  BY <1>1, NoneMoves
<1>2. ASSUME NEW q \in Requests, Approve(q) PROVE Life!Next \/ UNCHANGED Where
  <2>1. Deciding(request[q])
    BY <1>2 DEF Approve, At, Deciding
  <2>2. CASE UNCHANGED tables
    BY <2>2, NoneMoves
  <2>3. CASE ~Refuses(user, request[q].row)
    <3>1. \A r \in In("user") : r.id # request[q].row.id
      BY <2>3 DEF Refuses, In
    <3>2. /\ In("user")' = In("user") \cup {request[q].row}
          /\ In("rejected")' = In("rejected")
          /\ pending' = {r \in pending : r.id # request[q].row.id}
      BY <1>2, <2>3 DEF Approve, In
    <3>3. QED
      BY <2>1, <3>1, <3>2, VerdictMaps
  <2>4. QED
    BY <1>2, <2>2, <2>3 DEF Approve, tables
<1>3. ASSUME NEW q \in Requests, Reject(q) PROVE Life!Next \/ UNCHANGED Where
  <2>1. Deciding(request[q])
    BY <1>3 DEF Reject, At, Deciding
  <2>2. CASE UNCHANGED tables
    BY <2>2, NoneMoves
  <2>3. CASE ~Refuses(rejected, request[q].row)
    <3>1. \A r \in In("rejected") : r.id # request[q].row.id
      BY <2>3 DEF Refuses, In
    <3>2. /\ In("rejected")' = In("rejected") \cup {request[q].row}
          /\ In("user")' = In("user")
          /\ pending' = {r \in pending : r.id # request[q].row.id}
      BY <1>3, <2>3 DEF Reject, In
    <3>3. QED
      BY <2>1, <3>1, <3>2, VerdictMaps
  <2>4. QED
    BY <1>3, <2>2, <2>3 DEF Reject, tables
<1>4. ASSUME NEW q \in Requests, NewPending(q) PROVE Life!Next \/ UNCHANGED Where
  BY <1>4, RegisterMaps
<1>5. CASE Next
  BY <1>1, <1>2, <1>3, <1>4, <1>5
     DEF Next, Step, StartSignup, StartDecision, Check, NewId, CheckVerified, Load, DbError,
         Crash
<1>6. QED
  BY <1>1, <1>5 DEF vars

\* Each account is pending once and never again after its first verdict, and no
\* verdict is taken back, for any number of requests that overlap or fail.
THEOREM ImplementsLife == Spec => LivesOnce
<1>1. Init => Life!Init
  BY DEF Init, Life!Init, IdsOf
<1>2. IInv /\ [Next]_vars => [Life!Next]_Where
  BY StepMaps
<1>3. QED
  BY <1>1, <1>2, InitInv, NextInv, PTL DEF Spec, LivesOnce, Life!Spec, Where, In
=============================================================================
