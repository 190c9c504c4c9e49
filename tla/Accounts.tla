------------------------------ MODULE Accounts ------------------------------
(***************************************************************************)
(* The accounts: the rows of user_id, pending_user, user and rejected_user.*)
(* Three kinds of request work on them:                                    *)
(*   signup   create_user of backend/src/auth/auth_routes.py               *)
(*   approve  approve_pending_user of admin/admin_routes.py                *)
(*   reject   reject_pending_user of admin/admin_routes.py                 *)
(* Each SELECT is a step that sees what is committed; the statements of    *)
(* one transaction take effect together when it commits, and the unique    *)
(* indexes of username and email refuse it then.                           *)
(***************************************************************************)
EXTENDS Integers, FiniteSets

CONSTANTS
  Names,       \* usernames
  Emails,      \* addresses
  None,        \* no address, no row
  Requests,    \* requests in flight at once
  MaxIds,      \* bound: rows of user_id
  Faults,      \* the faults that may happen
  MaxFaults    \* bound: faults in a behaviour

ASSUME BoundsAssumption == MaxIds \in Nat /\ MaxFaults \in Nat
ASSUME ModesAssumption == None \notin Emails /\ Faults \subseteq {"dbError", "crash"}

VARIABLES
  ids,         \* rows of user_id so far
  pending,     \* the rows of pending_user
  user,        \* the rows of user
  rejected,    \* the rows of rejected_user
  request,     \* where each request is and what it holds
  overlapped,  \* history: have two requests been in flight at once?
  faults       \* faults so far

tables == <<pending, user, rejected>>
vars == <<ids, tables, request, overlapped, faults>>

Ids == 1..MaxIds
Row == [id : Ids, name : Names, email : Emails \cup {None}]
Form == [name : Names, email : Emails \cup {None}]

Idle == [op |-> "idle", pc |-> "done", form |-> None, id |-> 0, row |-> None]

Request ==
  [op : {"idle", "signup", "approve", "reject"},
   pc : {"done", "userName", "pendingName", "userEmail", "pendingEmail", "newId",
         "newPending", "verified", "load", "commit"},
   form : Form \cup {None},   \* the account asked for; an admin gives a name only
   id : 0..MaxIds,            \* the user_id row a signup made
   row : Row \cup {None}]     \* the pending row an admin's request read

TypeOK ==
  /\ ids \in 0..MaxIds
  /\ pending \subseteq Row /\ user \subseteq Row /\ rejected \subseteq Row
  /\ \A r \in pending \cup user \cup rejected : r.id <= ids
  /\ request \in [Requests -> Request]
  /\ overlapped \in BOOLEAN
  /\ faults \in 0..MaxFaults

Init ==
  /\ ids = 0
  /\ pending = {} /\ user = {} /\ rejected = {}
  /\ request = [q \in Requests |-> Idle]
  /\ overlapped = FALSE /\ faults = 0

GoTo(q, pc) == request' = [request EXCEPT ![q].pc = pc]
Done(q) == request' = [request EXCEPT ![q] = Idle]
At(q, op, pc) == request[q].op \in op /\ request[q].pc = pc

Named(table, n) == {r \in table : r.name = n}
Mailed(table, e) == {r \in table : r.email = e}

\* A table refuses a row whose key, username or address it holds already.
Refuses(table, row) ==
  \E r \in table : \/ r.id = row.id \/ r.name = row.name
                   \/ row.email # None /\ r.email = row.email

-----------------------------------------------------------------------------
Started(q, r) ==
  /\ request[q] = Idle
  /\ request' = [request EXCEPT ![q] = r]
  /\ overlapped' = (overlapped \/ \E p \in Requests : request[p] # Idle)

StartSignup(q, form) ==
  /\ Started(q, [Idle EXCEPT !.op = "signup", !.pc = "userName", !.form = form])
  /\ UNCHANGED <<ids, tables, faults>>

StartDecision(q, op, n) ==
  /\ Started(q, [Idle EXCEPT !.op = op, !.pc = "verified",
                             !.form = [name |-> n, email |-> None]])
  /\ UNCHANGED <<ids, tables, faults>>

\* The next check after the one at pc; without an address two are left out.
After(pc, form) ==
  IF pc = "userName" THEN "pendingName"
  ELSE IF pc = "pendingName" THEN IF form.email = None THEN "newId" ELSE "userEmail"
  ELSE IF pc = "userEmail" THEN "pendingEmail"
  ELSE "newId"

\* What the check at pc finds.
Found(pc, form) ==
  IF pc = "userName" THEN Named(user, form.name)
  ELSE IF pc = "pendingName" THEN Named(pending, form.name)
  ELSE IF pc = "userEmail" THEN Mailed(user, form.email)
  ELSE Mailed(pending, form.email)

\* Mutant of Check: only pending accounts are looked at.
CheckPendingOnly(q) ==
  LET r == request[q] IN
  /\ r.op = "signup" /\ r.pc \in {"userName", "pendingName", "userEmail", "pendingEmail"}
  /\ IF r.pc \in {"userName", "userEmail"} \/ Found(r.pc, r.form) = {}
       THEN GoTo(q, After(r.pc, r.form)) ELSE Done(q)
  /\ UNCHANGED <<ids, tables, overlapped, faults>>

\* username_exists, then email_exists, each of which looks at user, then at
\* pending_user.  Whatever is found refuses the signup.
Check(q) ==
  LET r == request[q] IN
  /\ r.op = "signup" /\ r.pc \in {"userName", "pendingName", "userEmail", "pendingEmail"}
  /\ IF Found(r.pc, r.form) = {} THEN GoTo(q, After(r.pc, r.form)) ELSE Done(q)
  /\ UNCHANGED <<ids, tables, overlapped, faults>>

\* The user_id row is committed before the pending_user row is made.
NewId(q) ==
  /\ At(q, {"signup"}, "newId")
  /\ ids < MaxIds
  /\ ids' = ids + 1
  /\ request' = [request EXCEPT ![q].id = ids + 1, ![q].pc = "newPending"]
  /\ UNCHANGED <<tables, overlapped, faults>>

\* Mutant of NewPending: the account is not stored.
NewPendingForgotten(q) ==
  /\ At(q, {"signup"}, "newPending")
  /\ Done(q)
  /\ UNCHANGED <<ids, tables, overlapped, faults>>

NewPending(q) ==
  LET row == [id |-> request[q].id, name |-> request[q].form.name,
              email |-> request[q].form.email] IN
  /\ At(q, {"signup"}, "newPending")
  /\ pending' = IF Refuses(pending, row) THEN pending ELSE pending \cup {row}
  /\ Done(q)
  /\ UNCHANGED <<ids, user, rejected, overlapped, faults>>

\* is_verified_user: a verified user's account is not decided on.
CheckVerified(q) ==
  /\ At(q, {"approve", "reject"}, "verified")
  /\ IF Named(user, request[q].form.name) = {} THEN GoTo(q, "load") ELSE Done(q)
  /\ UNCHANGED <<ids, tables, overlapped, faults>>

\* get_pending_user_with_username
Load(q) ==
  /\ At(q, {"approve", "reject"}, "load")
  /\ \/ /\ Named(pending, request[q].form.name) = {}
        /\ Done(q)
     \/ \E r \in Named(pending, request[q].form.name) :
          request' = [request EXCEPT ![q].row = r, ![q].pc = "commit"]
  /\ UNCHANGED <<ids, tables, overlapped, faults>>

\* The DELETE may find no row: nothing looks at how many it deleted.
Approve(q) ==
  LET row == request[q].row IN
  /\ At(q, {"approve"}, "commit")
  /\ IF Refuses(user, row)
       THEN UNCHANGED <<pending, user>>
       ELSE user' = user \cup {row} /\ pending' = {r \in pending : r.id # row.id}
  /\ Done(q)
  /\ UNCHANGED <<ids, rejected, overlapped, faults>>

\* Mutant of Reject: the row is copied and not deleted.
RejectKeepsPending(q) ==
  LET row == request[q].row IN
  /\ At(q, {"reject"}, "commit")
  /\ rejected' = IF Refuses(rejected, row) THEN rejected ELSE rejected \cup {row}
  /\ Done(q)
  /\ UNCHANGED <<ids, pending, user, overlapped, faults>>

\* A DELETE of the session that finds no row is a warning.
Reject(q) ==
  LET row == request[q].row IN
  /\ At(q, {"reject"}, "commit")
  /\ IF Refuses(rejected, row)
       THEN UNCHANGED <<pending, rejected>>
       ELSE rejected' = rejected \cup {row} /\ pending' = {r \in pending : r.id # row.id}
  /\ Done(q)
  /\ UNCHANGED <<ids, user, overlapped, faults>>

-----------------------------------------------------------------------------
\* A statement or a commit raises, and the transaction is rolled back.
DbError(q) ==
  /\ "dbError" \in Faults /\ faults < MaxFaults /\ faults' = faults + 1
  /\ request[q] # Idle
  /\ Done(q)
  /\ UNCHANGED <<ids, tables, overlapped>>

\* The server restarts.
Crash ==
  /\ "crash" \in Faults /\ faults < MaxFaults /\ faults' = faults + 1
  /\ request' = [q \in Requests |-> Idle]
  /\ UNCHANGED <<ids, tables, overlapped>>

Step(q) ==
  \/ Check(q) \/ NewId(q) \/ NewPending(q)
  \/ CheckVerified(q) \/ Load(q) \/ Approve(q) \/ Reject(q)

Next ==
  \/ \E q \in Requests :
       \/ \E form \in Form : StartSignup(q, form)
       \/ \E op \in {"approve", "reject"}, n \in Names : StartDecision(q, op, n)
       \/ Step(q) \/ DbError(q)
  \/ Crash

Spec == Init /\ [][Next]_vars

-----------------------------------------------------------------------------
(* Properties                                                              *)

IdsOf(table) == {r.id : r \in table}

\* An account is approved or rejected, not both, admin_routes.py:61 and 81,
\* unless requests overlapped: two verdicts that read one row both commit.
DecidedOnce == overlapped \/ IdsOf(user) \cap IdsOf(rejected) = {}

\* "User with that username already exists", auth_routes.py:59: a name is not
\* given to a pending account while a user has it, unless an approval commits
\* between the two looks of a signup.
NameTakenOnce == overlapped \/ \A p \in pending, u \in user : p.name # u.name

\* A user_id row "is the ID of any account": while no signup runs, each belongs
\* to a row of another table, unless a signup failed after it made the first.
EveryIdHasAccount ==
  (\A q \in Requests : request[q] = Idle) =>
    \/ overlapped \/ faults > 0
    \/ \A i \in 1..ids : i \in IdsOf(pending) \cup IdsOf(user) \cup IdsOf(rejected)

\* "Copies the pending_user row to rejected_user, then deletes the pending_user
\* entry", admin/service.py:93: rejecting a pending account does that.
RejectSettles ==
  [][\A q \in Requests :
       At(q, {"reject"}, "commit") /\ request[q].row \in pending
         /\ request'[q] = Idle /\ faults' = faults
         => request[q].row \in rejected' \ pending']_vars

\* "deletes entry in corresponding pending_user table once a pending user is
\* verified", models.py:90.  Each account goes the way AccountLife says, however
\* requests overlap and whatever fails: it is pending once, and from its first
\* verdict on never again.
Life == INSTANCE AccountLife WITH
  tables <- [i \in Ids |-> {t \in {"pending", "user", "rejected"} :
               i \in IdsOf(IF t = "pending" THEN pending ELSE IF t = "user" THEN user
                           ELSE rejected)}]
LivesOnce == Life!Spec
=============================================================================
