----------------------------- MODULE RoleCache ------------------------------
(***************************************************************************)
(* The role of one verified user: its row in Postgres and its copy in      *)
(* Redis under user:<username>, which every role check reads first.        *)
(*                                                                         *)
(* Four kinds of request touch the copy:                                   *)
(*   resolve  RoleChecker._resolve_role, backend/src/auth/dependencies.py  *)
(*   strict   is_user_admin and is_verified_user of admin/service.py and   *)
(*            is_valid_user_token of auth/service.py, which have the same  *)
(*            steps and let an error of Redis through                      *)
(*   login    login_user of auth/auth_routes.py                            *)
(*   update   update_user_role of admin/admin_routes.py, which runs        *)
(*            is_verified_user first                                       *)
(* Each await is a step of its own.                                        *)
(***************************************************************************)
EXTENDS Integers

CONSTANTS
  Roles,           \* the values of MemberRoleEnum
  Requests,        \* requests in flight at once
  None,            \* no role
  Garbage,         \* a value that is no role
  Faults,          \* the faults that may happen
  MaxFaults        \* bound: faults in a behaviour

FaultKinds == {"redisError", "crash", "redisLoss", "corruption"}

ASSUME RolesAssumption == None \notin Roles /\ Garbage \notin Roles /\ None # Garbage
ASSUME FaultsAssumption ==
  /\ Faults \subseteq FaultKinds /\ MaxFaults \in Nat

VARIABLES
  role,        \* user.role in Postgres
  cache,       \* user:<username> in Redis
  request,     \* where each request is and what it holds
  answer,      \* the last role a role check went by, and those it could go by
  disturbed,   \* history: has no update run through undisturbed since one did not?
  faults       \* faults so far

vars == <<role, cache, request, answer, disturbed, faults>>

Idle == [op |-> "idle", pc |-> "done", val |-> None, want |-> None, old |-> None, may |-> {},
         clean |-> FALSE]

Request ==
  [op : {"idle", "resolve", "strict", "login", "update"},
   pc : {"done", "get", "evict", "select", "fill", "load", "commit", "refresh", "publish"},
   val : Roles \cup {None},     \* the role read from Postgres
   want : Roles \cup {None},    \* the role an update sets
   old : Roles \cup {None},     \* the role an update loaded, then the one it replaced
   may : SUBSET Roles,          \* the roles held since the request began
   clean : BOOLEAN]             \* history: nothing has come across the update

TypeOK ==
  /\ role \in Roles
  /\ cache \in Roles \cup {None, Garbage}
  /\ request \in [Requests -> Request]
  /\ answer \in [role : Roles, may : SUBSET Roles, excused : BOOLEAN]
  /\ disturbed \in BOOLEAN
  /\ faults \in 0..MaxFaults

Init ==
  /\ role \in Roles
  /\ cache \in {role, None}
  /\ request = [q \in Requests |-> Idle]
  /\ answer = [role |-> role, may |-> {role}, excused |-> FALSE]
  /\ disturbed = FALSE
  /\ faults = 0

\* The updates that changed the row and did not answer yet.
Changing == {q \in Requests : request[q].pc \in {"refresh", "publish"}}

Start(q, op, want) ==
  /\ request[q] = Idle
  /\ request' = [request EXCEPT ![q] =
       [Idle EXCEPT !.op = op, !.want = want,
                    !.pc = IF op = "login" THEN "select" ELSE "get",
                    !.may = {role} \cup {request[p].old : p \in Changing}]]
  /\ UNCHANGED <<role, cache, answer, disturbed, faults>>

GoTo(q, pc) == request' = [request EXCEPT ![q].pc = pc]

\* The role is known.  An update goes on to the row; the others are done.
Known(q, r) ==
  /\ request' = [request EXCEPT ![q] =
       IF request[q].op = "update" THEN [request[q] EXCEPT !.pc = "load"] ELSE Idle]
  /\ answer' = IF request[q].op = "resolve"
               THEN [role |-> r, may |-> request[q].may, excused |-> disturbed]
               ELSE answer

\* What a miss leads to: a login holds the row already.
Miss(q) == GoTo(q, IF request[q].op = "login" THEN "fill" ELSE "select") /\ UNCHANGED answer

\* get_user
Get(q) ==
  /\ request[q].pc = "get"
  /\ \/ cache \in Roles /\ Known(q, cache)
     \/ cache = None /\ Miss(q)
     \/ cache = Garbage /\ GoTo(q, "evict") /\ UNCHANGED answer
  /\ UNCHANGED <<role, cache, disturbed, faults>>

\* get_user deletes an entry that is no role, whatever it is by now.
Evict(q) ==
  /\ request[q].pc = "evict"
  /\ cache' = None
  /\ Miss(q)
  /\ UNCHANGED <<role, disturbed, faults>>

\* The SELECT on user.  A login makes it before it asks Redis.
Select(q) ==
  /\ request[q].pc = "select"
  /\ request' = [request EXCEPT ![q].val = role,
                                ![q].pc = IF request[q].op = "login" THEN "get" ELSE "fill"]
  /\ UNCHANGED <<role, cache, answer, disturbed, faults>>

\* add_registered_user after a miss.
Fill(q) ==
  /\ request[q].pc = "fill"
  /\ cache' = request[q].val
  /\ Known(q, request[q].val)
  /\ UNCHANGED <<role, disturbed, faults>>

\* update_user_role loads the row ...
Load(q) ==
  /\ request[q].pc = "load"
  /\ request' = [request EXCEPT ![q].old = role, ![q].pc = "commit"]
  /\ UNCHANGED <<role, cache, answer, disturbed, faults>>

\* A request that has read the row and is about to write the copy.
Fills(p) ==
  \/ request[p].pc = "fill"
  \/ request[p].op = "login" /\ request[p].val # None

\* ... commits, writing the column only if it differs from what was loaded ...
Commit(q) ==
  LET clean == \A p \in Requests \ {q} : p \notin Changing /\ ~Fills(p) IN
  /\ request[q].pc = "commit"
  /\ role' = IF request[q].want = request[q].old THEN role ELSE request[q].want
  /\ request' = [p \in Requests |->
       IF p = q THEN [request[q] EXCEPT !.pc = "refresh", !.old = role, !.clean = clean]
       ELSE IF request[p] = Idle THEN Idle
       ELSE [request[p] EXCEPT !.may = @ \cup {role'}, !.clean = FALSE]]
  /\ disturbed' = (disturbed \/ ~clean)
  /\ UNCHANGED <<cache, answer, faults>>

\* ... reads the row again ...
Refresh(q) ==
  /\ request[q].pc = "refresh"
  /\ request' = [request EXCEPT ![q].val = role, ![q].pc = "publish"]
  /\ UNCHANGED <<role, cache, answer, disturbed, faults>>

\* Mutant of Publish: the new role is not written to Redis.
PublishNothing(q) ==
  /\ request[q].pc = "publish"
  /\ request' = [request EXCEPT ![q] = Idle]
  /\ disturbed' = (disturbed /\ ~request[q].clean)
  /\ UNCHANGED <<role, cache, answer, faults>>

\* Mutant of Publish: the role from before the commit is written.
PublishOld(q) ==
  /\ request[q].pc = "publish"
  /\ cache' = request[q].old
  /\ request' = [request EXCEPT ![q] = Idle]
  /\ disturbed' = (disturbed /\ ~request[q].clean)
  /\ UNCHANGED <<role, answer, faults>>

\* ... and overwrites the copy.
Publish(q) ==
  /\ request[q].pc = "publish"
  /\ cache' = request[q].val
  /\ request' = [request EXCEPT ![q] = Idle]
  /\ disturbed' = (disturbed /\ ~request[q].clean)
  /\ UNCHANGED <<role, answer, faults>>

-----------------------------------------------------------------------------

Fault(kind) == kind \in Faults /\ faults < MaxFaults /\ faults' = faults + 1

\* The copy after the call a request waits for.
Written(r) ==
  IF r.pc = "evict" THEN None ELSE IF r.pc \in {"fill", "publish"} THEN r.val ELSE cache

\* A call of Redis raises, whether Redis carried it out or not.  A role check
\* goes to the row, or on without the copy; a login goes on without it; the
\* others fail.
RedisError(q) ==
  /\ Fault("redisError")
  /\ LET r == request[q] IN
     \/ /\ r.pc \in {"get", "evict"} /\ r.op = "resolve"
        /\ GoTo(q, "select")
        /\ UNCHANGED answer
     \/ /\ r.pc = "fill" /\ r.op = "resolve"
        /\ Known(q, r.val)
     \/ /\ r.pc \in {"get", "evict", "fill", "publish"} /\ r.op # "resolve"
        /\ request' = [request EXCEPT ![q] = Idle]
        /\ UNCHANGED answer
  /\ \E c \in {cache, Written(request[q])} : cache' = c
  /\ disturbed' = (disturbed \/ request[q].pc = "publish")
  /\ UNCHANGED role

\* The server stops: no request goes on.
Crash ==
  /\ Fault("crash")
  /\ \E q \in Requests : request[q] # Idle
  /\ request' = [q \in Requests |-> Idle]
  /\ disturbed' = (disturbed \/ Changing # {})
  /\ UNCHANGED <<role, cache, answer>>

\* Redis restarts empty, or evicts the key.
RedisLoss ==
  /\ Fault("redisLoss")
  /\ cache # None
  /\ cache' = None
  /\ UNCHANGED <<role, request, answer, disturbed>>

\* Something else writes the key.
Corruption ==
  /\ Fault("corruption")
  /\ cache # Garbage
  /\ cache' = Garbage
  /\ UNCHANGED <<role, request, answer, disturbed>>

Next ==
  \/ \E q \in Requests :
       \/ \E op \in {"resolve", "strict", "login"} : Start(q, op, None)
       \/ \E want \in Roles : Start(q, "update", want)
       \/ Get(q) \/ Evict(q) \/ Select(q) \/ Fill(q)
       \/ Load(q) \/ Commit(q) \/ Refresh(q) \/ Publish(q)
       \/ RedisError(q)
  \/ Crash \/ RedisLoss \/ Corruption

Spec == Init /\ [][Next]_vars

-----------------------------------------------------------------------------
(* Properties *)

\* admin/service.py:49: once an update has answered, role checks that begin
\* go by the new role; a check goes by a role held since it began, unless the
\* last update was disturbed.
AnswersAreCurrent == answer.excused \/ answer.role \in answer.may

\* With no update under way the copy, if it is a role, is the one in the row.
CacheSettles ==
  (\A q \in Requests : request[q].op # "update") => cache \in {role, None, Garbage}

\* An update that is cut short after its commit, that overlaps another, or that
\* commits between the read and the write of a fill, is the only way to a stale
\* copy, and the next update that none of this happens to repairs it.
StaleOnlyIfDisturbed == disturbed \/ CacheSettles
=============================================================================
