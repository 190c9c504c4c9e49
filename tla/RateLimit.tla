----------------------------- MODULE RateLimit ------------------------------
(***************************************************************************)
(* The rate limiter of backend/src/rate_limit.py and check_rate_limit of   *)
(* backend/src/db/redis_client.py, for one caller and one route: one       *)
(* counter in Redis, rate:<identifier>:<route_key>.                        *)
(*                                                                         *)
(* INCR, EXPIRE and TTL are three calls, each awaited.  Time passes in     *)
(* ticks, of which a window has Window.  Choosing the identifier and the   *)
(* other headers are left out.                                             *)
(***************************************************************************)
EXTENDS Integers, FiniteSetsExt

CONSTANTS
  Requests,    \* requests in flight at once
  Limit,       \* "limit" of the route
  Window,      \* "window" of the route, in ticks
  MaxCount,    \* bound: value of the counter
  Faults,      \* the faults that may happen
  MaxFaults    \* bound: faults in a behaviour

ASSUME LimitAssumption == Limit \in Nat \ {0} /\ Window \in Nat \ {0} /\ MaxCount \in Nat
ASSUME FaultsAssumption ==
  Faults \subseteq {"redisError", "crash", "redisLoss"} /\ MaxFaults \in Nat

NoExpiry == -1     \* what TTL answers for a key without an expiry

VARIABLES
  count,       \* the counter, 0 if the key does not exist
  ttl,         \* ticks until the key expires, or NoExpiry
  pc,          \* the call each request waits for
  told,        \* the last Retry-After, counting down, and whether its key is still there
  grants,      \* history: requests let through by the counter, by age in ticks
  faults       \* faults of each kind so far

vars == <<count, ttl, pc, told, grants, faults>>

TypeOK ==
  /\ count \in 0..MaxCount
  /\ ttl \in 1..Window \cup {NoExpiry}
  /\ pc \in [Requests -> {"idle", "expire", "ttl"}]
  /\ told \in [wait : 0..Window, same : BOOLEAN]
  /\ grants \in [0..Window - 1 -> Nat]
  /\ faults \in [Faults -> Nat]
  /\ count = 0 => ttl = NoExpiry

Init ==
  /\ count = 0 /\ ttl = NoExpiry
  /\ pc = [q \in Requests |-> "idle"]
  /\ told = [wait |-> 0, same |-> FALSE]
  /\ grants = [a \in 0..Window - 1 |-> 0]
  /\ faults = [k \in Faults |-> 0]

\* Mutant of Allowed: one request too many.
AllowedOneMore(n) == n <= Limit + 1

\* The counter lets its n-th request through.
Allowed(n) == n <= Limit

\* Mutant of Incr: every hit that is let through sets the expiry again.
IncrRearms(q) ==
  /\ pc[q] = "idle"
  /\ count < MaxCount
  /\ count' = count + 1
  /\ pc' = [pc EXCEPT ![q] = IF Allowed(count') THEN "expire" ELSE "ttl"]
  /\ grants' = [grants EXCEPT ![0] = IF Allowed(count') THEN @ + 1 ELSE @]
  /\ UNCHANGED <<ttl, told, faults>>

\* INCR.  The first hit goes on to EXPIRE, one over the limit to TTL.
Incr(q) ==
  /\ pc[q] = "idle"
  /\ count < MaxCount
  /\ count' = count + 1
  /\ pc' = [pc EXCEPT ![q] = IF count' = 1 THEN "expire"
                             ELSE IF Allowed(count') THEN "idle" ELSE "ttl"]
  /\ grants' = [grants EXCEPT ![0] = IF Allowed(count') THEN @ + 1 ELSE @]
  /\ UNCHANGED <<ttl, told, faults>>

\* Mutant of SetExpiry: none at all.
SetExpiryNever == ttl' = NoExpiry

\* EXPIRE does nothing if the key is gone.
SetExpiry == ttl' = IF count = 0 THEN NoExpiry ELSE Window

Expire(q) ==
  /\ pc[q] = "expire"
  /\ SetExpiry
  /\ pc' = [pc EXCEPT ![q] = "idle"]
  /\ UNCHANGED <<count, told, grants, faults>>

\* A refusal tells the caller to come back later.  Of a key without an expiry
\* it says nothing.
Tell(wait) == told' = [wait |-> wait, same |-> ttl # NoExpiry]

\* TTL, for the Retry-After of a refusal.
RetryAfter(q) ==
  /\ pc[q] = "ttl"
  /\ Tell(Max({0, ttl}))
  /\ pc' = [pc EXCEPT ![q] = "idle"]
  /\ UNCHANGED <<count, ttl, grants, faults>>

\* A tick passes.  Redis removes the key when its time is up.
Tick ==
  /\ IF ttl = 1 THEN count' = 0 /\ ttl' = NoExpiry
     ELSE count' = count /\ ttl' = IF ttl = NoExpiry THEN NoExpiry ELSE ttl - 1
  /\ told' = [wait |-> Max({0, told.wait - 1}), same |-> told.same /\ count' # 0]
  /\ grants' = [a \in 0..Window - 1 |-> IF a = 0 THEN 0 ELSE grants[a - 1]]
  /\ UNCHANGED <<pc, faults>>

-----------------------------------------------------------------------------

Fault(kind) ==
  /\ kind \in Faults
  /\ MapThenSumSet(LAMBDA k : faults[k], Faults) < MaxFaults
  /\ faults' = [faults EXCEPT ![kind] = @ + 1]

Happened(kind) == kind \in Faults /\ faults[kind] > 0

\* A call raises, whether Redis carried it out or not, and the request is let
\* through, or refused with the whole window for a Retry-After.
RedisError(q) ==
  /\ Fault("redisError")
  /\ pc' = [pc EXCEPT ![q] = "idle"]
  /\ \/ /\ pc[q] = "idle"
        /\ count < MaxCount /\ count' = count + 1
        /\ UNCHANGED <<ttl, told>>
     \/ /\ pc[q] = "expire"
        /\ SetExpiry \/ UNCHANGED ttl
        /\ UNCHANGED <<count, told>>
     \/ /\ pc[q] = "ttl"
        /\ Tell(Window)
        /\ UNCHANGED <<count, ttl>>
  /\ UNCHANGED grants

\* The server stops: no request goes on.
Crash ==
  /\ Fault("crash")
  /\ \E q \in Requests : pc[q] # "idle"
  /\ pc' = [q \in Requests |-> "idle"]
  /\ UNCHANGED <<count, ttl, told, grants>>

\* Redis restarts empty.  What it let through before is not counted.
RedisLoss ==
  /\ Fault("redisLoss")
  /\ count # 0
  /\ count' = 0 /\ ttl' = NoExpiry
  /\ grants' = [a \in 0..Window - 1 |-> 0]
  /\ told' = [told EXCEPT !.same = FALSE]
  /\ UNCHANGED pc

Next ==
  \/ \E q \in Requests : Incr(q) \/ Expire(q) \/ RetryAfter(q) \/ RedisError(q)
  \/ Tick \/ Crash \/ RedisLoss

Spec == Init /\ [][Next]_vars

\* Time passes, and a request that is under way goes on.
FairSpec ==
  /\ Spec
  /\ WF_vars(Tick)
  /\ \A q \in Requests : WF_vars(Expire(q)) /\ WF_vars(RetryAfter(q))

-----------------------------------------------------------------------------
(* Properties *)

\* What the counter let through in the last n ticks.
LetThrough[n \in 0..Window] == IF n = 0 THEN 0 ELSE LetThrough[n - 1] + grants[n - 1]

\* However hits, expiries and faults interleave, the counter lets through at
\* most two limits in any Window ticks, one at the end of a key's life and
\* one at the start of the next key's.
SlidingBound == LetThrough[Window] <= 2 * Limit

\* A counter without an expiry that nobody is about to give one.
Stuck == count > 0 /\ ttl = NoExpiry /\ \A q \in Requests : pc[q] # "expire"

\* redis_client.py:75: Redis cleans every counter up, so a caller that was
\* refused is not refused for ever, unless the one request that was to set the
\* expiry failed or died.
CounterExpires ==
  count > 0 ~> count = 0 \/ (Stuck /\ (Happened("redisError") \/ Happened("crash")))

\* redis_client.py:90, "seconds until the rate limit window resets": when a
\* caller has waited for as long as it was told, the counter that refused it is
\* gone, unless Redis lost it between INCR and EXPIRE, and an EXPIRE that was
\* meant for it prolongs the next.
WaitingSuffices == Happened("redisLoss") \/ (told.wait = 0 => ~told.same)
=============================================================================
