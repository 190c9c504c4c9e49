-------------------------- MODULE RateLimitProofs ---------------------------
(***************************************************************************)
(* The rate limiter, for any limit, window and requests in flight.         *)
(***************************************************************************)
EXTENDS RateLimit, TLAPS, WellFoundedInduction

LEMMA AtLeastZero == ASSUME NEW n \in Int PROVE Max({0, n}) = IF n > 0 THEN n ELSE 0
<1> DEFINE m == IF n > 0 THEN n ELSE 0
<1>1. m \in {0, n} /\ \A y \in {0, n} : m >= y
  OBVIOUS
<1>2. \A x \in {0, n} : (\A y \in {0, n} : x >= y) => x = m
  OBVIOUS
<1>3. QED
  BY <1>1, <1>2 DEF Max

LEMMA WaitType ==
  ASSUME TypeOK
  PROVE  ttl \in Int /\ told.wait \in Int /\ ttl <= Window /\ told.wait <= Window
BY LimitAssumption DEF TypeOK, NoExpiry

LEMMA WaitOfTTL ==
  ASSUME TypeOK PROVE Max({0, ttl}) = IF ttl > 0 THEN ttl ELSE 0
<1>1. ttl \in Int
  BY WaitType
<1>2. QED
  BY <1>1, AtLeastZero, Zenon

LEMMA WaitAfterTick ==
  ASSUME TypeOK
  PROVE  Max({0, told.wait - 1}) = IF told.wait - 1 > 0 THEN told.wait - 1 ELSE 0
<1>1. told.wait - 1 \in Int
  BY WaitType
<1>2. QED
  BY <1>1, AtLeastZero, Zenon

\* What a fault adds to the history.
LEMMA FaultCounts ==
  ASSUME TypeOK, NEW kind, Fault(kind)
  PROVE  /\ faults' \in [Faults -> Nat]
         /\ Happened("redisLoss") \/ kind = "redisLoss" => Happened("redisLoss")'
BY DEF TypeOK, Fault, Happened

LEMMA InitType == Init => TypeOK
BY LimitAssumption, FaultsAssumption DEF Init, TypeOK, NoExpiry

LEMMA SetExpiryType ==
  ASSUME TypeOK, SetExpiry
  PROVE  ttl' \in 1..Window \cup {NoExpiry} /\ (count = 0 => ttl' = NoExpiry)
BY LimitAssumption DEF TypeOK, SetExpiry, NoExpiry

LEMMA TellType ==
  ASSUME TypeOK, NEW wait \in 0..Window, Tell(wait)
  PROVE  told' \in [wait : 0..Window, same : BOOLEAN]
BY DEF TypeOK, Tell

LEMMA IncrType == ASSUME TypeOK, NEW q \in Requests, Incr(q) PROVE TypeOK'
<1>1. grants' \in [0..Window - 1 -> Nat]
  BY LimitAssumption DEF TypeOK, Incr
<1>2. QED
  BY <1>1, LimitAssumption DEF TypeOK, Incr

LEMMA ExpireType == ASSUME TypeOK, NEW q \in Requests, Expire(q) PROVE TypeOK'
BY SetExpiryType DEF TypeOK, Expire

LEMMA RetryAfterType == ASSUME TypeOK, NEW q \in Requests, RetryAfter(q) PROVE TypeOK'
<1>1. Max({0, ttl}) \in 0..Window
  BY WaitOfTTL, WaitType, LimitAssumption
<1>2. told' \in [wait : 0..Window, same : BOOLEAN]
  BY <1>1, TellType DEF RetryAfter
<1>3. QED
  BY <1>2 DEF TypeOK, RetryAfter

LEMMA TickType == ASSUME TypeOK, Tick PROVE TypeOK'
<1>1. count' \in 0..MaxCount /\ ttl' \in 1..Window \cup {NoExpiry}
      /\ (count' = 0 => ttl' = NoExpiry)
  BY LimitAssumption DEF TypeOK, Tick, NoExpiry
<1>2. told'.wait \in 0..Window /\ told' \in [wait : 0..Window, same : BOOLEAN]
  <2>1. Max({0, told.wait - 1}) \in 0..Window
    BY WaitAfterTick, WaitType, LimitAssumption
  <2>2. QED
    BY <2>1 DEF TypeOK, Tick
<1>3. grants' \in [0..Window - 1 -> Nat]
  BY LimitAssumption DEF TypeOK, Tick
<1>4. QED
  BY <1>1, <1>2, <1>3 DEF TypeOK, Tick

LEMMA RedisErrorType == ASSUME TypeOK, NEW q \in Requests, RedisError(q) PROVE TypeOK'
<1>1. faults' \in [Faults -> Nat] /\ pc' \in [Requests -> {"idle", "expire", "ttl"}]
  BY FaultCounts DEF TypeOK, RedisError
<1>2. CASE pc[q] = "idle" /\ count < MaxCount /\ count' = count + 1 /\ UNCHANGED <<ttl, told>>
  BY <1>1, <1>2, LimitAssumption DEF TypeOK, RedisError
<1>3. CASE pc[q] = "expire" /\ (SetExpiry \/ UNCHANGED ttl) /\ UNCHANGED <<count, told>>
  BY <1>1, <1>3, SetExpiryType DEF TypeOK, RedisError
<1>4. CASE pc[q] = "ttl" /\ Tell(Window) /\ UNCHANGED <<count, ttl>>
  <2>1. told' \in [wait : 0..Window, same : BOOLEAN]
    BY <1>4, TellType, LimitAssumption
  <2>2. QED
    BY <1>1, <1>4, <2>1 DEF TypeOK, RedisError
<1>5. QED
  BY <1>2, <1>3, <1>4 DEF RedisError

LEMMA CrashType == ASSUME TypeOK, Crash PROVE TypeOK'
BY FaultCounts DEF TypeOK, Crash

LEMMA RedisLossType == ASSUME TypeOK, RedisLoss PROVE TypeOK'
<1>1. faults' \in [Faults -> Nat]
  BY FaultCounts DEF RedisLoss
<1>2. grants' \in [0..Window - 1 -> Nat] /\ told' \in [wait : 0..Window, same : BOOLEAN]
  BY DEF TypeOK, RedisLoss
<1>3. QED
  BY <1>1, <1>2, LimitAssumption DEF TypeOK, RedisLoss, NoExpiry

LEMMA NextType == TypeOK /\ [Next]_vars => TypeOK'
<1> SUFFICES ASSUME TypeOK, [Next]_vars PROVE TypeOK'
  OBVIOUS
<1>1. CASE UNCHANGED vars
  BY <1>1 DEF TypeOK, vars
<1>2. CASE Next
  BY <1>2, IncrType, ExpireType, RetryAfterType, TickType, RedisErrorType, CrashType,
     RedisLossType DEF Next
<1>3. QED
  BY <1>1, <1>2

\* The counter stays within its bound and its expiry within the window, and a
\* counter that does not exist has no expiry.
THEOREM TypeCorrect == Spec => []TypeOK
<1>1. QED
  BY InitType, NextType, PTL DEF Spec

-----------------------------------------------------------------------------
(* Waiting                                                                 *)

\* Until Redis loses the counter, only the request that created it can be about
\* to set its expiry, once; so an expiry that was told is not set back.
OneExpiry ==
  \A q \in Requests :
    pc[q] = "expire" =>
      /\ count > 0 /\ ttl = NoExpiry
      /\ \A p \in Requests \ {q} : pc[p] # "expire"
ToldInTime == told.same => count > 0 /\ ttl # NoExpiry /\ ttl <= told.wait
WInv == Happened("redisLoss") \/ (OneExpiry /\ ToldInTime)

LEMMA InitW == Init => WInv
BY DEF Init, WInv, OneExpiry, ToldInTime

LEMMA StepW == ASSUME TypeOK, WInv, [Next]_vars PROVE WInv'
<1> SUFFICES ASSUME ~Happened("redisLoss")' PROVE OneExpiry' /\ ToldInTime'
  BY DEF WInv
<1>0. ASSUME UNCHANGED faults \/ \E k : Fault(k) PROVE OneExpiry /\ ToldInTime
  <2>1. CASE UNCHANGED faults
    BY <2>1 DEF WInv, Happened
  <2>2. CASE \E k : Fault(k)
    BY <2>2, FaultCounts DEF WInv
  <2>3. QED
    BY <1>0, <2>1, <2>2
<1>1. CASE UNCHANGED vars
  BY <1>0, <1>1 DEF vars, OneExpiry, ToldInTime
<1>2. ASSUME NEW q \in Requests, Incr(q) PROVE OneExpiry' /\ ToldInTime'
  <2>1. OneExpiry /\ ToldInTime
    BY <1>0, <1>2 DEF Incr
  <2>2. OneExpiry'
    BY <1>2, <2>1 DEF TypeOK, OneExpiry, Incr
  <2>3. ToldInTime'
    BY <1>2, <2>1 DEF TypeOK, ToldInTime, Incr
  <2>4. QED
    BY <2>2, <2>3
<1>3. ASSUME NEW q \in Requests, Expire(q) PROVE OneExpiry' /\ ToldInTime'
  <2>1. OneExpiry /\ ToldInTime
    BY <1>0, <1>3 DEF Expire
  <2>2. QED
    BY <1>3, <2>1 DEF TypeOK, OneExpiry, ToldInTime, Expire
<1>4. ASSUME NEW q \in Requests, RetryAfter(q) PROVE OneExpiry' /\ ToldInTime'
  <2>1. OneExpiry /\ ToldInTime
    BY <1>0, <1>4 DEF RetryAfter
  <2>2. Max({0, ttl}) = IF ttl > 0 THEN ttl ELSE 0
    BY WaitOfTTL
  <2>3. ttl # NoExpiry => ttl <= Max({0, ttl}) /\ count > 0
    BY <2>2, LimitAssumption DEF TypeOK, NoExpiry
  <2>4. QED
    BY <1>4, <2>1, <2>3 DEF TypeOK, OneExpiry, ToldInTime, RetryAfter, Tell
<1>5. CASE Tick
  <2>1. OneExpiry /\ ToldInTime
    BY <1>0, <1>5 DEF Tick
  <2>2. OneExpiry'
    BY <1>5, <2>1 DEF TypeOK, OneExpiry, Tick, NoExpiry
  <2>3. Max({0, told.wait - 1}) = IF told.wait - 1 > 0 THEN told.wait - 1 ELSE 0
    BY WaitAfterTick
  <2>4. ASSUME told'.same PROVE count' > 0 /\ ttl' # NoExpiry /\ ttl' <= told'.wait
    <3>1. told.same /\ count' # 0 /\ told'.wait = Max({0, told.wait - 1})
      BY <1>5, <2>4 DEF Tick
    <3>2. ttl # 1 /\ ttl > 1 /\ count' = count /\ ttl' = ttl - 1
      BY <1>5, <2>1, <3>1, LimitAssumption DEF TypeOK, ToldInTime, Tick, NoExpiry
    <3>3. QED
      BY <2>1, <2>3, <3>1, <3>2, WaitType DEF ToldInTime, NoExpiry
  <2>5. QED
    BY <2>2, <2>4 DEF ToldInTime
<1>6. ASSUME NEW q \in Requests, RedisError(q) PROVE OneExpiry' /\ ToldInTime'
  <2>1. OneExpiry /\ ToldInTime
    BY <1>0, <1>6 DEF RedisError
  <2>2. CASE pc[q] = "idle" /\ count < MaxCount /\ count' = count + 1 /\ UNCHANGED <<ttl, told>>
    BY <1>6, <2>1, <2>2 DEF TypeOK, OneExpiry, ToldInTime, RedisError
  <2>3. CASE pc[q] = "expire" /\ (SetExpiry \/ UNCHANGED ttl) /\ UNCHANGED <<count, told>>
    BY <1>6, <2>1, <2>3 DEF TypeOK, OneExpiry, ToldInTime, RedisError
  <2>4. CASE pc[q] = "ttl" /\ Tell(Window) /\ UNCHANGED <<count, ttl>>
    BY <1>6, <2>1, <2>4, LimitAssumption
       DEF TypeOK, OneExpiry, ToldInTime, RedisError, Tell, NoExpiry
  <2>5. QED
    BY <1>6, <2>2, <2>3, <2>4 DEF RedisError
<1>7. CASE Crash
  <2>1. OneExpiry /\ ToldInTime
    BY <1>0, <1>7 DEF Crash
  <2>2. QED
    BY <1>7, <2>1 DEF TypeOK, OneExpiry, ToldInTime, Crash
<1>8. CASE RedisLoss
  BY <1>8, FaultCounts DEF RedisLoss
<1>9. QED
  BY <1>1, <1>2, <1>3, <1>4, <1>5, <1>6, <1>7, <1>8 DEF Next

\* A caller that has waited for as long as it was told finds the counter that
\* refused it gone, however requests and failures interleave, unless Redis lost
\* its keys.
THEOREM WaitingIsEnough == Spec => []WaitingSuffices
<1>1. TypeOK /\ WInv => WaitingSuffices
  BY LimitAssumption DEF TypeOK, WInv, ToldInTime, WaitingSuffices, NoExpiry
<1>2. QED
  BY <1>1, InitType, NextType, InitW, StepW, PTL DEF Spec
-----------------------------------------------------------------------------
(* What is let through                                                     *)

\* A set of numbers that is not empty has a least one.
LEMMA LeastElement ==
  ASSUME NEW S, S \subseteq Nat, S # {} PROVE \E n \in S : \A m \in S : n <= m
<1>1. \E n \in S : \A m \in S : ~ (<<m, n>> \in OpToRel(<, Nat))
  BY NatLessThanWellFounded, WFMin
<1>2. PICK n \in S : \A m \in S : ~ (m < n)
  BY <1>1 DEF OpToRel
<1>3. QED
  BY <1>2

\* Two functions that grow alike differ by what they differ by at first.
LEMMA SameGrowth ==
  ASSUME NEW f, NEW g, NEW d \in Int,
         \A n \in 1..Window : f[n] \in Int /\ g[n] \in Int,
         f[1] = g[1] + d,
         \A n \in 2..Window : f[n] - f[n - 1] = g[n] - g[n - 1]
  PROVE  \A n \in 1..Window : f[n] = g[n] + d
<1> DEFINE Bad == {n \in 1..Window : f[n] # g[n] + d}
<1> SUFFICES ASSUME Bad # {} PROVE FALSE
  OBVIOUS
<1>1. PICK n \in Bad : \A m \in Bad : n <= m
  <2>1. Bad \subseteq Nat
    OBVIOUS
  <2> HIDE DEF Bad
  <2>2. QED
    BY <2>1, LeastElement
<1>2. n \in 2..Window /\ n - 1 \in 1..Window
  BY LimitAssumption
<1>3. f[n - 1] = g[n - 1] + d
  BY <1>1, <1>2
<1>4. QED
  BY <1>2, <1>3

\* f sums up what was let through in the last ticks, up to n.
SumsTo(f, n) ==
  f \in [0..n -> Nat] /\ \A m \in 0..n : f[m] = IF m = 0 THEN 0 ELSE f[m - 1] + grants[m - 1]

LEMMA SumsExist == ASSUME TypeOK PROVE \A n \in 0..Window : \E f : SumsTo(f, n)
<1> DEFINE Without == {n \in 0..Window : ~ \E f : SumsTo(f, n)}
<1> SUFFICES ASSUME Without # {} PROVE FALSE
  OBVIOUS
<1>1. PICK n \in Without : \A m \in Without : n <= m
  <2>1. Without \subseteq Nat
    BY LimitAssumption
  <2> HIDE DEF Without
  <2>2. QED
    BY <2>1, LeastElement
<1>2. n # 0
  <2>1. SumsTo([m \in 0..0 |-> 0], 0)
    BY DEF SumsTo
  <2>2. QED
    BY <2>1
<1>3. n \in 1..Window /\ n - 1 \in 0..Window
  BY <1>2, LimitAssumption
<1>4. PICK f : SumsTo(f, n - 1)
  BY <1>1, <1>3
<1> DEFINE h == [m \in 0..n |-> IF m = n THEN f[n - 1] + grants[n - 1] ELSE f[m]]
<1>5. SumsTo(h, n)
  <2>1. f[n - 1] + grants[n - 1] \in Nat
    BY <1>3, <1>4, LimitAssumption DEF SumsTo, TypeOK
  <2>2. \A m \in 0..n : m = n \/ m \in 0..(n - 1)
    BY <1>3
  <2>3. h \in [0..n -> Nat]
    BY <1>4, <2>1, <2>2 DEF SumsTo
  <2>4. h[n] = f[n - 1] + grants[n - 1] /\ \A m \in 0..(n - 1) : h[m] = f[m]
    BY <1>3
  <2>5. ASSUME NEW m \in 0..n PROVE h[m] = IF m = 0 THEN 0 ELSE h[m - 1] + grants[m - 1]
    <3>1. m # 0 => m - 1 \in 0..(n - 1)
      BY <1>3
    <3> HIDE DEF h
    <3>2. QED
      BY <1>3, <1>4, <2>2, <2>4, <3>1 DEF SumsTo
  <2> HIDE DEF h
  <2>6. QED
    BY <2>3, <2>5 DEF SumsTo
<1>6. QED
  BY <1>1, <1>5

\* f[n] is the sum of the first n values of the history h.
SumsUp(f, h) ==
  /\ f[0] = 0
  /\ \A n \in 0..Window : f[n] \in Nat
  /\ \A n \in 1..Window : f[n] = f[n - 1] + h[n - 1]

\* LetThrough is the sum it is defined as.
Summed == SumsUp(LetThrough, grants)

LEMMA LetThroughSums == TypeOK => Summed
<1> SUFFICES ASSUME TypeOK PROVE Summed
  OBVIOUS
<1> DEFINE IsSum(f) == f = [n \in 0..Window |-> IF n = 0 THEN 0 ELSE f[n - 1] + grants[n - 1]]
<1>1. \E f : IsSum(f)
  <2>1. PICK f : SumsTo(f, Window)
    BY SumsExist, LimitAssumption
  <2>2. IsSum(f)
    BY <2>1 DEF SumsTo
  <2>3. QED
    BY <2>2
<1>2. LetThrough = CHOOSE f : IsSum(f)
  BY DEF LetThrough
<1>3. IsSum(LetThrough)
  <2> HIDE DEF IsSum
  <2>1. QED
    BY <1>1, <1>2, Zenon
<1>4. LetThrough[0] = 0 /\ \A n \in 1..Window : LetThrough[n] = LetThrough[n - 1] + grants[n - 1]
  BY <1>3, LimitAssumption
<1>5. \A n \in 0..Window : LetThrough[n] \in Nat
  <2> DEFINE Bad == {n \in 0..Window : LetThrough[n] \notin Nat}
  <2> SUFFICES ASSUME Bad # {} PROVE FALSE
    OBVIOUS
  <2>1. PICK n \in Bad : \A m \in Bad : n <= m
    <3>1. Bad \subseteq Nat
      BY LimitAssumption
    <3> HIDE DEF Bad
    <3>2. QED
      BY <3>1, LeastElement
  <2>2. n \in 1..Window /\ n - 1 \in 0..Window
    BY <1>4, LimitAssumption
  <2>3. LetThrough[n - 1] \in Nat /\ grants[n - 1] \in Nat
    BY <2>1, <2>2, LimitAssumption DEF TypeOK
  <2>4. QED
    BY <1>4, <2>2, <2>3
<1>6. QED
  BY <1>4, <1>5 DEF Summed, SumsUp

\* The last b ticks are those of the counter there is, or longer, as long as no
\* expiry is set; what was let through before was by one counter alone.
TwoKeys ==
  \E b \in 1..Window :
    /\ LetThrough[b] <= count /\ LetThrough[b] <= Limit
    /\ LetThrough[Window] - LetThrough[b] <= Limit
    /\ ttl # NoExpiry => ttl > Window - b

LEMMA SummedNext == ASSUME TypeOK, TypeOK' PROVE Summed /\ Summed'
<1>1. TypeOK' => Summed'
  BY LetThroughSums, PTL
<1>2. QED
  BY <1>1, LetThroughSums

Histories == [0..Window - 1 -> Nat]

\* What a step does to the history, and so to the sums.
LEMMA SumsStay ==
  ASSUME NEW f, NEW g, NEW h \in Histories, SumsUp(f, h), SumsUp(g, h)
  PROVE  \A n \in 1..Window : g[n] = f[n]
<1>1. \A n \in 1..Window : g[n] \in Int /\ f[n] \in Int /\ h[n - 1] \in Int
  BY LimitAssumption DEF SumsUp, Histories
<1>2. g[1] = f[1] + 0
  BY LimitAssumption DEF SumsUp, Histories
<1>3. \A n \in 2..Window : g[n] - g[n - 1] = f[n] - f[n - 1]
  <2> SUFFICES ASSUME NEW n \in 2..Window PROVE g[n] - g[n - 1] = f[n] - f[n - 1]
    OBVIOUS
  <2>1. n \in 1..Window /\ n - 1 \in 1..Window
    BY LimitAssumption
  <2>2. g[n] = g[n - 1] + h[n - 1] /\ f[n] = f[n - 1] + h[n - 1]
    BY <2>1 DEF SumsUp
  <2>3. QED
    BY <1>1, <2>1, <2>2
<1>4. \A n \in 1..Window : g[n] = f[n] + 0
  BY <1>1, <1>2, <1>3, SameGrowth
<1>5. QED
  BY <1>1, <1>4

LEMMA SumsGrow ==
  ASSUME NEW f, NEW g, NEW h \in Histories, SumsUp(f, h), SumsUp(g, [h EXCEPT ![0] = @ + 1])
  PROVE  \A n \in 1..Window : g[n] = f[n] + 1
<1> DEFINE k == [h EXCEPT ![0] = @ + 1]
<1>1. \A n \in 1..Window : g[n] \in Int /\ f[n] \in Int /\ h[n - 1] \in Int
  BY LimitAssumption DEF SumsUp, Histories
<1>2. k[0] = h[0] + 1 /\ \A n \in 2..Window : k[n - 1] = h[n - 1]
  BY LimitAssumption DEF Histories
<1> HIDE DEF k
<1>3. g[1] = g[0] + k[0] /\ g[0] = 0 /\ f[1] = f[0] + h[0] /\ f[0] = 0 /\ h[0] \in Int
  <2>1. 1 \in 1..Window /\ 0 \in 0..Window - 1
    BY LimitAssumption
  <2>2. QED
    BY <2>1 DEF SumsUp, Histories, k
<1>4. g[1] = f[1] + 1
  BY <1>2, <1>3
<1>5. \A n \in 2..Window : g[n] - g[n - 1] = f[n] - f[n - 1]
  <2> SUFFICES ASSUME NEW n \in 2..Window PROVE g[n] - g[n - 1] = f[n] - f[n - 1]
    OBVIOUS
  <2>1. n \in 1..Window /\ n - 1 \in 1..Window
    BY LimitAssumption
  <2>2. g[n] = g[n - 1] + k[n - 1] /\ f[n] = f[n - 1] + h[n - 1]
    BY <2>1 DEF SumsUp, k
  <2>3. QED
    BY <1>1, <1>2, <2>1, <2>2
<1>6. QED
  BY <1>1, <1>4, <1>5, SameGrowth

LEMMA SumsShift ==
  ASSUME NEW f, NEW g, NEW h \in Histories, SumsUp(f, h),
         SumsUp(g, [a \in 0..Window - 1 |-> IF a = 0 THEN 0 ELSE h[a - 1]])
  PROVE  \A n \in 1..Window : g[n] = f[n - 1]
<1> DEFINE k == [a \in 0..Window - 1 |-> IF a = 0 THEN 0 ELSE h[a - 1]]
           e == [n \in 1..Window |-> f[n - 1]]
<1>1. \A n \in 1..Window : g[n] \in Int /\ e[n] \in Int /\ h[n - 1] \in Int /\ e[n] = f[n - 1]
  BY LimitAssumption DEF SumsUp, Histories
<1>2. k[0] = 0 /\ \A n \in 2..Window : k[n - 1] = h[n - 2]
  BY LimitAssumption DEF Histories
<1> HIDE DEF k, e
<1>3. g[1] = g[0] + k[0] /\ g[0] = 0 /\ f[0] = 0 /\ e[1] = f[0]
  <2>1. 1 \in 1..Window
    BY LimitAssumption
  <2>2. QED
    BY <1>1, <2>1 DEF SumsUp, k
<1>4. g[1] = e[1] + 0
  BY <1>2, <1>3
<1>5. \A n \in 2..Window : g[n] - g[n - 1] = e[n] - e[n - 1]
  <2> SUFFICES ASSUME NEW n \in 2..Window PROVE g[n] - g[n - 1] = e[n] - e[n - 1]
    OBVIOUS
  <2>1. n \in 1..Window /\ n - 1 \in 1..Window /\ (n - 1) - 1 = n - 2
    BY LimitAssumption
  <2>2. g[n] = g[n - 1] + k[n - 1] /\ f[n - 1] = f[n - 2] + h[n - 2]
    BY <2>1 DEF SumsUp, k
  <2>3. e[n] = f[n - 1] /\ e[n - 1] = f[n - 2] /\ h[n - 2] \in Int
    BY <1>1, <2>1
  <2>4. QED
    BY <1>1, <1>2, <2>1, <2>2, <2>3
<1>6. \A n \in 1..Window : g[n] = e[n] + 0
  BY <1>1, <1>4, <1>5, SameGrowth
<1>7. QED
  BY <1>1, <1>6

LEMMA SumsOfNone ==
  ASSUME NEW f, SumsUp(f, [a \in 0..Window - 1 |-> 0]) PROVE \A n \in 1..Window : f[n] = 0
<1> DEFINE none == [a \in 0..Window - 1 |-> 0]
           e == [n \in 0..Window |-> 0]
<1>1. none \in Histories /\ SumsUp(e, none)
  BY LimitAssumption DEF Histories, SumsUp
<1>2. \A n \in 1..Window : e[n] = 0
  OBVIOUS
<1>3. SumsUp(f, none)
  OBVIOUS
<1> HIDE DEF none, e
<1>4. \A n \in 1..Window : f[n] = e[n]
  BY <1>1, <1>3, SumsStay
<1>5. QED
  BY <1>2, <1>4

LEMMA TwoKeysIncr ==
  ASSUME TypeOK, TypeOK', TwoKeys, NEW q \in Requests, Incr(q) PROVE TwoKeys'
<1>1. PICK b \in 1..Window :
        /\ LetThrough[b] <= count /\ LetThrough[b] <= Limit
        /\ LetThrough[Window] - LetThrough[b] <= Limit
        /\ ttl # NoExpiry => ttl > Window - b
  BY DEF TwoKeys
<1>2. count \in Nat /\ count' = count + 1 /\ UNCHANGED ttl
  BY LimitAssumption DEF Incr, TypeOK
<1>3. /\ grants \in Histories
      /\ SumsUp(LetThrough, grants) /\ SumsUp(LetThrough', grants')
      /\ \A n \in 0..Window : LetThrough[n] \in Nat
  BY SummedNext DEF Summed, SumsUp, TypeOK, Histories
<1>4. CASE Allowed(count')
  <2>1. grants' = [grants EXCEPT ![0] = @ + 1]
    BY <1>4 DEF Incr
  <2>2. LetThrough'[b] = LetThrough[b] + 1 /\ LetThrough'[Window] = LetThrough[Window] + 1
    <3>1. SumsUp(LetThrough', [grants EXCEPT ![0] = @ + 1])
      BY <1>3, <2>1
    <3>2. \A n \in 1..Window : LetThrough'[n] = LetThrough[n] + 1
      BY <1>3, <3>1, SumsGrow
    <3>3. QED
      BY <3>2, LimitAssumption
  <2>3. /\ LetThrough'[b] <= count' /\ LetThrough'[b] <= Limit
        /\ LetThrough'[Window] - LetThrough'[b] <= Limit
        /\ ttl' # NoExpiry => ttl' > Window - b
    BY <1>1, <1>2, <1>3, <1>4, <2>2, LimitAssumption DEF Allowed
  <2>4. QED
    BY <2>3 DEF TwoKeys
<1>5. CASE ~ Allowed(count')
  <2>1. UNCHANGED grants
    BY <1>5 DEF Incr, TypeOK
  <2>2. LetThrough'[b] = LetThrough[b] /\ LetThrough'[Window] = LetThrough[Window]
    BY <1>3, <2>1, SumsStay, LimitAssumption
  <2>3. /\ LetThrough'[b] <= count' /\ LetThrough'[b] <= Limit
        /\ LetThrough'[Window] - LetThrough'[b] <= Limit
        /\ ttl' # NoExpiry => ttl' > Window - b
    BY <1>1, <1>2, <1>3, <2>2, LimitAssumption
  <2>4. QED
    BY <2>3 DEF TwoKeys
<1>6. QED
  BY <1>4, <1>5

LEMMA TwoKeysTick == ASSUME TypeOK, TypeOK', TwoKeys, Tick PROVE TwoKeys'
<1>1. PICK b \in 1..Window :
        /\ LetThrough[b] <= count /\ LetThrough[b] <= Limit
        /\ LetThrough[Window] - LetThrough[b] <= Limit
        /\ ttl # NoExpiry => ttl > Window - b
  BY DEF TwoKeys
<1>2. /\ LetThrough[0] = 0 /\ \A n \in 0..Window : LetThrough[n] \in Nat
      /\ \A n \in 1..Window : LetThrough[n - 1] <= LetThrough[n]
  <2>1. SumsUp(LetThrough, grants) /\ \A n \in 1..Window : grants[n - 1] \in Nat
    BY SummedNext, LimitAssumption DEF Summed, TypeOK
  <2>2. ASSUME NEW n \in 1..Window PROVE LetThrough[n - 1] <= LetThrough[n]
    <3>1. n - 1 \in 0..Window /\ n \in 0..Window
      BY LimitAssumption
    <3>2. QED
      BY <2>1, <3>1 DEF SumsUp
  <2>3. QED
    BY <2>1, <2>2 DEF SumsUp
<1>3. \A n \in 1..Window : LetThrough'[n] = LetThrough[n - 1]
  <2>1. grants \in Histories /\ SumsUp(LetThrough, grants) /\ SumsUp(LetThrough', grants')
    BY SummedNext DEF Summed, TypeOK, Histories
  <2>2. QED
    BY <2>1, SumsShift DEF Tick
<1>4. Window - 1 \in 0..Window /\ LetThrough[Window - 1] <= LetThrough[Window]
      /\ LetThrough[Window - 1] \in Nat /\ LetThrough[Window] \in Nat /\ LetThrough[b] \in Nat
      /\ LetThrough'[Window] = LetThrough[Window - 1]
  BY <1>2, <1>3, LimitAssumption
<1>5. ttl \in Int /\ count \in Nat
  BY WaitType DEF TypeOK
<1>6. CASE ttl = 1
  <2>1. b = Window
    BY <1>1, <1>6, LimitAssumption DEF NoExpiry
  <2>2. count' = 0 /\ ttl' = NoExpiry
    BY <1>6 DEF Tick
  <2>3. LetThrough'[1] = 0 /\ 1 \in 1..Window
    BY <1>2, <1>3, LimitAssumption
  <2>4. LetThrough'[Window] - LetThrough'[1] <= Limit
    BY <1>1, <1>4, <2>1, <2>3, LimitAssumption
  <2>5. QED
    BY <2>2, <2>3, <2>4, LimitAssumption DEF TwoKeys
<1>7. CASE ttl # 1
  <2>1. count' = count /\ ttl' = IF ttl = NoExpiry THEN NoExpiry ELSE ttl - 1
    BY <1>7 DEF Tick
  <2>2. CASE b < Window
    <3>1. b + 1 \in 1..Window /\ LetThrough'[b + 1] = LetThrough[b]
      BY <1>3, <2>2, LimitAssumption
    <3>2. /\ LetThrough'[b + 1] <= count' /\ LetThrough'[b + 1] <= Limit
          /\ LetThrough'[Window] - LetThrough'[b + 1] <= Limit
      BY <1>1, <1>4, <1>5, <2>1, <3>1, LimitAssumption
    <3>3. ttl' # NoExpiry => ttl' > Window - (b + 1)
      BY <1>1, <1>5, <2>1, LimitAssumption
    <3>4. QED
      BY <3>1, <3>2, <3>3 DEF TwoKeys
  <2>3. CASE b = Window
    <3>1. /\ LetThrough'[b] <= count' /\ LetThrough'[b] <= Limit
          /\ LetThrough'[Window] - LetThrough'[b] <= Limit
      BY <1>1, <1>4, <1>5, <2>1, <2>3, LimitAssumption
    <3>2. ttl' # NoExpiry => ttl' > Window - b
      <4>1. ttl # NoExpiry => ttl > 1
        BY <1>7, LimitAssumption DEF TypeOK
      <4>2. QED
        BY <1>5, <2>1, <2>3, <4>1, LimitAssumption
    <3>3. QED
      BY <3>1, <3>2 DEF TwoKeys
  <2>4. QED
    BY <2>2, <2>3, LimitAssumption
<1>8. QED
  BY <1>6, <1>7

\* A step that lets nothing through, takes nothing from the counter and sets no
\* expiry but to the whole window.
LEMMA TwoKeysFrame ==
  ASSUME TypeOK, TypeOK', TwoKeys, UNCHANGED grants, count' >= count,
         ttl' \in {ttl, Window, NoExpiry}
  PROVE  TwoKeys'
<1>1. PICK b \in 1..Window :
        /\ LetThrough[b] <= count /\ LetThrough[b] <= Limit
        /\ LetThrough[Window] - LetThrough[b] <= Limit
        /\ ttl # NoExpiry => ttl > Window - b
  BY DEF TwoKeys
<1>2. LetThrough'[b] = LetThrough[b] /\ LetThrough'[Window] = LetThrough[Window]
  <2>1. grants \in Histories /\ SumsUp(LetThrough, grants) /\ SumsUp(LetThrough', grants)
    BY SummedNext DEF Summed, TypeOK, Histories
  <2>2. QED
    BY <2>1, SumsStay, LimitAssumption
<1>3. count \in Nat /\ count' \in Nat /\ LetThrough[b] \in Nat /\ LetThrough[Window] \in Nat
  BY SummedNext, LimitAssumption DEF Summed, SumsUp, TypeOK
<1>4. ttl' # NoExpiry => ttl' > Window - b
  BY <1>1, LimitAssumption
<1>5. LetThrough'[b] <= count'
  BY <1>1, <1>2, <1>3
<1>6. QED
  BY <1>1, <1>2, <1>4, <1>5 DEF TwoKeys

LEMMA TwoKeysNext == ASSUME TypeOK, TypeOK', TwoKeys, [Next]_vars PROVE TwoKeys'
<1>1. count \in Nat
  BY DEF TypeOK
<1>2. ASSUME NEW q \in Requests, Expire(q) \/ RetryAfter(q) \/ RedisError(q) PROVE TwoKeys'
  BY <1>1, <1>2, TwoKeysFrame DEF Expire, RetryAfter, RedisError, SetExpiry
<1>3. CASE Crash \/ UNCHANGED vars
  BY <1>1, <1>3, TwoKeysFrame DEF Crash, vars
<1>4. CASE RedisLoss
  <2>1. \A n \in 1..Window : LetThrough'[n] = 0
    BY <1>4, SummedNext, SumsOfNone DEF RedisLoss, Summed
  <2>2. 1 \in 1..Window /\ LetThrough'[1] = 0 /\ LetThrough'[Window] = 0
    BY <2>1, LimitAssumption
  <2>3. QED
    BY <1>4, <2>2, LimitAssumption DEF RedisLoss, TwoKeys
<1>5. QED
  BY <1>2, <1>3, <1>4, TwoKeysIncr, TwoKeysTick DEF Next

LEMMA TwoKeysInit == Init => TwoKeys
<1> SUFFICES ASSUME Init PROVE TwoKeys
  OBVIOUS
<1>1. Summed /\ grants = [a \in 0..Window - 1 |-> 0]
  BY InitType, LetThroughSums DEF Init
<1>2. \A n \in 1..Window : LetThrough[n] = 0
  BY <1>1, SumsOfNone DEF Summed
<1>3. LetThrough[1] = 0 /\ LetThrough[Window] = 0 /\ 1 \in 1..Window
  BY <1>2, LimitAssumption
<1>4. QED
  BY <1>3, LimitAssumption DEF Init, TwoKeys

\* However hits, expiries and faults interleave, the counter lets through at most
\* two limits in any window.
THEOREM WindowIsBounded == Spec => []SlidingBound
<1>1. TypeOK /\ TwoKeys => SlidingBound
  <2> SUFFICES ASSUME TypeOK, TwoKeys PROVE SlidingBound
    OBVIOUS
  <2>1. PICK b \in 1..Window :
          LetThrough[b] <= Limit /\ LetThrough[Window] - LetThrough[b] <= Limit
    BY DEF TwoKeys
  <2>2. LetThrough[b] \in Nat /\ LetThrough[Window] \in Nat
    BY LetThroughSums, LimitAssumption DEF Summed, SumsUp
  <2>3. QED
    BY <2>1, <2>2, LimitAssumption DEF SlidingBound
<1>2. TypeOK /\ TwoKeys /\ [Next]_vars => TwoKeys'
  BY NextType, TwoKeysNext
<1>3. QED
  BY <1>1, <1>2, InitType, NextType, TwoKeysInit, PTL DEF Spec
=============================================================================
