SPECIFICATION FairSpec
CONSTANTS
  Requests = {q1, q2}
  Limit = 2
  Window = 3
  MaxCount = 4
  Faults = {"redisError", "crash", "redisLoss"}
  MaxFaults = 2
INVARIANTS SlidingBound WaitingSuffices
PROPERTY CounterExpires
