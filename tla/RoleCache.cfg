SPECIFICATION Spec
CONSTANTS
  Roles = {user, vip, admin}
  Requests = {q1, q2}
  None = None
  Garbage = Garbage
  Faults = {"redisError", "crash", "redisLoss", "corruption"}
  MaxFaults = 2
SYMMETRY Symmetric
INVARIANTS AnswersAreCurrent StaleOnlyIfDisturbed
CHECK_DEADLOCK FALSE
