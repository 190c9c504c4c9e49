SPECIFICATION Spec
CONSTANTS
  Names = {n1, n2}
  Emails = {e1}
  None = None
  Requests = {q1, q2}
  MaxIds = 3
  Faults = {"dbError", "crash"}
  MaxFaults = 1
SYMMETRY Symmetric
INVARIANTS DecidedOnce NameTakenOnce EveryIdHasAccount
PROPERTY LivesOnce
CHECK_DEADLOCK FALSE
