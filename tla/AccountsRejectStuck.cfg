SPECIFICATION Spec
CONSTANTS
  Names = {n1, n2}
  Emails = {}
  None = None
  Requests = {q1}
  MaxIds = 3
  Faults = {}
  MaxFaults = 0
SYMMETRY Symmetric
PROPERTY RejectSettles
CHECK_DEADLOCK FALSE
