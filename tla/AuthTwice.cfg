SPECIFICATION Spec
CONSTANTS
  Browsers = {b1}
  Requests = {q1}
  Nobody = Nobody
  MaxPairs = 4
  Faults = {"handlerError"}
  MaxFaults = 1
SYMMETRY Symmetric
INVARIANT HandledOnce
CHECK_DEADLOCK FALSE
