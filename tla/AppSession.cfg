SPECIFICATION AppSpec
CONSTANTS
  Tab = tab
  Browsers = {tab}
  Requests = {q1, q2}
  Nobody = Nobody
  MaxPairs = 3
  MaxLoads = 1
  Faults = {"lostReply"}
  MaxFaults = 1
SYMMETRY Symmetric
INVARIANTS AppTypeOK GuestHasNoSession
PROPERTY LoginSticks
CHECK_DEADLOCK FALSE
