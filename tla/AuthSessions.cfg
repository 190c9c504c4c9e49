SPECIFICATION Spec
CONSTANTS
  Browsers = {b1}
  Requests = {q1, q2}
  Nobody = Nobody
  MaxPairs = 3
  Faults = {"redisError", "redisLoss", "handlerError", "lostReply"}
  MaxFaults = 1
SYMMETRY Symmetric
INVARIANTS ExchangedIsNotStored LoggedOutStaysOut BrowserKeepsSession
  ExchangedOnce SessionsEnd
PROPERTY NoFalseAlarm
CHECK_DEADLOCK FALSE
