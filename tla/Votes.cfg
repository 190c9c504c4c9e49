SPECIFICATION Spec
CONSTANTS
  Items = {i1, i2}
  Users = {u1, u2}
  Requests = {q1, q2, q3}
  NoOne = NoOne
  MaxVotes = 6
SYMMETRY Symmetric
INVARIANTS TotalMatchesRows CountersDriftOnlyByOverlap
CHECK_DEADLOCK FALSE
