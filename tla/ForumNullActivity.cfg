SPECIFICATION Spec
CONSTANTS
  Requests = {q1}
  MaxRows = 4
INVARIANT TopicFieldsInSync
CHECK_DEADLOCK FALSE
