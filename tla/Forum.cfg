SPECIFICATION Spec
CONSTANTS
  Requests = {q1, q2}
  MaxRows = 4
INVARIANTS TypeOK CountsExact LastReplyIsLive TopicIsStaleOnlyByOverlap LastReplyIsNewest
PROPERTY TopicMovesForward
CHECK_DEADLOCK FALSE
