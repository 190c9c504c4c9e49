SPECIFICATION Spec
CONSTANTS
  Calls = {c1, c2}
  PageSize = 2
  First = 1
  MaxReplies = 3
  MaxTexts = 2
  Votable = {2}
  ParentOf <- MCParentOf
  Faults = {"refused", "lost"}
  MaxFaults = 1
SYMMETRY Symmetric
INVARIANTS TypeOK PageShownIsPageAsked PageIsWellFormed OwnReplyIsShown ArrowsShowStoredVotes
  TextIsPostedOnce
CHECK_DEADLOCK FALSE
