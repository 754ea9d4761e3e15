SPECIFICATION Spec
CONSTANTS
  a = a  b = b  None = None
  Path = {a, b}
  Version <- MCUpgrade
  Interval = 2
  MaxChanges = 2
  MaxDeaths = 1
SYMMETRY Symmetry
INVARIANTS DifferenceIsReported RecordedIsAsSaved FileFollowsTable OneCopyLeft
CHECK_DEADLOCK FALSE
