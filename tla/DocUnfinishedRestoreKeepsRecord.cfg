SPECIFICATION Spec
CONSTANTS
  Weather = {"cool", "hot"}
  Plans <- FanPlans
  ScopedPlans <- None
  SessionIds <- None
  Schemes = {s1}
  NoScheme = NoScheme
  VerifyPolls = 1
INVARIANT
  UnfinishedRestoreKeepsRecord
