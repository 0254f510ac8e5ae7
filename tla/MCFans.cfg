SPECIFICATION Spec
CONSTANTS
  Weather = {"cool", "hot", "gpuHot", "gpuOnly", "stale", "staleHot", "fanless", "frozen"}
  Plans <- FanPlans
  ScopedPlans <- None
  SessionIds <- None
  Schemes = {s1}
  NoScheme = NoScheme
  VerifyPolls = 1
INVARIANTS
  LedgerCovers
  TrackedIsOwned
  StalePlanNeverWrites
PROPERTY
  OverrideHoldsMax
