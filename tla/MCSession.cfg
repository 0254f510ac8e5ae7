SPECIFICATION Spec
CONSTANTS
  Weather = {"cool"}
  Plans <- ManualPlans
  ScopedPlans <- SessionPlans
  SessionIds <- OneSession
  Schemes = {s1, s2}
  NoScheme = NoScheme
  VerifyPolls = 2
INVARIANTS
  EarlierRecordKept
  SessionIsDurable
PROPERTY
  ClosedSessionRestoredCpu
