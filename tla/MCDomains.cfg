SPECIFICATION Spec
CONSTANTS
  Weather = {"cool"}
  Plans <- DomainPlans
  ScopedPlans <- None
  SessionIds <- None
  Schemes = {s1}
  NoScheme = NoScheme
  VerifyPolls = 2
PROPERTY
  KeepsWriteAheadLedger
