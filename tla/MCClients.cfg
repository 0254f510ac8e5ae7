SPECIFICATION FairSpec
CONSTANTS
  Depth = 1
  MaxSessions = 2
  Profiles = {"quiet"}
  Knobs = {k1}
INVARIANTS
  SessionIsKnown
  LastRestoreIsLast
PROPERTIES
  AppliesPublishedProfiles
  ManualTakesOver
  ClicksAreDecided
  ShutdownEnds
CHECK_DEADLOCK FALSE
