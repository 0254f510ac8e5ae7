SPECIFICATION FairSpec
CONSTANTS
  Collectors = {"fans", "cpu"}
  HpFans = "fans"
  MaxAsked = 1
INVARIANTS
  TeardownInOrder
PROPERTIES
  SampleReachesReader
  WorkersStop
CHECK_DEADLOCK FALSE
