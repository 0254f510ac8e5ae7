SPECIFICATION FairSpec
CONSTANTS
  Pids = {p1}
  MaxBorn = 2
  MaxFaults = 1
  SelfSet <- SecondSetsItself
  ManualWrites <- CpuPolicy
  Ineligible <- NoProcess
INVARIANTS
  NothingLeftBehind
  StoppedReleasedAll
PROPERTIES
  ManualWins
  ReusedPidUntouched
  OffBatteryReleases
  BatteryTakesOver
CHECK_DEADLOCK FALSE
