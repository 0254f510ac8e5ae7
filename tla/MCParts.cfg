SPECIFICATION Spec
CONSTANTS
  Written = {"level"}
  MaxFifo = 2
  MaxBoots = 3
  MaxBios = 2
  JournalLimit = 3
  MaxEntries = 9
  MaxTorn = 2
  Schemes = {s1, s2}
  Levels <- MCLevels
  Requests <- MCRequests
  Hidden <- MCHidden
  MaxForeign = 1
  MaxMisses = 1
  Originals <- MCOriginals
  LimitRequests <- MCLimitRequests
  GpuRequests <- MCGpuRequests
  Patches <- MCPatches
  Polls = 2
  Profiles <- MCProfiles
  Tables <- MCTables
  FanRequests <- MCFanRequests
  Apps = {p1, p2, p3}
  Desktops = {p1, p2}
  Counter = 16
  Started = 14
  Burns = {3}
  MaxTime = 4
  MaxRounds = 3
  MaxStall = 1
  RingCapacity = 2
  RepushTicks = 2
  FanInterval = 2
  Outages <- MCOutages
  Builtins <- MCBuiltins
  UserFiles <- MCFiles
  Readable = {"cpu", "gpu", "limits"}
  Manual <- MCManual
  Outside = {0}
  Full = 3
  MaxMoves = 1
  Curves <- MCCurves
  CpuTemps = {0}
  GpuTemps = {6}
  Clamp <- MCClamp
  MaxFaults = 2
  Launches = {p1, p2, p3}
  Background = {p1, p3}
INVARIANTS
  SamplesAreTrue
  StampIsTrue
  WakeIsKept
  ReadbackIsOfTheWrite
  UnconfirmedSwitchIsRecorded
  WritableIsProven
  LatestEntriesKept
  AppliedIsInForce
  MinimumBelowMaximum
  UsableIsProven
  OneWriter
PROPERTIES
  KeepsFirmwarePromises
  DroppedIsGivenBack
  CurveSettles
CHECK_DEADLOCK FALSE
