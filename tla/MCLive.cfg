SPECIFICATION FairSpec
CONSTANTS
  Weather = {"cool", "hot"}
  Plans <- LivePlans
  ScopedPlans <- None
  SessionIds <- None
  Schemes = {s1}
  NoScheme = NoScheme
  VerifyPolls = 1
PROPERTIES
  PlanEnds
  HeatEngages
  OverrideReachesMax
