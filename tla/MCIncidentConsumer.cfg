CONSTANTS
  s1 = s1
  s2 = s2
  s3 = s3
  MaxPerHour = 1
  Window = 2
  DebounceWindow = 2
  Services = {s1, s2, s3}
  Incidents <- SmallIncidents
  MaxMessages = 3
  DiagnoseTimeout = 1
  MaxNow = 4
  MaxFaults = 1
SPECIFICATION FairSpec
INVARIANT AtMostTwiceTheBudget
INVARIANT CircuitOpensOnSpentBudget
INVARIANT DiagnosesAreSpaced
PROPERTIES EveryIncidentIsSettled ImplementsQueue
CHECK_DEADLOCK FALSE
