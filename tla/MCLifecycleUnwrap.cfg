CONSTANTS
  Requests = {r1}
  Streams = {s1, s2}
  FixFlows = {f1}
  FIX_FLOWS = 1
  Incident = incident
  Sweeper = sweeper
  Drained <- TwoTasks
SPECIFICATION Spec
CHECK_DEADLOCK FALSE
INVARIANT PoolIsShutDown
