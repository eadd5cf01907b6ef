CONSTANTS
  Requests = {r1}
  Streams = {s1}
  FixFlows = {f1, f2}
  FIX_FLOWS = 1
  Incident = incident
  Sweeper = sweeper
  Drained <- TwoTasks
  MaxRounds = 3
  MaxCalls = 2
  Triggers = {0, 2}
  DAY = 4
  MINUTE = 6
  POLL = 3
  MaxLate = 2
  MaxGap = 1
  MaxRun = 10
  MaxStarts = 2
  LastMinute = 6
  Blocks = {0, 1}
  MaxParts = 2
  MAX_RETRIES = 3
SPECIFICATION ServeSpec
CHECK_DEADLOCK FALSE
INVARIANTS NoClientIsCutOff ProposalsAreTold OnlyGoodAnswersAreKept OncePerTrigger
PROPERTIES NoTriggerIsMissed ImplementsModelRound ChatComesBack ShutdownCompletes EveryRunEnds
