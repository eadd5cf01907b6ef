CONSTANTS
  MaxIterations = 2
  MaxCalls = 2
  MaxDeltas = 1
  WriteCalls <- SecondIsAWrite
  OrchCapacity = 1
  SseCapacity = 1
SPECIFICATION StalledSpec
CHECK_DEADLOCK FALSE
PROPERTY DeadlineIsHard
