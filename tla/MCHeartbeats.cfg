CONSTANTS
  Services = {mcp_master, other}
  SECOND = 2
  STALE = 2
  MaxDelay = 1
  MaxSkew = 1
  MaxNow = 8
  Interval = 1
  MaxBackoff = 2
  ConnectTimeout = 2
  NoticeTime = 2
  MaxReply = 1
  MaxFaults = 2
  MaxClock = 24
SPECIFICATION BeatsSpec
CHECK_DEADLOCK FALSE
INVARIANTS NoFalseUp NoFalseDown OwnCadence
