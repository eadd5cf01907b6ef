CONSTANTS
  NumServers = 2
  Tools = {t1, t2}
  Calls = {c1, c2}
  None = None
  MaxFaults = 1
SPECIFICATION FairSpec
CHECK_DEADLOCK FALSE
INVARIANTS RoutedToProvider NoCallFailsOnStaleSession
PROPERTIES StartupEnds EveryCallReturns ImplementsToolCall
