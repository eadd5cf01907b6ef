CONSTANTS
  chat = chat
  Forwarder = forwarder
  Callers = {forwarder, chat}
  Events <- MCEvents
  NoEvent = NoEvent
  MaxMessages = 2
  MaxFaults = 2
SPECIFICATION FairSpec
INVARIANTS OnlyFaultsLoseARecovery CopiesNeedFaults
PROPERTIES EveryRecoveryIsSettled ImplementsQueue
CHECK_DEADLOCK FALSE
