SPECIFICATION FairSpec
CONSTANTS
  HeaderLength = 3
  Kinds <- ModelKinds
  MaxMessages = 3
  BufferLength = 2
  RecvTimeouts = {0, 1, 5}
  HighestTimeout = 2
  Watchdog = 4
INVARIANTS
  NothingLostUntilFault
  SilenceBounded
PROPERTIES
  ImplementsLossyFifo
  SilenceEndsConnection
CHECK_DEADLOCK FALSE
