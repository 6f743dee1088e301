SPECIFICATION FairSpec
CONSTANTS
  Channels <- ModelChannels
  WithInfo = {"c1", "c3"}
  MaxPackets = 1
  Periods = 2
  MaxTimes = 2
  MaxRest = 2
INVARIANTS
  InStep
  FewUnread
  Complete
PROPERTY
  Ends
CHECK_DEADLOCK FALSE
