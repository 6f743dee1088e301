SPECIFICATION FairSpec
CONSTANTS
  MaxConnections = 2
  Groups = 2
  MaxSignals = 1
INVARIANTS
  RequestsBeforeTeardown
  RequestsInOrder
PROPERTIES
  ShutdownCompletes
  ForceCloseCloses
  AllRequested
\* The process ends.
CHECK_DEADLOCK FALSE
