SPECIFICATION Spec
CONSTANTS
  MaxConnections = 1
  Groups = 1
  MaxSignals = 1
INVARIANT
  WaitedForRequests
\* The process ends.
CHECK_DEADLOCK FALSE
