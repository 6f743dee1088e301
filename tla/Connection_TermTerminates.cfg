SPECIFICATION FairSpec
CONSTANTS
  MaxConnections = 1
  Groups = 1
  MaxSignals = 1
PROPERTY
  TermTerminates
\* The process ends.
CHECK_DEADLOCK FALSE
