SPECIFICATION SeedSpec
CONSTANTS
  Channel = {"a", "b"}
  MaxFiles = 2
  RecordSize = 2
  DayLength = 2
  MaxSamples = 2
  MaxTime = 2
  MaxReceived = 5
INVARIANTS
  RecordsInPlace
  SamplesConserved
  LossIsLocal
  RingInOrder
CHECK_DEADLOCK FALSE
