SPECIFICATION FairSpec
CONSTANTS
  SeqNos = {0, 1, 2, 3, 4}
  MaxItems = 3
  TimeoutRecvs = {0, 1}
  MaxCopies = 2
INVARIANTS
  TypeOK
  BufferWaitsForGap
  BufferBounded
  DeliveredInOrder
  TwiceOnlyByForcedNull
  LosslessUntilGivenUp
  LastTimeIsEndOfHandled
PROPERTY
  BufferedIsHandled
