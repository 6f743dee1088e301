SPECIFICATION Spec
CONSTANTS
  PacketLen = 2
  BufferLength = 3
  RawStreams = {TRUE, FALSE}
  MaxDatas = {0, 3}
  BuffDates = {0, 5}
  Start = 4
  MaxTime = 9
INVARIANTS
  TypeOK
  DataContinuity
  DapCoversMissing
  HandledOnce
