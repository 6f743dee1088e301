SPECIFICATION Spec
CONSTANTS
  PacketLen = 3
  BufferLength = 3
  RawStreams = {FALSE}
  MaxDatas = {0}
  BuffDates = {4}
  Start = 4
  MaxTime = 9
INVARIANT SamplesKeepTime
