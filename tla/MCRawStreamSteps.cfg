SPECIFICATION Spec
CONSTANTS
  SeqNos = {0, 1, 2, 3}
  MaxItems = 3
  TimeoutRecvs = {0, 1}
  MaxCopies = 2
INVARIANTS
  HeapIsBuffer
  NoDanglingPointer
PROPERTY
  ImplementsRawStream
