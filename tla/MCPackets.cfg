SPECIFICATION Spec
CONSTANTS
  ServerLists <- ModelLists
  PatternLists <- ModelPatterns
  DefaultNet <- DefaultCode
  DefaultLoc <- DefaultCode
  ByteValues = 4
  MaxOut = 33
  Waves <- ModelWaves
  Starts = {1, 5}
  FieldCounts = {0, 3, 6, 12}
  MaxSamples = 3
  Windows <- ModelWindows
INVARIANTS
  SelectionRight
  MetaInOrder
  PacketRight
  EndsOnlyIfUnreadable
CHECK_DEADLOCK FALSE
