SPECIFICATION Spec
CONSTANTS
  Streams <- MCStreams
  DefaultBufferSize = 4
  MaxBufferSize = 32
  ClientBufferSize = 20
  BypassBufferSize = 14
  MaxLost = 1
INVARIANTS
  DoneAsMeant
  LostOnlyWhereFragile
  EverythingSeen
PROPERTIES
  AttributesKept
  DrawnAsIs
CHECK_DEADLOCK FALSE
