CONSTANTS
  SeqMod = 256
  MaxPending = 5
  Sizes = {64, 92, 128}
  MaxQueued = 5
  PayloadLen = 64
  OrderingLen = 2
  BaspLen = 20
SPECIFICATION Spec
INVARIANTS
  TypeOK
  SizesAddUp
  NothingStranded
  InStep
PROPERTIES
  ImplementsPacketQueue
  EveryLoopEnds
CHECK_DEADLOCK FALSE
