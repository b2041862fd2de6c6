SPECIFICATION Spec
CONSTANTS
  Wrap = 5
  Word = 16
  WAIT = 2
  Latency = 1
  BaroLength = 2
  MpuLengths = {1}
  MaxAge = 8
INVARIANTS
  TypeOK
  WaitsItsTime
  TransfersWhole
PROPERTY
  ConversionsFinish
CHECK_DEADLOCK FALSE
