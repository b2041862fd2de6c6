SPECIFICATION Spec
CONSTANTS
  Commands = {1, 9, 48}
  Values = {0, 1, 41, 100, 128, 245, 250, 255}
  MaxFlips = 3
INVARIANTS
  LoopDivides
  AlteredIsRejected
CHECK_DEADLOCK FALSE
