SPECIFICATION FairSpec
CONSTANTS
  QUEUE_SIZE = 2
  COUNT_SIZE = 4
  Bytes = {b1, b2}
  Nothing = Nothing
  MaxPut = 7
INVARIANTS
  TypeOK
  Handshake
PROPERTIES
  ImplementsLine
  AllLeave
