SPECIFICATION FairSpec
CONSTANTS
  capacity = 2
  Packets <- MCPackets
  Crc <- MCCrc
  MaxLost = 1
  MaxOffered = 4
INVARIANTS
  TypeOK
  Resync
PROPERTIES
  ImplementsFifo
  PendingSettles
CHECK_DEADLOCK FALSE
