SPECIFICATION Spec
CONSTANTS
  Crc <- MCCrc
  Telemetry <- MCTelemetry
  Lines <- MCLines
  Leftovers = {144, 250}
  TextBytes = {48, 64, 69}
  Reports <- MCReports
  MaxFaults = 1
  MaxTelemetry = 4
  MaxMessages = 6
INVARIANTS
  TypeOK
  Resync
PROPERTIES
  ShownAsSent
CHECK_DEADLOCK FALSE
