SPECIFICATION FairSpec
CONSTANTS
  Rotors <- MCOneRotor
  Speeds = {35}
  MIN_RPM = 20
  MAX_RPM = 40
  HOVER_RPM = 25
  RPM_STEP = 10
  TELEMETRY_TICKS = 2
  Commands = {"MODE_TYPE", "JOY_LIFT", "LOG"}
  ModeValues = {"SAFE_MODE", "PANIC_MODE", "MANUAL_MODE", "YAW_CONTROL_MODE", "ABORT"}
  Lifts = {0, 200}
  LogValues = {"LOG_UPLOAD"}
  BatterySamples = {FALSE, TRUE}
PROPERTIES
  PanicEnds
  WatchdogFires
  AbortStops
  BatteryStops
