SPECIFICATION Spec
CONSTANTS
  Rotors <- MCRotors
  Speeds = {20, 35}
  MIN_RPM = 20
  MAX_RPM = 40
  HOVER_RPM = 25
  RPM_STEP = 10
  TELEMETRY_TICKS = 2
  Commands = {"MODE_TYPE", "JOY_LIFT", "RAW_MODE"}
  ModeValues = {"SAFE_MODE", "PANIC_MODE", "MANUAL_MODE", "FULL_CONTROL_MODE", "CALIBRATION_MODE", "ABORT"}
  Lifts = {0, 200}
  LogValues = {}
  BatterySamples = {FALSE, TRUE}
INVARIANTS
  TypeOK
  ModeCoherence
  PanicHeld
  PanicLands
  WatchdogSound
  LowBatteryGrounded
PROPERTIES
  ImplementsFlightModes
