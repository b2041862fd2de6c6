SPECIFICATION Spec
CONSTANTS
  Rotors <- MCRotors
  Speeds = {35}
  MIN_RPM = 20
  MAX_RPM = 40
  HOVER_RPM = 25
  RPM_STEP = 10
  TELEMETRY_TICKS = 2
  Commands = {"MODE_TYPE", "JOY_LIFT"}
  ModeValues = {"SAFE_MODE", "MANUAL_MODE"}
  Lifts = {0, 200}
  LogValues = {}
  BatterySamples = {FALSE}
INVARIANTS
  SafeMotorsOff
