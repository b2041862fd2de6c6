SPECIFICATION FairSpec
CONSTANTS
  Rotors <- MCOneRotor
  Speeds = {35}
  MIN_RPM = 20
  MAX_RPM = 40
  HOVER_RPM = 25
  RPM_STEP = 10
  TELEMETRY_TICKS = 2
  Commands = {"LOG"}
  ModeValues = {}
  Lifts = {0}
  LogValues = {"LOG_UPLOAD"}
  BatterySamples = {FALSE}
PROPERTIES
  UploadHappens
