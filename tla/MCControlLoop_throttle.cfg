SPECIFICATION Spec
CONSTANTS
  MIN_RPM = 200
  MAX_RPM = 700
  HOVER_LIFT_FORCE = 107
  DRONE_LIFT_CONSTANT = 6000
  DRONE_ROLL_CONSTANT = 1000
  DRONE_PITCH_CONSTANT = 1000
  DRONE_YAW_CONSTANT = 3000
  MIN_TRIM <- MCMIN_TRIM
  MAX_TRIM = 2
  MAX_CONTROLGAIN = 1
  Lifts <- MCLifts
  Tilts <- MCTilts
  Samples <- MCSamples
  Pressures <- MCPressures
  MaxPackets = 2
INVARIANT
  ControlWhenThrottleUp
