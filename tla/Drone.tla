------------------------------- MODULE Drone -------------------------------
(***************************************************************************)
(* The flight control core of the Quadrupel firmware: the main program     *)
(* (process_drone and the mode functions it dispatches to) interleaved     *)
(* with the two interrupt handlers that share its globals, UART0 (packets  *)
(* from the PC) and TIMER2 (control, telemetry and cable ticks).           *)
(*                                                                         *)
(* Every interrupt has priority 3, so handlers do not nest: one handler is *)
(* one action.  The main program is preempted between any two accesses to  *)
(* a global a handler shares, so each such access is a step of its own,    *)
(* named by the pair <<fn, at>>: the function main executes and where in   *)
(* it.  Accesses no handler can observe apart are merged into one step.    *)
(***************************************************************************)
EXTENDS Integers, FiniteSets

CONSTANTS
  Rotors,           \* the indexes of ae[]
  Speeds,           \* the non-zero set points the mix may produce
  MIN_RPM, MAX_RPM, HOVER_RPM, RPM_STEP,      \* process_drone.h
  TELEMETRY_TICKS,  \* 2.5 ms ticks in a telemetry period (200 in timers.c)
  Commands,         \* the commands the PC sends in this instance
  ModeValues,       \* the values of its MODE_TYPE packets
  Lifts,            \* the values of its JOY_LIFT packets, as joy_lift stores them
  LogValues,        \* the values of its LOG packets
  BatterySamples    \* outcomes of bat_volt <= BATT_THRESHOLD: a set of Booleans

SAFE_MODE         == "SAFE_MODE"
PANIC_MODE        == "PANIC_MODE"
MANUAL_MODE       == "MANUAL_MODE"
YAW_CONTROL_MODE  == "YAW_CONTROL_MODE"
FULL_CONTROL_MODE == "FULL_CONTROL_MODE"
CALIBRATION_MODE  == "CALIBRATION_MODE"
ABORT             == "ABORT"     \* a MODE_TYPE value that is no mode
NO_MODE           == "NO_MODE"   \* the 0 of a .bss global, which is no mode either

FlightModes == {MANUAL_MODE, YAW_CONTROL_MODE, FULL_CONTROL_MODE}
Modes       == FlightModes \cup {SAFE_MODE, PANIC_MODE, CALIBRATION_MODE}

ASSUME RotorsAssumption == Rotors # {}
ASSUME SpeedAssumption ==
  /\ MIN_RPM \in Nat /\ MAX_RPM \in Nat /\ HOVER_RPM \in Nat /\ RPM_STEP \in Nat
  /\ 0 < RPM_STEP /\ 0 < HOVER_RPM /\ HOVER_RPM <= MAX_RPM
  /\ 0 < MIN_RPM /\ Speeds \subseteq MIN_RPM..MAX_RPM
ASSUME TickAssumption == TELEMETRY_TICKS \in Nat \ {0} /\ TELEMETRY_TICKS < 256
ASSUME PacketAssumption ==
  /\ ModeValues \subseteq Modes \cup {ABORT}
  /\ Lifts \subseteq 0..255
  /\ BatterySamples \subseteq BOOLEAN

VARIABLES
  fn, at,                   \* the function main executes, and its position in it
  throttle_up,              \* the local outcome of joy_lift > 5 in the mix
  current_mode, change_mode, stop, ae, joy_lift,        \* fields of drone
  cc,                       \* NRF_TIMER1->CC[] - 1000: what the motors get
  control_loop_flag, control_loop_flag_raw, telemetry_flag,
  control_loop_timer, telemetry_timer,
  cable_disconnect_flag,
  batt_low_flag, abort_flag, log_upload_flag,
  raw_mode_flag, imu_init_flag,
  imu_dmp,                  \* how the last imu_init configured the MPU
  quiet                     \* history: telemetry ticks since the last byte, up to 2

mainVars  == <<fn, at>>
modeVars  == <<current_mode, change_mode>>
rotorVars == <<throttle_up, ae, cc>>
tickVars  == <<control_loop_flag, control_loop_flag_raw, telemetry_flag,
               control_loop_timer, telemetry_timer>>
cableVars == <<cable_disconnect_flag, quiet>>
stopVars  == <<stop, batt_low_flag, abort_flag, log_upload_flag>>
imuVars   == <<raw_mode_flag, imu_init_flag, imu_dmp>>
vars == <<mainVars, modeVars, rotorVars, joy_lift, tickVars, cableVars, stopVars,
          imuVars>>

-----------------------------------------------------------------------------
(***************************************************************************)
(* Where main can be.                                                      *)
(***************************************************************************)

FlightLoops == {"manual_mode", "yaw_control_mode", "full_control_mode",
                "full_control_mode_raw"}

\* The mode each mode function serves.
ModeOf == [safe_mode             |-> SAFE_MODE,
           panic_mode            |-> PANIC_MODE,
           manual_mode           |-> MANUAL_MODE,
           yaw_control_mode      |-> YAW_CONTROL_MODE,
           full_control_mode     |-> FULL_CONTROL_MODE,
           full_control_mode_raw |-> FULL_CONTROL_MODE,
           calibration_mode      |-> CALIBRATION_MODE]

\* Main program positions: process_drone is a loop over "stop", "clear", "guard",
\* "to_safe" and "switch"; every mode function returns to "stop".
DispatchLabels  == {"stop", "clear", "guard", "to_safe", "switch"}
BatteryLabels   == {"battery", "batt_mode", "batt_flag"}
SafeLabels      == {"enter", "loop", "ctl", "abort", "low", "tele", "imu", "imu_done",
                    "upload"} \cup BatteryLabels
FlightLabels    == {"loop", "cable", "cable_flag", "cable_change", "cable_mode", "ctl",
                    "mix", "write", "motors", "tele"} \cup BatteryLabels
PanicLabels     == {"hover", "hover_motors", "descend", "motors", "tele", "landed",
                    "left"}
CalibrateLabels == {"samples", "landed", "left"}

Positions == [main                  |-> {"boot", "reset"},
              process_drone         |-> DispatchLabels,
              safe_mode             |-> SafeLabels,
              panic_mode            |-> PanicLabels,
              manual_mode           |-> FlightLabels,
              yaw_control_mode      |-> FlightLabels,
              full_control_mode     |-> FlightLabels,
              full_control_mode_raw |-> FlightLabels,
              calibration_mode      |-> CalibrateLabels]

\* The order of the calls in one iteration.  manual_mode reads the battery after the
\* mix and updates the motors last; the sensor modes read it first, in read_sensor.
ManualOrder == [ctl |-> "mix", mix |-> "write", write |-> "battery",
                battery |-> "tele", tele |-> "motors", motors |-> "loop"]
SensorOrder == [ctl |-> "battery", battery |-> "mix", mix |-> "write",
                write |-> "motors", motors |-> "tele", tele |-> "loop"]
SafeOrder   == [ctl |-> "abort", abort |-> "battery", battery |-> "low", low |-> "tele",
                tele |-> "imu", imu_done |-> "upload", upload |-> "loop"]
PanicOrder  == [hover |-> "hover_motors", hover_motors |-> "descend",
                motors |-> "tele", tele |-> "descend"]

Orders == [manual_mode           |-> ManualOrder,
           yaw_control_mode      |-> SensorOrder,
           full_control_mode     |-> SensorOrder,
           full_control_mode_raw |-> SensorOrder,
           safe_mode             |-> SafeOrder,
           panic_mode            |-> PanicOrder]

After(step) == Orders[fn][step]

Goto(label)    == fn' = fn /\ at' = label
Enter(f, label) == fn' = f /\ at' = label
Return         == Enter("process_drone", "stop")

AllStill == \A r \in Rotors : ae[r] = 0
Flying   == fn \in FlightLoops

-----------------------------------------------------------------------------
(***************************************************************************)
(* Power-on and reset (in4073.c, reset_drone).  The interrupts are on from *)
(* the first driver's init, with current_mode still the 0 of .bss.         *)
(***************************************************************************)
Init ==
  /\ fn = "main" /\ at = "boot"
  /\ current_mode = NO_MODE /\ change_mode = 0 /\ stop = 0 /\ joy_lift = 0
  /\ throttle_up = FALSE
  /\ ae = [r \in Rotors |-> 0] /\ cc = [r \in Rotors |-> 0]
  /\ control_loop_flag = FALSE /\ control_loop_flag_raw = FALSE
  /\ telemetry_flag = FALSE /\ control_loop_timer = 0 /\ telemetry_timer = 0
  /\ cable_disconnect_flag = 1 /\ quiet = 0
  /\ batt_low_flag = FALSE /\ abort_flag = FALSE /\ log_upload_flag = FALSE
  /\ raw_mode_flag = FALSE /\ imu_init_flag = TRUE /\ imu_dmp = TRUE

ResetDrone ==
  /\ fn = "main" /\ at = "boot"
  /\ Return
  /\ current_mode' = SAFE_MODE /\ stop' = 0 /\ change_mode' = 0
  /\ joy_lift' = 0 /\ batt_low_flag' = FALSE
  /\ UNCHANGED <<rotorVars, tickVars, cableVars, abort_flag, log_upload_flag, imuVars>>

\* NVIC_SystemReset: every global is what Init says again, and the motors stop.
SystemReset ==
  /\ fn = "main" /\ at = "reset"
  /\ at' = "boot" /\ UNCHANGED fn
  /\ current_mode' = NO_MODE /\ change_mode' = 0 /\ stop' = 0 /\ joy_lift' = 0
  /\ throttle_up' = FALSE
  /\ ae' = [r \in Rotors |-> 0] /\ cc' = [r \in Rotors |-> 0]
  /\ control_loop_flag' = FALSE /\ control_loop_flag_raw' = FALSE
  /\ telemetry_flag' = FALSE /\ control_loop_timer' = 0 /\ telemetry_timer' = 0
  /\ cable_disconnect_flag' = 1 /\ quiet' = 0
  /\ batt_low_flag' = FALSE /\ abort_flag' = FALSE /\ log_upload_flag' = FALSE
  /\ raw_mode_flag' = FALSE /\ imu_init_flag' = TRUE /\ imu_dmp' = TRUE

-----------------------------------------------------------------------------
(***************************************************************************)
(* process_drone: the loop that dispatches to the mode functions.          *)
(***************************************************************************)
StopTest ==
  /\ at = "stop"
  /\ IF stop = 0 THEN Goto("clear") ELSE Enter("main", "reset")
  /\ UNCHANGED <<modeVars, rotorVars, joy_lift, tickVars, cableVars, stopVars, imuVars>>

ClearChange ==
  /\ at = "clear"
  /\ change_mode' = 0
  /\ Goto("guard")
  /\ UNCHANGED <<current_mode, rotorVars, joy_lift, tickVars, cableVars, stopVars, imuVars>>

ThrottleGuard ==
  /\ at = "guard"
  /\ IF joy_lift > 10 /\ current_mode \notin {SAFE_MODE, PANIC_MODE}
       THEN Goto("to_safe") ELSE Goto("switch")
  /\ UNCHANGED <<modeVars, rotorVars, joy_lift, tickVars, cableVars, stopVars, imuVars>>

ThrottleToSafe ==
  /\ at = "to_safe"
  /\ current_mode' = SAFE_MODE
  /\ Goto("stop")
  /\ UNCHANGED <<change_mode, rotorVars, joy_lift, tickVars, cableVars, stopVars, imuVars>>

Switch ==
  /\ at = "switch"
  /\ \/ current_mode = PANIC_MODE       /\ Enter("panic_mode", "hover")
     \/ current_mode = MANUAL_MODE      /\ Enter("manual_mode", "loop")
     \/ current_mode = YAW_CONTROL_MODE /\ Enter("yaw_control_mode", "loop")
     \/ current_mode = FULL_CONTROL_MODE /\ raw_mode_flag
          /\ Enter("full_control_mode_raw", "loop")
     \/ current_mode = FULL_CONTROL_MODE /\ ~raw_mode_flag
          /\ Enter("full_control_mode", "loop")
     \/ current_mode = CALIBRATION_MODE /\ Enter("calibration_mode", "samples")
     \/ current_mode \in {SAFE_MODE, NO_MODE} /\ Enter("safe_mode", "enter")
  /\ UNCHANGED <<modeVars, rotorVars, joy_lift, tickVars, cableVars, stopVars, imuVars>>

-----------------------------------------------------------------------------
(***************************************************************************)
(* What the mode functions share: the loop test, the wait for the control  *)
(* flag, the battery check, the telemetry and the motors.                  *)
(***************************************************************************)
LoopTest ==
  /\ at = "loop"
  /\ IF change_mode # 0 \/ stop # 0 THEN Return
     ELSE Goto(IF Flying THEN "cable" ELSE "ctl")
  /\ UNCHANGED <<modeVars, rotorVars, joy_lift, tickVars, cableVars, stopVars, imuVars>>

\* Test and clear of the flag TIMER2 sets; the flying loops also wait for a good battery.
ControlFlag ==
  /\ at = "ctl"
  /\ LET raw == fn = "full_control_mode_raw"
         due == /\ IF raw THEN control_loop_flag_raw ELSE control_loop_flag
                /\ Flying => ~batt_low_flag
     IN  /\ Goto(IF due THEN After("ctl") ELSE "loop")
         /\ control_loop_flag' = (control_loop_flag /\ ~(due /\ ~raw))
         /\ control_loop_flag_raw' = (control_loop_flag_raw /\ ~(due /\ raw))
  /\ UNCHANGED <<telemetry_flag, control_loop_timer, telemetry_timer>>
  /\ UNCHANGED <<modeVars, rotorVars, joy_lift, cableVars, stopVars, imuVars>>

\* The end of read_battery_level and of read_sensor: a sample is requested, main waits
\* longer than its conversion takes, and tests the voltage and the mode.
Battery ==
  /\ at = "battery"
  /\ \E low \in BatterySamples :
       Goto(IF low /\ current_mode # SAFE_MODE THEN "batt_mode" ELSE After("battery"))
  /\ UNCHANGED <<modeVars, rotorVars, joy_lift, tickVars, cableVars, stopVars, imuVars>>

\* Mutant of BatteryMode: the flag is set, but panic is not called for.
BatteryModeUnchanged ==
  /\ at = "batt_mode"
  /\ Goto("batt_flag")
  /\ UNCHANGED <<modeVars, rotorVars, joy_lift, tickVars, cableVars, stopVars, imuVars>>

BatteryMode ==
  /\ at = "batt_mode"
  /\ current_mode' = PANIC_MODE
  /\ Goto("batt_flag")
  /\ UNCHANGED <<change_mode, rotorVars, joy_lift, tickVars, cableVars, stopVars, imuVars>>

BatteryFlag ==
  /\ at = "batt_flag"
  /\ change_mode' = 1 /\ batt_low_flag' = TRUE
  /\ Goto(After("battery"))
  /\ UNCHANGED <<current_mode, rotorVars, joy_lift, tickVars, cableVars, stop, abort_flag,
                 log_upload_flag, imuVars>>

\* check_log_tele_flags.  Its other half, update_log, touches only the log.
Telemetry ==
  /\ at = "tele"
  /\ telemetry_flag' = (telemetry_flag /\ (batt_low_flag \/ log_upload_flag))
  /\ Goto(After("tele"))
  /\ UNCHANGED <<control_loop_flag, control_loop_flag_raw, control_loop_timer,
                 telemetry_timer, modeVars, rotorVars, joy_lift, cableVars, stopVars, imuVars>>

UpdateMotors ==
  /\ at \in {"motors", "hover_motors"}
  /\ cc' = ae
  /\ Goto(After(at))
  /\ UNCHANGED <<modeVars, throttle_up, ae, joy_lift, tickVars, cableVars, stopVars, imuVars>>

\* The end of panic_mode and calibration_mode, in two writes.
BackToSafe ==
  /\ at = "landed"
  /\ current_mode' = SAFE_MODE
  /\ Goto("left")
  /\ UNCHANGED <<change_mode, rotorVars, joy_lift, tickVars, cableVars, stopVars, imuVars>>

BackToSafeChange ==
  /\ at = "left"
  /\ change_mode' = 1
  /\ Return
  /\ UNCHANGED <<current_mode, rotorVars, joy_lift, tickVars, cableVars, stopVars, imuVars>>

-----------------------------------------------------------------------------
(***************************************************************************)
(* The flying loops: manual_mode, yaw_control_mode, full_control_mode and  *)
(* full_control_mode_raw.                                                  *)
(***************************************************************************)
CableTest ==
  /\ at = "cable"
  /\ Goto(IF cable_disconnect_flag = 2 THEN "cable_flag" ELSE "ctl")
  /\ UNCHANGED <<modeVars, rotorVars, joy_lift, tickVars, cableVars, stopVars, imuVars>>

CableFlag ==
  /\ at = "cable_flag"
  /\ cable_disconnect_flag' = 1
  /\ Goto("cable_change")
  /\ UNCHANGED <<modeVars, rotorVars, joy_lift, tickVars, quiet, stopVars, imuVars>>

CableChange ==
  /\ at = "cable_change"
  /\ change_mode' = 1
  /\ Goto("cable_mode")
  /\ UNCHANGED <<current_mode, rotorVars, joy_lift, tickVars, cableVars, stopVars, imuVars>>

CableMode ==
  /\ at = "cable_mode"
  /\ current_mode' = PANIC_MODE
  /\ Return
  /\ UNCHANGED <<change_mode, rotorVars, joy_lift, tickVars, cableVars, stopVars, imuVars>>

\* calculate_rotor_speeds: joy_lift is read for the throttle test, then drone.ae is written.
\* The set points are data of the control law: any speed the clamps let through.
Mix ==
  /\ at = "mix"
  /\ throttle_up' = (joy_lift > 5)
  /\ Goto(After("mix"))
  /\ UNCHANGED <<modeVars, ae, cc, joy_lift, tickVars, cableVars, stopVars, imuVars>>

WriteSpeeds ==
  /\ at = "write"
  /\ ae' \in IF throttle_up THEN [Rotors -> Speeds] ELSE {[r \in Rotors |-> 0]}
  /\ throttle_up' = FALSE
  /\ Goto(After("write"))
  /\ UNCHANGED <<modeVars, cc, joy_lift, tickVars, cableVars, stopVars, imuVars>>

-----------------------------------------------------------------------------
(***************************************************************************)
(* safe_mode                                                               *)
(***************************************************************************)
SafeEnter ==
  /\ at = "enter"
  /\ joy_lift' = 0
  /\ Goto("loop")
  /\ UNCHANGED <<modeVars, rotorVars, tickVars, cableVars, stopVars, imuVars>>

\* Mutant of StopIf: safe_mode returns, but the drone is not to stop.
StopIfReturnOnly(reason) ==
  UNCHANGED stop /\ IF reason THEN Return ELSE Goto(After(at))

\* The three reasons safe_mode has to end the program.
StopIf(reason) ==
  IF reason THEN stop' = 1 /\ Return ELSE UNCHANGED stop /\ Goto(After(at))

SafeAbort ==
  /\ at = "abort"
  /\ StopIf(abort_flag)
  /\ abort_flag' = FALSE
  /\ UNCHANGED <<modeVars, rotorVars, joy_lift, tickVars, cableVars, batt_low_flag,
                 log_upload_flag, imuVars>>

SafeBatteryLow ==
  /\ at = "low"
  /\ StopIf(batt_low_flag)
  /\ UNCHANGED <<modeVars, rotorVars, joy_lift, tickVars, cableVars, batt_low_flag,
                 abort_flag, log_upload_flag, imuVars>>

\* imu_init programs the MPU for raw_mode_flag as it was read; the flag that asked for it
\* is set again only when the call returns.
ImuInit ==
  /\ at = "imu"
  /\ IF imu_init_flag THEN UNCHANGED imu_dmp /\ Goto("upload")
                      ELSE imu_dmp' = ~raw_mode_flag /\ Goto("imu_done")
  /\ UNCHANGED <<modeVars, rotorVars, joy_lift, tickVars, cableVars, stopVars,
                 raw_mode_flag, imu_init_flag>>

ImuInitDone ==
  /\ at = "imu_done"
  /\ imu_init_flag' = TRUE
  /\ Goto(After("imu_done"))
  /\ UNCHANGED <<modeVars, rotorVars, joy_lift, tickVars, cableVars, stopVars,
                 raw_mode_flag, imu_dmp>>

\* log_upload itself is outside this module; the drone stops after it.
SafeUpload ==
  /\ at = "upload"
  /\ StopIf(log_upload_flag /\ ~telemetry_flag)
  /\ UNCHANGED <<modeVars, rotorVars, joy_lift, tickVars, cableVars, batt_low_flag,
                 abort_flag, log_upload_flag, imuVars>>

-----------------------------------------------------------------------------
(***************************************************************************)
(* panic_mode and calibration_mode                                         *)
(***************************************************************************)
PanicHover ==
  /\ at = "hover"
  /\ ae' = IF AllStill THEN ae ELSE [r \in Rotors |-> HOVER_RPM]
  /\ Goto(After("hover"))
  /\ UNCHANGED <<modeVars, throttle_up, cc, joy_lift, tickVars, cableVars, stopVars, imuVars>>

\* Mutants of StepDown: not clamped at 0; a speed below one step is left alone.
StepDownUnclamped(speed) == speed - RPM_STEP
StepDownStuck(speed) == IF speed < RPM_STEP THEN speed ELSE speed - RPM_STEP

StepDown(speed) == IF speed < RPM_STEP THEN 0 ELSE speed - RPM_STEP

\* Mutant of Descended: the loop ends once every speed is below one step.
DescendedEarly == \A r \in Rotors : ae[r] < RPM_STEP

Descended == AllStill

PanicDescend ==
  /\ at = "descend"
  /\ IF Descended THEN UNCHANGED ae /\ Goto("landed")
     ELSE ae' = [r \in Rotors |-> StepDown(ae[r])] /\ Goto("motors")
  /\ UNCHANGED <<modeVars, throttle_up, cc, joy_lift, tickVars, cableVars, stopVars, imuVars>>

\* The samples and their averages are data; what counts here is that no flag is polled.
Calibrate ==
  /\ at = "samples"
  /\ Goto("landed")
  /\ UNCHANGED <<modeVars, rotorVars, joy_lift, tickVars, cableVars, stopVars, imuVars>>

-----------------------------------------------------------------------------
(***************************************************************************)
(* UART0_IRQHandler and process_packet.  Every byte resets the cable flag; *)
(* the byte that completes a packet with a good CRC also executes it.      *)
(***************************************************************************)
\* Mutant of Heard: a byte only clears the flag once it has reached 2.
HeardAfterLoss ==
  /\ cable_disconnect_flag' = IF cable_disconnect_flag = 2 THEN 0 ELSE cable_disconnect_flag
  /\ quiet' = 0

Heard == cable_disconnect_flag' = 0 /\ quiet' = 0

\* A byte inside a packet, or of a packet that is rejected or has no effect here.
ReceiveByte ==
  /\ Commands # {}
  /\ Heard
  /\ UNCHANGED <<mainVars, modeVars, rotorVars, joy_lift, tickVars, stopVars, imuVars>>

\* Mutant of Accepts: packets are processed in panic mode too.
AcceptsInPanic(command) ==
  /\ command \in Commands
  /\ current_mode = SAFE_MODE => command \in {"RAW_MODE", "MODE_TYPE", "LOG"}
  /\ command = "RAW_MODE" => current_mode = SAFE_MODE

\* Packets are not processed at all in panic mode; in safe mode only three commands are,
\* and RAW_MODE only there.
Accepts(command) ==
  /\ command \in Commands
  /\ current_mode # PANIC_MODE
  /\ current_mode = SAFE_MODE => command \in {"RAW_MODE", "MODE_TYPE", "LOG"}
  /\ command = "RAW_MODE" => current_mode = SAFE_MODE

\* Mutant of ModeAllowed: a flying mode may be chosen in any mode.
ModeAllowedAnywhere(value) ==
  value # current_mode /\ (value = SAFE_MODE => AllStill)

\* set_mode_type
ModeAllowed(value) ==
  /\ value # current_mode
  /\ \/ current_mode = SAFE_MODE
     \/ value \in {PANIC_MODE, ABORT}
     \/ value = SAFE_MODE /\ AllStill

\* Mutant of NewMode: the change is not announced in change_mode.
NewModeUnannounced(mode) == current_mode' = mode /\ UNCHANGED change_mode

NewMode(mode) == current_mode' = mode /\ change_mode' = 1

SetModeType(value) ==
  /\ Accepts("MODE_TYPE") /\ ModeAllowed(value)
  /\ Heard
  /\ abort_flag' = (abort_flag \/ value = ABORT)
  /\ IF value \in {ABORT, PANIC_MODE}
       THEN IF current_mode = SAFE_MODE THEN UNCHANGED modeVars ELSE NewMode(PANIC_MODE)
       ELSE NewMode(value)
  /\ UNCHANGED <<mainVars, rotorVars, joy_lift, tickVars, stop, batt_low_flag,
                 log_upload_flag, imuVars>>

SetJoyLift(value) ==
  /\ Accepts("JOY_LIFT")
  /\ Heard
  /\ joy_lift' = value
  /\ UNCHANGED <<mainVars, modeVars, rotorVars, tickVars, stopVars, imuVars>>

\* LOG_START and LOG_STOP set log_active_flag, which only update_log reads.
LogCommand(value) ==
  /\ Accepts("LOG")
  /\ Heard
  /\ log_upload_flag' = (log_upload_flag \/ (value = "LOG_UPLOAD" /\ current_mode = SAFE_MODE))
  /\ UNCHANGED <<mainVars, modeVars, rotorVars, joy_lift, tickVars, stop, batt_low_flag,
                 abort_flag, imuVars>>

ToggleRaw ==
  /\ Accepts("RAW_MODE")
  /\ Heard
  /\ raw_mode_flag' = ~raw_mode_flag /\ imu_init_flag' = FALSE
  /\ UNCHANGED <<mainVars, modeVars, rotorVars, joy_lift, tickVars, stopVars, imu_dmp>>

-----------------------------------------------------------------------------
(***************************************************************************)
(* TIMER2_IRQHandler: compare 0 every 2.5 ms, compare 1 every 2 ms.        *)
(***************************************************************************)
\* Mutant of CableTick: the flag never goes from 1 to 2.
CableTickNoAlarm(flag) == IF flag = 0 THEN 1 ELSE flag

CableTick(flag) == IF flag < 2 THEN flag + 1 ELSE flag

Compare0 ==
  LET telemetry == telemetry_timer % TELEMETRY_TICKS = 0 IN
  /\ control_loop_flag' = (control_loop_flag \/ control_loop_timer % 2 = 0)
  /\ control_loop_timer' = (IF control_loop_timer % 2 = 0 THEN 0 ELSE control_loop_timer) + 1
  /\ telemetry_flag' = (telemetry_flag \/ telemetry)
  /\ telemetry_timer' = (IF telemetry THEN 0 ELSE telemetry_timer) + 1
  /\ cable_disconnect_flag' = IF telemetry THEN CableTick(cable_disconnect_flag)
                                           ELSE cable_disconnect_flag
  /\ quiet' = IF telemetry /\ quiet < 2 THEN quiet + 1 ELSE quiet
  /\ UNCHANGED <<control_loop_flag_raw, mainVars, modeVars, rotorVars, joy_lift, stopVars,
                 imuVars>>

Compare1 ==
  /\ control_loop_flag_raw' = TRUE
  /\ UNCHANGED <<control_loop_flag, telemetry_flag, control_loop_timer, telemetry_timer,
                 mainVars, modeVars, rotorVars, joy_lift, cableVars, stopVars, imuVars>>

-----------------------------------------------------------------------------
Main ==
  \/ ResetDrone \/ SystemReset
  \/ StopTest \/ ClearChange \/ ThrottleGuard \/ ThrottleToSafe \/ Switch
  \/ LoopTest \/ ControlFlag \/ Battery \/ BatteryMode \/ BatteryFlag \/ Telemetry
  \/ UpdateMotors \/ BackToSafe \/ BackToSafeChange
  \/ CableTest \/ CableFlag \/ CableChange \/ CableMode \/ Mix \/ WriteSpeeds
  \/ SafeEnter \/ SafeAbort \/ SafeBatteryLow \/ ImuInit \/ ImuInitDone \/ SafeUpload
  \/ PanicHover \/ PanicDescend \/ Calibrate

Uart ==
  \/ ReceiveByte
  \/ \E value \in ModeValues : SetModeType(value)
  \/ \E value \in Lifts : SetJoyLift(value)
  \/ \E value \in LogValues : LogCommand(value)
  \/ ToggleRaw

Timer == Compare0 \/ Compare1

Next == Main \/ Uart \/ Timer

Spec == Init /\ [][Next]_vars

\* Main is never starved (handlers are short, the line is slow) and the timer never stops.
FairSpec == Spec /\ WF_vars(Main) /\ WF_vars(Compare0) /\ WF_vars(Compare1)

-----------------------------------------------------------------------------
(***************************************************************************)
(* Correctness.                                                            *)
(***************************************************************************)

\* main is at a position of the function it executes.
PositionOK == fn \in DOMAIN Positions /\ at \in Positions[fn]

\* Every variable holds a value of its C type and range.
ValuesOK ==
  /\ throttle_up \in BOOLEAN
  /\ current_mode \in Modes \cup {NO_MODE}
  /\ change_mode \in {0, 1} /\ stop \in {0, 1}
  /\ ae \in [Rotors -> 0..MAX_RPM] /\ cc \in [Rotors -> 0..MAX_RPM]
  /\ joy_lift \in 0..255
  /\ control_loop_flag \in BOOLEAN /\ control_loop_flag_raw \in BOOLEAN
  /\ telemetry_flag \in BOOLEAN
  /\ control_loop_timer \in 0..2 /\ telemetry_timer \in 0..TELEMETRY_TICKS
  /\ cable_disconnect_flag \in 0..2 /\ quiet \in 0..2
  /\ batt_low_flag \in BOOLEAN /\ abort_flag \in BOOLEAN /\ log_upload_flag \in BOOLEAN
  /\ raw_mode_flag \in BOOLEAN /\ imu_init_flag \in BOOLEAN /\ imu_dmp \in BOOLEAN

TypeOK == PositionOK /\ ValuesOK

\* No mode change is lost: while change_mode is 0, a safe or flying loop serves the mode in
\* force.  Wherever the handler or the battery check changes current_mode, the loop will
\* find change_mode set (set_mode_type, the dispatch loop's reset of change_mode).
ModeCoherence ==
  (Flying \/ fn = "safe_mode") /\ change_mode = 0 /\ at # "batt_flag"
    => current_mode = ModeOf[fn]

\* Panic cannot be revoked: until panic_mode itself writes SAFE_MODE, the mode in force
\* stays PANIC_MODE, whatever packets arrive (uart.c drops them, process_packet is not run).
PanicHeld == fn = "panic_mode" /\ at # "left" => current_mode = PANIC_MODE

\* Panic ends on the ground: when panic_mode is about to hand over to SAFE_MODE all set
\* points are 0 and so is what the motors were last given.
PanicLands ==
  fn = "panic_mode" /\ at \in {"landed", "left"} =>
    \A r \in Rotors : ae[r] = 0 /\ cc[r] = 0

\* The cable check never fires on a line that is alive: in a flying loop the flag reads 2
\* only if two telemetry ticks have passed since the last byte.  (Between main's own write
\* of the flag and its return the flag may be wrong; main is in panic by then.)
WatchdogSound ==
  Flying /\ at \notin {"cable_change", "cable_mode"} /\ cable_disconnect_flag = 2
    => quiet = 2

\* A battery found low leaves no flying mode in force that is not on the ground: until the
\* restart batt_low_flag keeps every flying loop from updating its motors, so the flag and
\* a flying mode may only meet with the rotors at rest (read_sensor, mode_manual.c:40).
LowBatteryGrounded ==
  batt_low_flag /\ current_mode \in FlightModes =>
    \A r \in Rotors : ae[r] = 0 /\ cc[r] = 0

\* What makes PanicLands and WatchdogSound inductive.  Between two descents the motors were
\* given the set points; and as long as main flies, or is about to, the cable flag counts
\* no more ticks than have passed in silence.  The mode is one of the modes once main runs.
MotorsFollow ==
  fn = "panic_mode" =>
    /\ at \in {"descend", "tele"} => cc = ae
    /\ at \in {"landed", "left"} => cc = ae /\ AllStill

CableBehind ==
  (IF Flying THEN at \notin {"cable_change", "cable_mode"} ELSE current_mode \in FlightModes)
    => cable_disconnect_flag <= quiet

Booted == current_mode = NO_MODE => fn = "main"

\* What makes LowBatteryGrounded inductive: the flag is set together with panic, and every
\* way out of panic is on the ground; a flying loop that finds the flag set never gets to
\* the mix.
Grounded == \A r \in Rotors : ae[r] = 0 /\ cc[r] = 0

LowBatteryHeld ==
  /\ at = "batt_flag" => current_mode = PANIC_MODE
  /\ batt_low_flag =>
       /\ current_mode # PANIC_MODE =>
            Grounded /\ (Flying => at \notin {"mix", "write", "motors", "tele", "battery"})
       /\ at = "to_safe" \/ fn = "calibration_mode" => Grounded

SafetyInv == TypeOK /\ Booted /\ ModeCoherence /\ PanicHeld /\ MotorsFollow /\ CableBehind

\* The flight core implements the mode protocol of FlightModes.
AbstractMode == IF current_mode = NO_MODE THEN SAFE_MODE ELSE current_mode

Served == IF fn \in {"main", "process_drone"} THEN "none"
          ELSE IF fn = "panic_mode" /\ at = "left" THEN "landed" ELSE ModeOf[fn]

Abstract == INSTANCE FlightModes
              WITH mode <- AbstractMode, serving <- Served, powered <- ~AllStill

ImplementsFlightModes == Abstract!Spec

\* Panic always gets the drone down: once panic_mode runs, the motors are stopped.
PanicEnds == fn = "panic_mode" ~> \A r \in Rotors : cc[r] = 0

\* A dead line is noticed: if a drone in a flying loop has heard nothing for two telemetry
\* ticks, then it leaves that loop or a byte arrives.
WatchdogFires == (Flying /\ quiet = 2) ~> (~Flying \/ quiet < 2)

\* An abort command ends in a reset: unless the PC talks again, a drone with abort_flag set
\* goes down if it flies, reaches safe_mode and restarts.
AbortStops == (abort_flag /\ quiet = 2) ~> (at = "reset" \/ quiet < 2)

\* So does a battery found low: unless the PC talks again the drone goes down and restarts.
BatteryStops == (batt_low_flag /\ quiet = 2) ~> (at = "reset" \/ quiet < 2)

\* "This is the safe state for the drone (zero rotor RPM)" (mode_safe.c:13).
SafeMotorsOff == fn = "safe_mode" => AllStill

\* "Upload log" (mode_safe.c:70): a log upload that was asked for in safe mode happens, and
\* the drone restarts after it, if the PC leaves it in safe mode.
UploadHappens ==
  (log_upload_flag /\ fn = "safe_mode") ~> (at = "reset" \/ fn # "safe_mode")

=============================================================================
