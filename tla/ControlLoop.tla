---------------------------- MODULE ControlLoop ----------------------------
(***************************************************************************)
(* From packets and sensors to rotors: the sticks, trims, gains and height *)
(* control that process_packet sets (drivers/process_packet.c), the        *)
(* control laws of the four flying loops (mode_manual.c,                   *)
(* mode_yawcontrol.c, mode_fullcontrol.c) and calculate_rotor_speeds       *)
(* (process_drone.c), with packets between any two of main's reads.        *)
(*                                                                         *)
(* Modes are Drone's matter.  Here the pilot chooses a mode in SAFE_MODE   *)
(* and goes back with the rotors at rest, and a panic lands the drone.     *)
(***************************************************************************)
EXTENDS Integers

CONSTANTS
  MIN_RPM, MAX_RPM, HOVER_LIFT_FORCE, DRONE_LIFT_CONSTANT, DRONE_ROLL_CONSTANT,
  DRONE_PITCH_CONSTANT, DRONE_YAW_CONSTANT,        \* process_drone.h
  MIN_TRIM, MAX_TRIM, MAX_CONTROLGAIN,             \* process_packet.h
  Lifts, Tilts,     \* values of JOY_LIFT packets; of JOY_ROLL, JOY_PITCH, JOY_YAW packets
  Samples,          \* what the MPU gives, offsets subtracted
  Pressures,        \* what the barometer gives
  MaxPackets        \* bound: packets that change anything here

Rotors      == 0..3
Tilt        == {"roll", "pitch", "yaw"}
Axes        == {"lift"} \cup Tilt
Gains       == {"yaw", "p1", "p2"}
SensorLoops == {"yaw_control_mode", "full_control_mode", "full_control_mode_raw"}
FlightLoops == SensorLoops \cup {"manual_mode"}

\* The trims fill a char: 256 values, of which a signed char takes the last for MIN_TRIM - 1.
ASSUME TrimAssumption ==
  /\ MIN_TRIM \in Int /\ MAX_TRIM \in Int /\ MIN_TRIM <= 0 /\ 0 < MAX_TRIM
  /\ MAX_CONTROLGAIN \in Nat
ASSUME SpeedAssumption ==
  /\ MIN_RPM \in Nat /\ MAX_RPM \in Nat /\ 0 < MIN_RPM /\ MIN_RPM <= MAX_RPM
  /\ HOVER_LIFT_FORCE \in Nat
  /\ DRONE_LIFT_CONSTANT \in Nat /\ DRONE_ROLL_CONSTANT \in Nat
  /\ DRONE_PITCH_CONSTANT \in Nat /\ DRONE_YAW_CONSTANT \in Nat
ASSUME InputAssumption ==
  /\ Lifts \subseteq -128..127 /\ Tilts \subseteq -128..127
  /\ Samples \subseteq [phi : Int, theta : Int, sp : Int, sq : Int, sr : Int]
  /\ Samples # {} /\ Pressures \subseteq Int /\ Pressures # {} /\ MaxPackets \in Nat

VARIABLES
  fn, at,                           \* the function main executes, and its position in the loop
  chosen, change_mode,              \* the loop of current_mode, and the flag
  key, joy, gain,                   \* drone.key_*, joy_*, controlgain_*
  height_control_flag, height_control_lift, height_control_pressure,
  sensor, pressure,                 \* drone.phi, theta, sp, sq, sr; the global pressure
  lift, roll, pitch, yaw,           \* main's locals: what it read, then what it scaled
  ae,
  steady,                           \* history: no packet since main read the sticks
  packets                           \* history: packets so far

pilotVars  == <<key, joy, gain>>
heightVars == <<height_control_flag, height_control_lift, height_control_pressure>>
sensorVars == <<sensor, pressure>>
localVars  == <<lift, roll, pitch, yaw>>
mainVars   == <<fn, at>>
modeVars   == <<chosen, change_mode>>
vars == <<mainVars, modeVars, pilotVars, heightVars, sensorVars, localVars, ae, steady, packets>>

-----------------------------------------------------------------------------
(***************************************************************************)
(* The arithmetic of the C code.                                           *)
(***************************************************************************)

\* (signed char) of a byte.
Signed(number) == IF number % 256 >= 128 THEN (number % 256) - 256 ELSE number % 256

\* C's division cuts off toward 0.
Quotient(number, divisor) ==
  IF number < 0 THEN -((-number) \div divisor) ELSE number \div divisor

\* (int)sqrt of a number below 1024 * 1024, binary digit by digit.
Digit(root, digit, number) ==
  IF (root + digit) * (root + digit) <= number THEN root + digit ELSE root

High(number) ==
  Digit(Digit(Digit(Digit(Digit(0, 512, number), 256, number), 128, number), 64, number),
        32, number)

Root(number) ==
  Digit(Digit(Digit(Digit(Digit(High(number), 16, number), 8, number), 4, number), 2, number),
        1, number)

-----------------------------------------------------------------------------
(***************************************************************************)
(* process_packet.  Outside SAFE_MODE and panic it takes all of these.     *)
(***************************************************************************)
Packet ==
  /\ chosen # "safe_mode" /\ packets < MaxPackets
  /\ packets' = packets + 1
  /\ steady' = FALSE
  /\ UNCHANGED <<mainVars, modeVars, sensorVars, localVars, ae>>

\* Mutant: the limits are forgotten.
StepUnlimited(number, up, least, most) == IF up THEN number + 1 ELSE number - 1

\* A step up or down, kept within the limits.
Step(number, up, least, most) ==
  IF up THEN IF number + 1 > most THEN most ELSE number + 1
        ELSE IF number - 1 < least THEN least ELSE number - 1

\* KEY_LIFT, KEY_ROLL, KEY_PITCH, KEY_YAW
set_key(axis, up) ==
  /\ Packet
  /\ key' = [key EXCEPT ![axis] = Step(@, up, MIN_TRIM, MAX_TRIM)]
  /\ UNCHANGED <<joy, gain, heightVars>>

\* KEY_CONTROL_YAW, KEY_CONTROL_P1, KEY_CONTROL_P2
set_key_control(name, up) ==
  /\ Packet
  /\ gain' = [gain EXCEPT ![name] = Step(@, up, 0, MAX_CONTROLGAIN)]
  /\ UNCHANGED <<key, joy, heightVars>>

\* set_joy_lift takes a signed char, the others a char, which is unsigned on this machine.
set_joy_lift(value) ==
  /\ Packet
  /\ joy' = [joy EXCEPT !.lift = 127 - value]
  /\ UNCHANGED <<key, gain, heightVars>>

set_joy(axis, value) ==
  /\ Packet
  /\ joy' = [joy EXCEPT ![axis] = value % 256]
  /\ UNCHANGED <<key, gain, heightVars>>

\* HEIGHT_CONTROL_MODE: on, from the pressure and the throttle of now; or off.
ToggleHeight ==
  /\ Packet
  /\ height_control_flag' = ~height_control_flag
  /\ IF height_control_flag
       THEN UNCHANGED <<height_control_lift, height_control_pressure>>
       ELSE height_control_lift' = joy.lift /\ height_control_pressure' = pressure
  /\ UNCHANGED pilotVars

\* MODE_TYPE, as far as it matters here.
AllStill == \A r \in Rotors : ae[r] = 0

ChooseMode(loop) ==
  /\ chosen = "safe_mode"
  /\ chosen' = loop /\ change_mode' = TRUE
  /\ UNCHANGED <<mainVars, pilotVars, heightVars, sensorVars, localVars, ae, steady, packets>>

ChooseSafe ==
  /\ chosen # "safe_mode" /\ AllStill
  /\ chosen' = "safe_mode" /\ change_mode' = TRUE
  /\ UNCHANGED <<mainVars, pilotVars, heightVars, sensorVars, localVars, ae, steady, packets>>

-----------------------------------------------------------------------------
(***************************************************************************)
(* Between the passes: process_drone, safe_mode and panic_mode.            *)
(***************************************************************************)

Zeroed == [axis \in Axes |-> 0]
Parked == lift' = 0 /\ roll' = 0 /\ pitch' = 0 /\ yaw' = 0    \* locals of no further use

\* change_mode is set: process_drone enters the loop of the new mode, or SAFE_MODE if the
\* throttle is up.  safe_mode starts by dropping what the pilot set, the gains apart.
Enter(loop) ==
  /\ fn' = loop
  /\ change_mode' = FALSE
  /\ steady' = FALSE
  /\ IF loop = "safe_mode"
       THEN key' = Zeroed /\ joy' = Zeroed /\ chosen' = "safe_mode"
       ELSE UNCHANGED <<key, joy, chosen>>
  /\ UNCHANGED <<at, gain, heightVars, sensorVars, localVars, ae, packets>>

process_drone ==
  /\ at = "top" /\ change_mode
  /\ Enter(IF joy.lift > 10 THEN "safe_mode" ELSE chosen)

\* A panic, whatever caused it, lands the drone and goes to SAFE_MODE.
panic_mode ==
  /\ at = "top" /\ chosen # "safe_mode"
  /\ fn' = "panic_mode"
  /\ ae' = [r \in Rotors |-> 0]
  /\ chosen' = "safe_mode" /\ change_mode' = TRUE
  /\ steady' = FALSE
  /\ UNCHANGED <<at, pilotVars, heightVars, sensorVars, localVars, packets>>

-----------------------------------------------------------------------------
(***************************************************************************)
(* One pass of a flying loop.                                              *)
(***************************************************************************)
LoopVars == <<fn, modeVars, pilotVars, packets>>

\* read_sensor, between a true control flag and the sticks
read_sensor ==
  /\ at = "top" /\ ~change_mode /\ fn \in SensorLoops
  /\ sensor' \in Samples /\ pressure' \in Pressures
  /\ at' = "read"
  /\ UNCHANGED <<LoopVars, heightVars, localVars, ae, steady>>

\* The copy of the sticks, with the interrupts off.  The yaw loop copies lift and yaw only.
ReadSticks ==
  /\ \/ at = "top" /\ ~change_mode /\ fn = "manual_mode"
     \/ at = "read"
  /\ lift' = joy.lift
  /\ yaw'  = Signed(joy.yaw)
  /\ IF fn = "yaw_control_mode" THEN roll' = 0 /\ pitch' = 0
                                ELSE roll' = Signed(joy.roll) /\ pitch' = Signed(joy.pitch)
  /\ at' = IF fn = "yaw_control_mode" THEN "height" ELSE "law"
  /\ steady' = TRUE
  /\ UNCHANGED <<LoopVars, heightVars, sensorVars, ae>>

\* Mutant: moving the throttle does not end it.
HeightControlStaysOn ==
  /\ at = "height"
  /\ lift' = IF height_control_flag
               THEN HOVER_LIFT_FORCE + (pressure - height_control_pressure)
               ELSE lift
  /\ at' = "law"
  /\ UNCHANGED <<LoopVars, heightVars, sensorVars, roll, pitch, yaw, ae, steady>>

\* Mutant: the pressure taken for a height.
HeightControlUpward ==
  /\ at = "height"
  /\ height_control_flag' = (height_control_flag /\ height_control_lift = joy.lift)
  /\ lift' = IF height_control_flag'
               THEN HOVER_LIFT_FORCE - (pressure - height_control_pressure)
               ELSE lift
  /\ at' = "law"
  /\ UNCHANGED <<LoopVars, height_control_lift, height_control_pressure, sensorVars,
                 roll, pitch, yaw, ae, steady>>

\* Height control, in the yaw loop: a throttle that moved switches it off.
HeightControl ==
  /\ at = "height"
  /\ height_control_flag' = (height_control_flag /\ height_control_lift = joy.lift)
  /\ lift' = IF height_control_flag'
               THEN HOVER_LIFT_FORCE + (pressure - height_control_pressure)
               ELSE lift
  /\ at' = "law"
  /\ UNCHANGED <<LoopVars, height_control_lift, height_control_pressure, sensorVars,
                 roll, pitch, yaw, ae, steady>>

\* The moments the three laws with sensors ask for.
YawMoment == gain.yaw * (yaw - Quotient(sensor.sr, 12))

\* Mutant: the sign of the roll rate is lost in the law of full_control_mode.
RollMomentPlusRate ==
  LET rollrate_setpoint == gain.p1 * (roll - Quotient(sensor.phi, 15))
  IN  CASE fn = "full_control_mode"     -> rollrate_setpoint + gain.p2 * Quotient(sensor.sp, 6)
        [] fn = "full_control_mode_raw" -> gain.p2 * (rollrate_setpoint - Quotient(sensor.sp, 6))
        [] OTHER                        -> 0

RollMoment ==
  LET rollrate_setpoint == gain.p1 * (roll - Quotient(sensor.phi, 15))
  IN  CASE fn = "full_control_mode"     -> rollrate_setpoint + gain.p2 * Quotient(-sensor.sp, 6)
        [] fn = "full_control_mode_raw" -> gain.p2 * (rollrate_setpoint - Quotient(sensor.sp, 6))
        [] OTHER                        -> 0

PitchMoment ==
  LET pitchrate_setpoint == gain.p1 * (pitch - Quotient(sensor.theta, 15))
  IN  CASE fn = "full_control_mode"     -> pitchrate_setpoint + gain.p2 * Quotient(sensor.sq, 6)
        [] fn = "full_control_mode_raw" -> gain.p2 * (pitchrate_setpoint + Quotient(sensor.sq, 6))
        [] OTHER                        -> 0

YawScale == DRONE_YAW_CONSTANT \div (IF fn = "yaw_control_mode" THEN 8 ELSE 16)

\* No moments below a lift_force of 11; in manual_mode the sticks are the moments.
ControlLaw ==
  /\ at = "law"
  /\ lift' = DRONE_LIFT_CONSTANT * lift
  /\ CASE fn = "manual_mode" ->
            /\ roll'  = DRONE_ROLL_CONSTANT * roll
            /\ pitch' = DRONE_PITCH_CONSTANT * pitch
            /\ yaw'   = DRONE_YAW_CONSTANT * yaw
       [] fn # "manual_mode" /\ lift > 10 ->
            /\ roll'  = (DRONE_ROLL_CONSTANT \div 50) * RollMoment
            /\ pitch' = (DRONE_PITCH_CONSTANT \div 50) * PitchMoment
            /\ yaw'   = YawScale * YawMoment
       [] OTHER -> roll' = 0 /\ pitch' = 0 /\ yaw' = 0
  /\ at' = "guard"
  /\ UNCHANGED <<LoopVars, heightVars, sensorVars, ae, steady>>

\* Main reads joy_lift again; manual_mode alone casts it.
ThrottleDown ==
  IF fn = "manual_mode" THEN Signed(joy.lift) < 5 ELSE joy.lift < 5

ThrottleGuard ==
  /\ at = "guard"
  /\ IF ThrottleDown THEN roll' = 0 /\ pitch' = 0 /\ yaw' = 0
                     ELSE UNCHANGED <<roll, pitch, yaw>>
  /\ at' = "mix"
  /\ UNCHANGED <<LoopVars, heightVars, sensorVars, lift, ae, steady>>

\* The trim the mix adds: (signed char) of all but key_lift.
Applied(axis) ==
  IF axis # "lift" /\ key[axis] = MAX_TRIM THEN MIN_TRIM - 1 ELSE key[axis]

\* Which moments speed up a rotor, and which slow it down.
PitchShare == [r \in Rotors |-> CASE r = 0 -> 1 [] r = 2 -> -1 [] OTHER -> 0]
RollShare  == [r \in Rotors |-> CASE r = 3 -> 1 [] r = 1 -> -1 [] OTHER -> 0]
YawShare   == [r \in Rotors |-> IF r \in {1, 3} THEN 1 ELSE -1]

Thrust(r) ==
  LET squared == Quotient(lift + 2 * PitchShare[r] * pitch + 2 * RollShare[r] * roll
                            + YawShare[r] * yaw, 4)
  IN  IF squared < 0 THEN 1 ELSE Root(squared)

\* Mutant: the signs of the roll trim are swapped.
TrimMirrored(r) ==
  Applied("lift") + PitchShare[r] * Applied("pitch") - RollShare[r] * Applied("roll")
    + YawShare[r] * Applied("yaw")

Trim(r) ==
  Applied("lift") + PitchShare[r] * Applied("pitch") + RollShare[r] * Applied("roll")
    + YawShare[r] * Applied("yaw")

Clamp(speed) == IF speed < MIN_RPM THEN MIN_RPM ELSE IF speed > MAX_RPM THEN MAX_RPM ELSE speed

\* Mutant: the trims are added to speeds already within the limits.
MixTrimsLast ==
  /\ at = "mix"
  /\ ae' = [r \in Rotors |-> IF joy.lift > 5 THEN Clamp(Thrust(r)) + Trim(r) ELSE 0]
  /\ Parked
  /\ at' = "top"
  /\ UNCHANGED <<LoopVars, heightVars, sensorVars, steady>>

\* A packet between its reads of a trim gives one pass with a part of the change: left out.
calculate_rotor_speeds ==
  /\ at = "mix"
  /\ ae' = [r \in Rotors |-> IF joy.lift > 5 THEN Clamp(Thrust(r) + Trim(r)) ELSE 0]
  /\ Parked
  /\ at' = "top"
  /\ UNCHANGED <<LoopVars, heightVars, sensorVars, steady>>

-----------------------------------------------------------------------------
Init ==
  /\ fn = "safe_mode" /\ at = "top" /\ chosen = "safe_mode" /\ change_mode = FALSE
  /\ key = Zeroed /\ joy = Zeroed /\ gain = [g \in Gains |-> 0]
  /\ height_control_flag = FALSE /\ height_control_lift = 0 /\ height_control_pressure = 0
  /\ sensor \in Samples /\ pressure \in Pressures
  /\ lift = 0 /\ roll = 0 /\ pitch = 0 /\ yaw = 0
  /\ ae = [r \in Rotors |-> 0]
  /\ steady = FALSE /\ packets = 0

process_packet ==
  \/ \E up \in BOOLEAN : \E axis \in Axes : set_key(axis, up)
  \/ \E up \in BOOLEAN : \E name \in Gains : set_key_control(name, up)
  \/ \E value \in Lifts : set_joy_lift(value)
  \/ \E value \in Tilts : \E axis \in Tilt : set_joy(axis, value)
  \/ ToggleHeight
  \/ \E loop \in FlightLoops : ChooseMode(loop)
  \/ ChooseSafe

Pass ==
  \/ read_sensor \/ ReadSticks \/ HeightControl
  \/ ControlLaw \/ ThrottleGuard \/ calculate_rotor_speeds

Next == process_packet \/ process_drone \/ panic_mode \/ Pass

Spec == Init /\ [][Next]_vars

-----------------------------------------------------------------------------
\* What main has: where it is in which loop, what it read and what it computed.
MainTypes ==
  /\ fn \in FlightLoops \cup {"safe_mode", "panic_mode"}
  /\ at \in {"top", "read", "height", "law", "guard", "mix"}
  /\ at # "top" => fn \in FlightLoops
  /\ at = "read" => fn \in SensorLoops
  /\ at = "height" => fn = "yaw_control_mode"
  /\ chosen \in FlightLoops \cup {"safe_mode"} /\ change_mode \in BOOLEAN
  /\ sensor \in Samples /\ pressure \in Pressures
  /\ lift \in Int /\ roll \in Int /\ pitch \in Int /\ yaw \in Int
  /\ ae \in [Rotors -> Int]
  /\ steady \in BOOLEAN /\ packets \in 0..MaxPackets

\* What the packets set.
SettingTypes ==
  /\ key \in [Axes -> MIN_TRIM..MAX_TRIM]
  /\ joy \in [Axes -> 0..255]
  /\ gain \in [Gains -> 0..MAX_CONTROLGAIN]
  /\ height_control_flag \in BOOLEAN
  /\ height_control_lift \in 0..255 /\ height_control_pressure \in Int

\* The types of the variables: trims and gains stay within the limits of process_packet.h.
TypeOK == MainTypes /\ SettingTypes

\* After a pass with no packet since it read the sticks.
Settled == at = "top" /\ steady

\* After such a pass, whatever the height control, the laws and the trims asked for, a
\* throttle at 5 or less has stopped all rotors, and with a higher one every rotor turns at a
\* speed it can keep (calculate_rotor_speeds, process_drone.c:274-300).
RotorsFollowThrottle ==
  Settled =>
    IF joy.lift > 5 THEN \A r \in Rotors : ae[r] \in MIN_RPM..MAX_RPM
                    ELSE \A r \in Rotors : ae[r] = 0

\* In the yaw loop, the height control that is still on after such a pass was switched on with
\* the throttle where it is now: "exit from height mode when you touch the joystick throttle"
\* (mode_yawcontrol.c:59).
HeightHandsBack ==
  Settled /\ fn = "yaw_control_mode" /\ height_control_flag => height_control_lift = joy.lift

Centred   == \A axis \in Tilt : joy[axis] = 0
Untrimmed == \A axis \in Axes : key[axis] = 0

\* The feedback has the right sign in every law: with centred sticks and no trims, a drone
\* that leans or turns to one side gets speeds that bring it back, and without sensors it gets
\* four equal ones.
NegativeFeedback ==
  Settled /\ Centred /\ Untrimmed =>
    /\ fn \in {"full_control_mode", "full_control_mode_raw"} =>
         /\ sensor.phi >= 0 /\ sensor.sp >= 0 => ae[3] <= ae[1]
         /\ sensor.phi <= 0 /\ sensor.sp <= 0 => ae[3] >= ae[1]
         /\ sensor.theta >= 0 /\ sensor.sq <= 0 => ae[0] <= ae[2]
         /\ sensor.theta <= 0 /\ sensor.sq >= 0 => ae[0] >= ae[2]
    /\ fn = "yaw_control_mode" =>
         /\ sensor.sr >= 0 => ae[0] >= ae[1] /\ ae[2] >= ae[3]
         /\ sensor.sr <= 0 => ae[0] <= ae[1] /\ ae[2] <= ae[3]
    /\ fn = "manual_mode" => \A r \in Rotors : ae[r] = ae[0]

HoverSpeed == Root(Quotient(DRONE_LIFT_CONSTANT * HOVER_LIFT_FORCE, 4))

\* The rotors can keep the hover speed: 400 in the program.
ASSUME HoverAssumption == HoverSpeed \in MIN_RPM..MAX_RPM

\* While height control is on and nothing else moves the rotors, a pressure above the one it
\* was switched on at (the drone sank) never gives less than the hover speed, and one below it
\* never more.
HeightOpposesDrift ==
  Settled /\ Centred /\ Untrimmed /\ fn = "yaw_control_mode" /\ gain.yaw = 0
    /\ height_control_flag /\ joy.lift > 5 =>
      \A r \in Rotors :
        /\ pressure >= height_control_pressure => ae[r] >= HoverSpeed
        /\ pressure <= height_control_pressure => ae[r] <= HoverSpeed

\* Rotor a turns faster than rotor b, unless both are at the same limit.
Faster(a, b) == ae[a] > ae[b] \/ (ae[a] = ae[b] /\ ae[a] \in {0, MIN_RPM, MAX_RPM})

\* A roll trim below the largest tilts the drone to the side the pilot trimmed; at the largest
\* the mix turns it over (the cast of process_drone.c:267, and MAX_TRIM_ROLL).
TrimTilts ==
  Settled /\ Centred /\ fn = "manual_mode" =>
    /\ key.roll \in 1..MAX_TRIM - 1 => Faster(3, 1)
    /\ key.roll < 0 \/ key.roll = MAX_TRIM => Faster(1, 3)

\* "only allow control when the joystick throttle is up" (mode_manual.c:59): with the
\* throttle up, a roll that the pilot asks for makes rotor 3 faster than rotor 1.
ControlWhenThrottleUp ==
  Settled /\ fn = "manual_mode" /\ Untrimmed /\ joy.lift > 5 /\ Signed(joy.roll) > 0
    => ae[3] > ae[1]

=============================================================================
