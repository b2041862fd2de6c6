-------------------------- MODULE ControlLoopProofs --------------------------
(***************************************************************************)
(* Theorems about ControlLoop: its types, that the rotors and the height   *)
(* control follow the throttle, and that feedback, height control and trim *)
(* have the right signs, for every set of inputs, limits and drone         *)
(* constants.                                                              *)
(***************************************************************************)
EXTENDS ControlLoop, TLAPS

-----------------------------------------------------------------------------
(***************************************************************************)
(* The arithmetic stays within the integers.                               *)
(***************************************************************************)

\* The cast to a signed char gives an integer.
LEMMA SignedInt == ASSUME NEW number \in Int PROVE Signed(number) \in Int
  BY DEF Signed

\* So does a division that cuts off.
LEMMA QuotientInt ==
  ASSUME NEW number \in Int, NEW divisor \in Nat \ {0} PROVE Quotient(number, divisor) \in Int
  BY DEF Quotient

\* A digit of the root is added or not.
LEMMA DigitInt ==
  ASSUME NEW root \in Int, NEW digit \in Int, NEW number \in Int
  PROVE  Digit(root, digit, number) \in Int
  BY DEF Digit

\* The root is an integer.
LEMMA RootInt == ASSUME NEW number \in Int PROVE Root(number) \in Int
<1>1. High(number) \in Int
  <2>1. Digit(0, 512, number) \in Int  BY DigitInt
  <2>2. Digit(Digit(0, 512, number), 256, number) \in Int  BY <2>1, DigitInt
  <2>3. Digit(Digit(Digit(0, 512, number), 256, number), 128, number) \in Int
    BY <2>2, DigitInt
  <2>4. Digit(Digit(Digit(Digit(0, 512, number), 256, number), 128, number), 64, number) \in Int
    BY <2>3, DigitInt
  <2> QED  BY <2>4, DigitInt DEF High
<1>2. Digit(High(number), 16, number) \in Int  BY <1>1, DigitInt
<1>3. Digit(Digit(High(number), 16, number), 8, number) \in Int  BY <1>2, DigitInt
<1>4. Digit(Digit(Digit(High(number), 16, number), 8, number), 4, number) \in Int
  BY <1>3, DigitInt
<1>5. Digit(Digit(Digit(Digit(High(number), 16, number), 8, number), 4, number), 2, number) \in Int
  BY <1>4, DigitInt
<1> QED  BY <1>5, DigitInt DEF Root

\* The shares of a rotor are integers.
LEMMA SharesInt ==
  ASSUME NEW r \in Rotors
  PROVE  PitchShare[r] \in Int /\ RollShare[r] \in Int /\ YawShare[r] \in Int
  BY DEF PitchShare, RollShare, YawShare, Rotors

\* What the law and the trims ask of a rotor is an integer.
LEMMA SpeedInt ==
  ASSUME TypeOK, NEW r \in Rotors
  PROVE  Thrust(r) + Trim(r) \in Int
<1> USE SharesInt
<1>1. Trim(r) \in Int
  <2>1. \A axis \in Axes : Applied(axis) \in Int
    BY TrimAssumption DEF Applied, TypeOK, SettingTypes
  <2> HIDE DEF Applied
  <2>2. Applied("lift") \in Int /\ Applied("pitch") \in Int /\ Applied("roll") \in Int
          /\ Applied("yaw") \in Int
    BY <2>1 DEF Axes, Tilt
  <2> QED  BY <2>2 DEF Trim
<1>2. Thrust(r) \in Int
  <2> DEFINE demand == lift + 2 * PitchShare[r] * pitch + 2 * RollShare[r] * roll
                         + YawShare[r] * yaw
  <2>1. demand \in Int  BY DEF TypeOK, MainTypes
  <2> HIDE DEF demand
  <2>2. Quotient(demand, 4) \in Int  BY <2>1, QuotientInt
  <2>3. Root(Quotient(demand, 4)) \in Int  BY <2>2, RootInt
  <2> QED  BY <2>2, <2>3 DEF Thrust, demand
<1> QED  BY <1>1, <1>2

\* Clamp does what it is for.
LEMMA ClampWithin == ASSUME NEW speed \in Int PROVE Clamp(speed) \in MIN_RPM..MAX_RPM
  BY SpeedAssumption DEF Clamp

-----------------------------------------------------------------------------
(***************************************************************************)
(* Types.                                                                  *)
(***************************************************************************)

\* A step of a trim or a gain stays within its limits.
LEMMA StepWithin ==
  ASSUME NEW least \in Int, NEW most \in Int, NEW number \in least..most, NEW up \in BOOLEAN
  PROVE  Step(number, up, least, most) \in least..most
  BY DEF Step

\* What the packets share keeps the types of what main has.
LEMMA PacketFrame == MainTypes /\ Packet => MainTypes'
<1> SUFFICES ASSUME MainTypes, Packet PROVE MainTypes'  OBVIOUS
<1>1. MaxPackets \in Nat  BY InputAssumption
<1>2. packets' \in 0..MaxPackets  BY <1>1 DEF MainTypes, Packet
<1> QED  BY <1>2 DEF MainTypes, Packet, mainVars, modeVars, sensorVars, localVars

\* The packets keep the types.
LEMMA PacketTypes == TypeOK /\ process_packet => TypeOK'
<1> SUFFICES ASSUME MainTypes, SettingTypes, process_packet PROVE MainTypes' /\ SettingTypes'
  BY DEF TypeOK
<1>1. ASSUME NEW up \in BOOLEAN, NEW axis \in Axes, set_key(axis, up)
      PROVE  MainTypes' /\ SettingTypes'
  <2>1. key[axis] \in MIN_TRIM..MAX_TRIM  BY DEF SettingTypes
  <2>2. Step(key[axis], up, MIN_TRIM, MAX_TRIM) \in MIN_TRIM..MAX_TRIM
    BY <2>1, StepWithin, TrimAssumption
  <2>3. key' \in [Axes -> MIN_TRIM..MAX_TRIM]
    BY <1>1, <2>2 DEF set_key, SettingTypes
  <2> QED  BY <1>1, <2>3, PacketFrame DEF set_key, heightVars, SettingTypes
<1>2. ASSUME NEW up \in BOOLEAN, NEW name \in Gains, set_key_control(name, up)
      PROVE  MainTypes' /\ SettingTypes'
  <2>1. gain[name] \in 0..MAX_CONTROLGAIN  BY DEF SettingTypes
  <2>2. Step(gain[name], up, 0, MAX_CONTROLGAIN) \in 0..MAX_CONTROLGAIN
    BY <2>1, TrimAssumption DEF Step
  <2>3. gain' \in [Gains -> 0..MAX_CONTROLGAIN]
    BY <1>2, <2>2 DEF set_key_control, SettingTypes
  <2> QED  BY <1>2, <2>3, PacketFrame DEF set_key_control, heightVars, SettingTypes
<1>3. ASSUME NEW value \in Lifts, set_joy_lift(value) PROVE MainTypes' /\ SettingTypes'
  <2>1. 127 - value \in 0..255  BY InputAssumption
  <2>2. joy' \in [Axes -> 0..255]
    BY <1>3, <2>1 DEF set_joy_lift, Axes, SettingTypes
  <2> QED  BY <1>3, <2>2, PacketFrame DEF set_joy_lift, heightVars, SettingTypes
<1>4. ASSUME NEW value \in Tilts, NEW axis \in Tilt, set_joy(axis, value)
      PROVE  MainTypes' /\ SettingTypes'
  <2>1. value \in Int  BY InputAssumption
  <2>2. value % 256 \in 0..255  BY <2>1
  <2>3. joy' \in [Axes -> 0..255]
    BY <1>4, <2>2 DEF set_joy, Axes, SettingTypes
  <2> QED  BY <1>4, <2>3, PacketFrame DEF set_joy, heightVars, SettingTypes
<1>5. ASSUME ToggleHeight PROVE MainTypes' /\ SettingTypes'
  <2>1. joy.lift \in 0..255  BY DEF SettingTypes, Axes
  <2>2. pressure \in Int  BY InputAssumption DEF MainTypes
  <2> QED  BY <1>5, <2>1, <2>2, PacketFrame DEF ToggleHeight, pilotVars, SettingTypes
<1>6. ASSUME NEW loop \in FlightLoops, ChooseMode(loop) PROVE MainTypes' /\ SettingTypes'
  BY <1>6 DEF ChooseMode, mainVars, pilotVars, heightVars, sensorVars, localVars, MainTypes,
              SettingTypes
<1>7. ASSUME ChooseSafe PROVE MainTypes' /\ SettingTypes'
  BY <1>7 DEF ChooseSafe, mainVars, pilotVars, heightVars, sensorVars, localVars, MainTypes,
              SettingTypes
<1> QED  BY <1>1, <1>2, <1>3, <1>4, <1>5, <1>6, <1>7 DEF process_packet

\* So do the steps between the passes.
LEMMA ModeTypes == TypeOK /\ (process_drone \/ panic_mode) => TypeOK'
<1> SUFFICES ASSUME MainTypes, SettingTypes, process_drone \/ panic_mode
             PROVE  MainTypes' /\ SettingTypes'
  BY DEF TypeOK
<1>1. CASE process_drone
  <2>1. Zeroed \in [Axes -> MIN_TRIM..MAX_TRIM] /\ Zeroed \in [Axes -> 0..255]
    BY TrimAssumption DEF Zeroed
  <2>2. PICK loop \in FlightLoops \cup {"safe_mode"} : at = "top" /\ Enter(loop)
    BY <1>1 DEF process_drone, MainTypes
  <2>3. SettingTypes'
    BY <2>1, <2>2 DEF Enter, heightVars, SettingTypes
  <2>4. MainTypes'
    BY <2>2 DEF Enter, sensorVars, localVars, MainTypes
  <2> QED  BY <2>3, <2>4
<1>2. CASE panic_mode
  <2>1. ae' \in [Rotors -> Int]  BY <1>2 DEF panic_mode
  <2> QED  BY <1>2, <2>1 DEF panic_mode, pilotVars, heightVars, sensorVars, localVars,
                             MainTypes, SettingTypes
<1> QED  BY <1>1, <1>2

\* The moments the laws ask for are integers.
LEMMA MomentsInt ==
  TypeOK => RollMoment \in Int /\ PitchMoment \in Int /\ YawMoment \in Int
<1> SUFFICES ASSUME TypeOK PROVE RollMoment \in Int /\ PitchMoment \in Int /\ YawMoment \in Int
  OBVIOUS
<1>1. sensor \in [phi : Int, theta : Int, sp : Int, sq : Int, sr : Int]
  BY InputAssumption DEF TypeOK, MainTypes
<1>2. gain.p1 \in Int /\ gain.p2 \in Int /\ gain.yaw \in Int
  BY TrimAssumption DEF TypeOK, SettingTypes, Gains
<1>3. /\ Quotient(sensor.phi, 15) \in Int /\ Quotient(sensor.theta, 15) \in Int
      /\ Quotient(-sensor.sp, 6) \in Int /\ Quotient(sensor.sp, 6) \in Int
      /\ Quotient(sensor.sq, 6) \in Int /\ Quotient(sensor.sr, 12) \in Int
  BY <1>1, QuotientInt
<1>4. roll \in Int /\ pitch \in Int /\ yaw \in Int  BY DEF TypeOK, MainTypes
<1> QED  BY <1>2, <1>3, <1>4 DEF RollMoment, PitchMoment, YawMoment

\* So do the steps of a pass.
LEMMA PassTypes == TypeOK /\ Pass => TypeOK'
<1> SUFFICES ASSUME TypeOK, Pass PROVE MainTypes' /\ SettingTypes'
  BY DEF TypeOK
<1>0. MainTypes /\ SettingTypes  BY DEF TypeOK
<1>1. CASE read_sensor
  BY <1>0, <1>1 DEF read_sensor, LoopVars, modeVars, pilotVars, heightVars, localVars, MainTypes,
                    SettingTypes, FlightLoops
<1>2. CASE ReadSticks
  <2>1. joy.lift \in Int /\ joy.roll \in Int /\ joy.pitch \in Int /\ joy.yaw \in Int
    BY <1>0 DEF SettingTypes, Axes, Tilt
  <2>2. Signed(joy.roll) \in Int /\ Signed(joy.pitch) \in Int /\ Signed(joy.yaw) \in Int
    BY <2>1, SignedInt
  <2>3. fn \in FlightLoops  BY <1>0, <1>2 DEF ReadSticks, MainTypes, FlightLoops
  <2> QED
    BY <1>0, <1>2, <2>1, <2>2, <2>3 DEF ReadSticks, LoopVars, modeVars, pilotVars, heightVars,
                                        sensorVars, MainTypes, SettingTypes
<1>3. CASE HeightControl
  <2>1. pressure \in Int /\ HOVER_LIFT_FORCE \in Int
    BY <1>0, InputAssumption, SpeedAssumption DEF MainTypes
  <2>2. lift' \in Int  BY <1>0, <1>3, <2>1 DEF HeightControl, MainTypes, SettingTypes
  <2> QED
    BY <1>0, <1>3, <2>2 DEF HeightControl, LoopVars, modeVars, pilotVars, sensorVars, MainTypes,
                            SettingTypes
<1>4. CASE ControlLaw
  <2>1. lift' \in Int
    BY <1>0, <1>4, SpeedAssumption DEF ControlLaw, MainTypes
  <2>2. roll' \in Int /\ pitch' \in Int /\ yaw' \in Int
    <3>1. CASE fn = "manual_mode"
      BY <1>0, <1>4, <3>1, SpeedAssumption DEF ControlLaw, MainTypes
    <3>2. CASE fn # "manual_mode" /\ lift > 10
      <4>1. /\ DRONE_ROLL_CONSTANT \div 50 \in Int /\ DRONE_PITCH_CONSTANT \div 50 \in Int
            /\ YawScale \in Int
        BY SpeedAssumption DEF YawScale
      <4>2. RollMoment \in Int /\ PitchMoment \in Int /\ YawMoment \in Int  BY MomentsInt
      <4>3. /\ roll'  = (DRONE_ROLL_CONSTANT \div 50) * RollMoment
            /\ pitch' = (DRONE_PITCH_CONSTANT \div 50) * PitchMoment
            /\ yaw'   = YawScale * YawMoment
        BY <1>4, <3>2 DEF ControlLaw
      <4> QED  BY <4>1, <4>2, <4>3
    <3>3. CASE fn # "manual_mode" /\ ~(lift > 10)
      BY <1>4, <3>3 DEF ControlLaw
    <3> QED  BY <3>1, <3>2, <3>3
  <2> QED
    BY <1>0, <1>4, <2>1, <2>2 DEF ControlLaw, LoopVars, modeVars, pilotVars, heightVars, sensorVars,
                                  MainTypes, SettingTypes
<1>5. CASE ThrottleGuard
  BY <1>0, <1>5 DEF ThrottleGuard, LoopVars, modeVars, pilotVars, heightVars, sensorVars,
                    MainTypes, SettingTypes
<1>6. CASE calculate_rotor_speeds
  <2>1. \A r \in Rotors : Clamp(Thrust(r) + Trim(r)) \in Int
    BY SpeedInt, ClampWithin, SpeedAssumption
  <2>2. ae' \in [Rotors -> Int]  BY <1>6, <2>1 DEF calculate_rotor_speeds
  <2> QED
    BY <1>0, <1>6, <2>2 DEF calculate_rotor_speeds, Parked, LoopVars, modeVars, pilotVars,
                            heightVars, sensorVars, MainTypes, SettingTypes
<1> QED  BY <1>1, <1>2, <1>3, <1>4, <1>5, <1>6 DEF Pass

\* The types hold at boot.
LEMMA InitTypes == Init => TypeOK
<1> SUFFICES ASSUME Init PROVE MainTypes /\ SettingTypes
  BY DEF TypeOK
<1>1. MainTypes
  <2>1. packets \in 0..MaxPackets
    BY InputAssumption DEF Init
  <2>2. ae \in [Rotors -> Int]
    BY DEF Init
  <2>3. change_mode \in BOOLEAN /\ steady \in BOOLEAN
    BY Zenon DEF Init
  <2>4. lift \in Int /\ roll \in Int /\ pitch \in Int /\ yaw \in Int
    BY DEF Init
  <2>5. /\ fn \in FlightLoops \cup {"safe_mode", "panic_mode"}
        /\ at \in {"top", "read", "height", "law", "guard", "mix"}
        /\ at = "top" /\ chosen \in FlightLoops \cup {"safe_mode"}
        /\ sensor \in Samples /\ pressure \in Pressures
    BY DEF Init
  <2> QED
    BY <2>1, <2>2, <2>3, <2>4, <2>5 DEF MainTypes
<1>2. Zeroed \in [Axes -> MIN_TRIM..MAX_TRIM] /\ Zeroed \in [Axes -> 0..255]
  BY TrimAssumption DEF Zeroed
<1>3. gain \in [Gains -> 0..MAX_CONTROLGAIN]
  BY TrimAssumption DEF Init
<1> HIDE DEF Zeroed
<1>4. height_control_lift \in 0..255 /\ height_control_pressure \in Int
  BY DEF Init
<1>5. height_control_flag \in BOOLEAN
  BY Zenon DEF Init
<1>6. key = Zeroed /\ joy = Zeroed
  BY DEF Init
<1>7. SettingTypes
  BY <1>2, <1>3, <1>4, <1>5, <1>6 DEF SettingTypes
<1> QED  BY <1>1, <1>7

\* ControlLoop keeps its types: trims and gains never pass the limits of process_packet.h.
THEOREM TypeCorrect == Spec => []TypeOK
<1>1. TypeOK /\ [Next]_vars => TypeOK'
  <2>1. TypeOK /\ UNCHANGED vars => TypeOK'
    BY DEF TypeOK, MainTypes, SettingTypes, vars, mainVars, modeVars, pilotVars, heightVars,
           sensorVars, localVars
  <2> QED  BY <2>1, PacketTypes, ModeTypes, PassTypes DEF Next
<1> QED  BY <1>1, InitTypes, PTL DEF Spec

-----------------------------------------------------------------------------
(***************************************************************************)
(* The throttle has the last word.                                         *)
(***************************************************************************)

\* What the packets and the steps between the passes leave behind.
LEMMA Unsettled ==
  process_packet \/ process_drone \/ panic_mode =>
    \/ steady' = FALSE
    \/ UNCHANGED <<fn, at, joy, heightVars, ae, steady>>
  BY DEF process_packet, set_key, set_key_control, set_joy_lift, set_joy, ToggleHeight, Packet,
         ChooseMode, ChooseSafe, process_drone, Enter, panic_mode, mainVars, pilotVars

\* After a pass without packets the rotors are still or within the limits, as the throttle
\* says, whatever the laws, the sensors, the trims and the constants of the drone.
THEOREM RotorsFollow == Spec => []RotorsFollowThrottle
<1>1. Init => RotorsFollowThrottle
  BY DEF Init, RotorsFollowThrottle, Settled
<1>2. TypeOK /\ RotorsFollowThrottle /\ [Next]_vars => RotorsFollowThrottle'
  <2> SUFFICES ASSUME TypeOK, RotorsFollowThrottle, [Next]_vars PROVE RotorsFollowThrottle'
    OBVIOUS
  <2>1. CASE process_packet \/ process_drone \/ panic_mode
    BY <2>1, Unsettled DEF RotorsFollowThrottle, Settled
  <2>2. CASE Pass
    <3>1. CASE calculate_rotor_speeds
      <4>1. \A r \in Rotors : Clamp(Thrust(r) + Trim(r)) \in MIN_RPM..MAX_RPM
        BY SpeedInt, ClampWithin
      <4> QED  BY <3>1, <4>1 DEF calculate_rotor_speeds, LoopVars, pilotVars,
                                 RotorsFollowThrottle, Settled
    <3>2. CASE ~calculate_rotor_speeds
      BY <2>2, <3>2 DEF Pass, read_sensor, ReadSticks, HeightControl, ControlLaw, ThrottleGuard,
                        RotorsFollowThrottle, Settled
    <3> QED  BY <3>1, <3>2
  <2>3. CASE UNCHANGED vars
    BY <2>3 DEF vars, mainVars, pilotVars, RotorsFollowThrottle, Settled
  <2> QED  BY <2>1, <2>2, <2>3 DEF Next
<1> QED  BY <1>1, <1>2, TypeCorrect, PTL DEF Spec

\* From the test of the height control to the end of the pass, as long as no packet came.
HeightMatches ==
  /\ steady /\ fn = "yaw_control_mode" /\ height_control_flag
  /\ at \in {"top", "law", "guard", "mix"}
  => height_control_lift = joy.lift

\* With the height control still on after such a pass, the throttle is where it was then.
THEOREM HeightFollows == Spec => []HeightHandsBack
<1>1. Init => HeightMatches
  BY DEF Init, HeightMatches
<1>2. TypeOK /\ HeightMatches /\ [Next]_vars => HeightMatches'
  <2> SUFFICES ASSUME TypeOK, HeightMatches, [Next]_vars PROVE HeightMatches'
    OBVIOUS
  <2>1. CASE process_packet \/ process_drone \/ panic_mode
    BY <2>1, Unsettled DEF HeightMatches, heightVars
  <2>2. CASE Pass
    <3> USE DEF LoopVars, pilotVars, heightVars, HeightMatches
    <3>1. CASE read_sensor  BY <3>1 DEF read_sensor
    <3>2. CASE ReadSticks  BY <3>2 DEF ReadSticks
    <3>3. CASE HeightControl  BY <3>3 DEF HeightControl
    <3>4. CASE ControlLaw  BY <3>4 DEF ControlLaw
    <3>5. CASE ThrottleGuard  BY <3>5 DEF ThrottleGuard
    <3>6. CASE calculate_rotor_speeds  BY <3>6 DEF calculate_rotor_speeds
    <3> QED  BY <2>2, <3>1, <3>2, <3>3, <3>4, <3>5, <3>6 DEF Pass
  <2>3. CASE UNCHANGED vars
    BY <2>3 DEF vars, mainVars, pilotVars, heightVars, HeightMatches
  <2> QED  BY <2>1, <2>2, <2>3 DEF Next
<1>3. HeightMatches => HeightHandsBack
  BY DEF HeightMatches, HeightHandsBack, Settled
<1> QED  BY <1>1, <1>2, <1>3, TypeCorrect, PTL DEF Spec

-----------------------------------------------------------------------------
(***************************************************************************)
(* The arithmetic keeps signs and order.                                   *)
(***************************************************************************)

\* A square grows with its root.
LEMMA SquareGrows ==
  ASSUME NEW a \in Nat, NEW b \in Nat, a <= b PROVE a * a <= b * b
<1>1. a * a <= a * b  OBVIOUS
<1>2. a * b <= b * b  OBVIOUS
<1> QED  BY <1>1, <1>2

\* What a digit of half the weight makes of a root whose error is below the last weight.
Below(root, weight, number) ==
  /\ root \in Nat /\ root * root <= number
  /\ root + weight <= 1024
  /\ root + weight = 1024 \/ (root + weight) * (root + weight) > number

LEMMA DigitBelow ==
  ASSUME NEW root, NEW weight \in Nat, NEW number \in Nat, Below(root, 2 * weight, number)
  PROVE  Below(Digit(root, weight, number), weight, number)
<1>1. root \in Nat  BY DEF Below
<1>2. CASE (root + weight) * (root + weight) <= number
  <2>1. Digit(root, weight, number) = root + weight  BY <1>2 DEF Digit
  <2>2. (root + weight) + weight = root + 2 * weight  BY <1>1
  <2>3. root + weight \in Nat  BY <1>1
  <2> QED  BY <1>2, <2>1, <2>2, <2>3 DEF Below
<1>3. CASE ~((root + weight) * (root + weight) <= number)
  <2>1. Digit(root, weight, number) = root  BY <1>3 DEF Digit
  <2>2. (root + weight) * (root + weight) > number  BY <1>1, <1>3
  <2> QED  BY <2>1, <2>2 DEF Below
<1> QED  BY <1>2, <1>3

\* Root is the whole part of the square root, up to 1023.
LEMMA RootIs == ASSUME NEW number \in Nat PROVE Below(Root(number), 1, number)
<1>0. Below(0, 1024, number)  BY DEF Below
<1>1. Below(Digit(0, 512, number), 512, number)  BY <1>0, DigitBelow
<1> DEFINE r2 == Digit(Digit(0, 512, number), 256, number)
           r3 == Digit(r2, 128, number)
           r4 == Digit(r3, 64, number)
           r5 == Digit(r4, 32, number)
           r6 == Digit(r5, 16, number)
           r7 == Digit(r6, 8, number)
           r8 == Digit(r7, 4, number)
           r9 == Digit(r8, 2, number)
<1>2. Below(r2, 256, number)  BY <1>1, DigitBelow
<1>h. Root(number) = Digit(r9, 1, number)  BY DEF Root, High
<1> HIDE DEF r2
<1>3. Below(r3, 128, number)  BY <1>2, DigitBelow
<1> HIDE DEF r3
<1>4. Below(r4, 64, number)  BY <1>3, DigitBelow
<1> HIDE DEF r4
<1>5. Below(r5, 32, number)  BY <1>4, DigitBelow
<1> HIDE DEF r5
<1>6. Below(r6, 16, number)  BY <1>5, DigitBelow
<1> HIDE DEF r6
<1>7. Below(r7, 8, number)  BY <1>6, DigitBelow
<1> HIDE DEF r7
<1>8. Below(r8, 4, number)  BY <1>7, DigitBelow
<1> HIDE DEF r8
<1>9. Below(r9, 2, number)  BY <1>8, DigitBelow
<1> HIDE DEF r9
<1>10. Below(Digit(r9, 1, number), 1, number)  BY <1>9, DigitBelow
<1> QED  BY <1>10, <1>h

\* So it grows with the number.
LEMMA RootGrows ==
  ASSUME NEW a \in Nat, NEW b \in Nat, a <= b PROVE Root(a) <= Root(b)
<1> DEFINE ra == Root(a)
           rb == Root(b)
<1>0. Below(ra, 1, a) /\ Below(rb, 1, b)  BY RootIs
<1> HIDE DEF ra, rb
<1>1. /\ ra \in Nat /\ ra * ra <= a /\ ra <= 1023 /\ rb \in Nat
      /\ rb + 1 = 1024 \/ (rb + 1) * (rb + 1) > b
  BY <1>0 DEF Below
<1>2. ASSUME rb < ra PROVE FALSE
  <2>1. rb + 1 <= ra /\ rb + 1 \in Nat  BY <1>1, <1>2
  <2>2. (rb + 1) * (rb + 1) <= ra * ra  BY <1>1, <2>1, SquareGrows
  <2>3. (rb + 1) * (rb + 1) > b  BY <1>1, <1>2
  <2>4. ra * ra \in Nat /\ (rb + 1) * (rb + 1) \in Nat  BY <1>1
  <2> QED  BY <1>1, <2>2, <2>3, <2>4
<1>3. ra <= rb  BY <1>1, <1>2
<1> QED  BY <1>3 DEF ra, rb

LEMMA QuotientGrows ==
  ASSUME NEW a \in Int, NEW b \in Int, a <= b, NEW divisor \in Nat \ {0}
  PROVE  Quotient(a, divisor) <= Quotient(b, divisor)
<1>1. ASSUME NEW x \in Nat, NEW y \in Nat, x <= y PROVE x \div divisor <= y \div divisor
  BY <1>1
<1>2. CASE a >= 0  BY <1>1, <1>2 DEF Quotient
<1>3. CASE b < 0  BY <1>1, <1>3 DEF Quotient
<1>4. CASE a < 0 /\ b >= 0  BY <1>4 DEF Quotient
<1> QED  BY <1>2, <1>3, <1>4

\* A quotient has the sign of its number.
LEMMA QuotientSign ==
  ASSUME NEW number \in Int, NEW divisor \in Nat \ {0}
  PROVE  /\ number >= 0 => Quotient(number, divisor) >= 0
         /\ number <= 0 => Quotient(number, divisor) <= 0
  BY DEF Quotient

\* The speed a squared speed of four times the size asks for.
Speed(demand) ==
  IF Quotient(demand, 4) < 0 THEN 1 ELSE Root(Quotient(demand, 4))

LEMMA SpeedNat == ASSUME NEW demand \in Int PROVE Speed(demand) \in Nat
<1>1. Quotient(demand, 4) \in Int  BY QuotientInt
<1>2. CASE Quotient(demand, 4) < 0  BY <1>2 DEF Speed
<1>3. CASE ~(Quotient(demand, 4) < 0)
  <2>1. Below(Root(Quotient(demand, 4)), 1, Quotient(demand, 4))  BY <1>1, <1>3, RootIs
  <2> QED  BY <1>3, <2>1 DEF Speed, Below
<1> QED  BY <1>2, <1>3

\* A larger demand never gives a rotor a lower speed: a negative one counts as 1, but so does
\* every speed below MIN_RPM.
LEMMA SpeedGrows ==
  ASSUME NEW a \in Int, NEW b \in Int, a <= b PROVE Clamp(Speed(a)) <= Clamp(Speed(b))
<1>1. Quotient(a, 4) \in Int /\ Quotient(b, 4) \in Int /\ Quotient(a, 4) <= Quotient(b, 4)
  BY QuotientInt, QuotientGrows
<1>2. Speed(a) \in Nat /\ Speed(b) \in Nat  BY SpeedNat
<1>3. Clamp(Speed(b)) >= MIN_RPM  BY <1>2, SpeedAssumption DEF Clamp
<1>4. CASE Quotient(a, 4) < 0
  <2>1. Clamp(Speed(a)) = MIN_RPM  BY <1>4, SpeedAssumption DEF Speed, Clamp
  <2> QED  BY <1>3, <2>1
<1>5. CASE ~(Quotient(a, 4) < 0)
  <2>1. Speed(a) = Root(Quotient(a, 4)) /\ Speed(b) = Root(Quotient(b, 4))
    BY <1>1, <1>5 DEF Speed
  <2>2. Root(Quotient(a, 4)) <= Root(Quotient(b, 4))  BY <1>1, <1>5, RootGrows
  <2>3. Speed(a) <= Speed(b)  BY <2>1, <2>2
  <2> QED  BY <1>2, <2>3, SpeedAssumption DEF Clamp
<1> QED  BY <1>4, <1>5

\* What each rotor gets, rotor by rotor.
LEMMA Demands ==
  ASSUME TypeOK
  PROVE  /\ Thrust(0) = Speed(lift + 2 * pitch - yaw)
         /\ Thrust(1) = Speed(lift - 2 * roll + yaw)
         /\ Thrust(2) = Speed(lift - 2 * pitch - yaw)
         /\ Thrust(3) = Speed(lift + 2 * roll + yaw)
<1>1. lift \in Int /\ roll \in Int /\ pitch \in Int /\ yaw \in Int  BY DEF TypeOK, MainTypes
<1>2. /\ PitchShare[0] = 1 /\ RollShare[0] = 0 /\ YawShare[0] = -1
      /\ PitchShare[1] = 0 /\ RollShare[1] = -1 /\ YawShare[1] = 1
      /\ PitchShare[2] = -1 /\ RollShare[2] = 0 /\ YawShare[2] = -1
      /\ PitchShare[3] = 0 /\ RollShare[3] = 1 /\ YawShare[3] = 1
  BY DEF PitchShare, RollShare, YawShare, Rotors
<1>3. /\ lift + 2 * PitchShare[0] * pitch + 2 * RollShare[0] * roll + YawShare[0] * yaw
            = lift + 2 * pitch - yaw
      /\ lift + 2 * PitchShare[1] * pitch + 2 * RollShare[1] * roll + YawShare[1] * yaw
            = lift - 2 * roll + yaw
      /\ lift + 2 * PitchShare[2] * pitch + 2 * RollShare[2] * roll + YawShare[2] * yaw
            = lift - 2 * pitch - yaw
      /\ lift + 2 * PitchShare[3] * pitch + 2 * RollShare[3] * roll + YawShare[3] * yaw
            = lift + 2 * roll + yaw
  BY <1>1, <1>2
<1> QED  BY <1>3 DEF Thrust, Speed

LEMMA Trims ==
  ASSUME TypeOK
  PROVE  /\ \A axis \in Axes : Applied(axis) \in Int
         /\ Trim(1) = Applied("lift") - Applied("roll") + Applied("yaw")
         /\ Trim(3) = Applied("lift") + Applied("roll") + Applied("yaw")
         /\ Untrimmed => \A r \in Rotors : Trim(r) = 0
<1>1. \A axis \in Axes : Applied(axis) \in Int
  BY TrimAssumption DEF Applied, TypeOK, SettingTypes
<1>2. Untrimmed => \A axis \in Axes : Applied(axis) = 0
  BY TrimAssumption DEF Untrimmed, Applied
<1>3. {"lift", "roll", "pitch", "yaw"} \subseteq Axes  BY DEF Axes, Tilt
<1> HIDE DEF Applied
<1>4. /\ PitchShare[1] = 0 /\ RollShare[1] = -1 /\ YawShare[1] = 1
      /\ PitchShare[3] = 0 /\ RollShare[3] = 1 /\ YawShare[3] = 1
  BY DEF PitchShare, RollShare, YawShare, Rotors
<1>5. /\ Trim(1) = Applied("lift") - Applied("roll") + Applied("yaw")
      /\ Trim(3) = Applied("lift") + Applied("roll") + Applied("yaw")
  BY <1>1, <1>3, <1>4 DEF Trim
<1>6. Untrimmed => \A r \in Rotors : Trim(r) = 0
  BY <1>2, <1>3, SharesInt DEF Trim
<1> QED  BY <1>1, <1>5, <1>6

-----------------------------------------------------------------------------
(***************************************************************************)
(* The feedback, the height control and the trims act the right way.       *)
(***************************************************************************)

\* No packet has come since main read centred sticks.
Quiet == steady /\ Centred

\* Each moment so far opposes what the sensors show; without sensors there is none.
MomentsOppose ==
  Quiet =>
    /\ at \in {"height", "law"} => roll = 0 /\ pitch = 0 /\ yaw = 0
    /\ at \in {"guard", "mix"} =>
         /\ fn \in {"manual_mode", "yaw_control_mode"} => roll = 0 /\ pitch = 0
         /\ fn = "manual_mode" => yaw = 0
         /\ fn = "yaw_control_mode" =>
              /\ sensor.sr >= 0 => yaw <= 0
              /\ sensor.sr <= 0 => yaw >= 0
              /\ gain.yaw = 0 => yaw = 0
         /\ fn \in {"full_control_mode", "full_control_mode_raw"} =>
              /\ sensor.phi >= 0 /\ sensor.sp >= 0 => roll <= 0
              /\ sensor.phi <= 0 /\ sensor.sp <= 0 => roll >= 0
              /\ sensor.theta >= 0 /\ sensor.sq <= 0 => pitch <= 0
              /\ sensor.theta <= 0 /\ sensor.sq >= 0 => pitch >= 0

\* The lift of a drone that holds its height: more than hovering takes if it sank.
HeldLift == HOVER_LIFT_FORCE + (pressure - height_control_pressure)

LiftHolds ==
  steady /\ fn = "yaw_control_mode" /\ height_control_flag =>
    /\ at = "law" => lift = HeldLift
    /\ at \in {"guard", "mix"} => lift = DRONE_LIFT_CONSTANT * HeldLift

TiltInv == /\ MomentsOppose /\ LiftHolds
           /\ NegativeFeedback /\ HeightOpposesDrift /\ TrimTilts

\* The signs of products, which the provers find hard.
LEMMA ProductSign ==
  ASSUME NEW factor \in Nat, NEW number \in Int
  PROVE  /\ factor * number \in Int
         /\ number >= 0 => factor * number >= 0
         /\ number <= 0 => factor * number <= 0
  OBVIOUS

\* With centred sticks the laws of the sensor loops oppose what the sensors show.
LEMMA LawsOppose ==
  ASSUME TypeOK, roll = 0, pitch = 0, yaw = 0
  PROVE  /\ sensor.sr >= 0 => YawMoment <= 0
         /\ sensor.sr <= 0 => YawMoment >= 0
         /\ gain.yaw = 0 => YawMoment = 0
         /\ fn \in {"full_control_mode", "full_control_mode_raw"} =>
              /\ sensor.phi >= 0 /\ sensor.sp >= 0 => RollMoment <= 0
              /\ sensor.phi <= 0 /\ sensor.sp <= 0 => RollMoment >= 0
              /\ sensor.theta >= 0 /\ sensor.sq <= 0 => PitchMoment <= 0
              /\ sensor.theta <= 0 /\ sensor.sq >= 0 => PitchMoment >= 0
         /\ fn = "yaw_control_mode" => RollMoment = 0 /\ PitchMoment = 0
<1>1. sensor \in [phi : Int, theta : Int, sp : Int, sq : Int, sr : Int]
  BY InputAssumption DEF TypeOK, MainTypes
<1>2. gain.p1 \in Nat /\ gain.p2 \in Nat /\ gain.yaw \in Nat
  BY TrimAssumption DEF TypeOK, SettingTypes, Gains
<1> DEFINE phi   == Quotient(sensor.phi, 15)
           theta == Quotient(sensor.theta, 15)
           sp    == Quotient(sensor.sp, 6)
           minus == Quotient(-sensor.sp, 6)
           sq    == Quotient(sensor.sq, 6)
           sr    == Quotient(sensor.sr, 12)
<1>3. /\ phi \in Int /\ theta \in Int /\ sp \in Int /\ minus \in Int /\ sq \in Int /\ sr \in Int
  BY <1>1, QuotientInt
<1>4. /\ sensor.phi >= 0 => phi >= 0
      /\ sensor.phi <= 0 => phi <= 0
      /\ sensor.theta >= 0 => theta >= 0
      /\ sensor.theta <= 0 => theta <= 0
      /\ sensor.sp >= 0 => sp >= 0 /\ minus <= 0
      /\ sensor.sp <= 0 => sp <= 0 /\ minus >= 0
      /\ sensor.sq >= 0 => sq >= 0
      /\ sensor.sq <= 0 => sq <= 0
      /\ sensor.sr >= 0 => sr >= 0
      /\ sensor.sr <= 0 => sr <= 0
  BY <1>1, QuotientSign
<1> DEFINE rollrate  == gain.p1 * (0 - phi)
           pitchrate == gain.p1 * (0 - theta)
<1>5. /\ YawMoment = gain.yaw * (0 - sr)
      /\ fn = "full_control_mode" =>
           /\ RollMoment = rollrate + gain.p2 * minus
           /\ PitchMoment = pitchrate + gain.p2 * sq
      /\ fn = "full_control_mode_raw" =>
           /\ RollMoment = gain.p2 * (rollrate - sp)
           /\ PitchMoment = gain.p2 * (pitchrate + sq)
      /\ fn = "yaw_control_mode" => RollMoment = 0 /\ PitchMoment = 0
  BY DEF YawMoment, RollMoment, PitchMoment
<1> HIDE DEF phi, theta, sp, minus, sq, sr
<1>6. /\ rollrate \in Int /\ pitchrate \in Int
      /\ phi >= 0 => rollrate <= 0
      /\ phi <= 0 => rollrate >= 0
      /\ theta >= 0 => pitchrate <= 0
      /\ theta <= 0 => pitchrate >= 0
  BY <1>2, <1>3, ProductSign
<1> HIDE DEF rollrate, pitchrate
<1>7. /\ sr >= 0 => YawMoment <= 0
      /\ sr <= 0 => YawMoment >= 0
      /\ gain.yaw = 0 => YawMoment = 0
  BY <1>2, <1>3, <1>5, ProductSign
<1>8. /\ gain.p2 * minus \in Int
      /\ minus >= 0 => gain.p2 * minus >= 0
      /\ minus <= 0 => gain.p2 * minus <= 0
      /\ gain.p2 * sq \in Int
      /\ sq >= 0 => gain.p2 * sq >= 0
      /\ sq <= 0 => gain.p2 * sq <= 0
  BY <1>2, <1>3, ProductSign
<1>9. ASSUME fn = "full_control_mode"
      PROVE  /\ sensor.phi >= 0 /\ sensor.sp >= 0 => RollMoment <= 0
             /\ sensor.phi <= 0 /\ sensor.sp <= 0 => RollMoment >= 0
             /\ sensor.theta >= 0 /\ sensor.sq <= 0 => PitchMoment <= 0
             /\ sensor.theta <= 0 /\ sensor.sq >= 0 => PitchMoment >= 0
  BY <1>4, <1>5, <1>6, <1>8, <1>9
<1>10. ASSUME fn = "full_control_mode_raw"
       PROVE  /\ sensor.phi >= 0 /\ sensor.sp >= 0 => RollMoment <= 0
              /\ sensor.phi <= 0 /\ sensor.sp <= 0 => RollMoment >= 0
              /\ sensor.theta >= 0 /\ sensor.sq <= 0 => PitchMoment <= 0
              /\ sensor.theta <= 0 /\ sensor.sq >= 0 => PitchMoment >= 0
  <2>1. /\ rollrate - sp \in Int /\ pitchrate + sq \in Int
        /\ sensor.phi >= 0 /\ sensor.sp >= 0 => rollrate - sp <= 0
        /\ sensor.phi <= 0 /\ sensor.sp <= 0 => rollrate - sp >= 0
        /\ sensor.theta >= 0 /\ sensor.sq <= 0 => pitchrate + sq <= 0
        /\ sensor.theta <= 0 /\ sensor.sq >= 0 => pitchrate + sq >= 0
    BY <1>3, <1>4, <1>6
  <2> QED  BY <1>2, <1>5, <1>10, <2>1, ProductSign
<1> QED  BY <1>4, <1>5, <1>7, <1>9, <1>10

\* The control law gives moments that oppose, and the lift its scale.
LEMMA ControlLawOpposes ==
  ASSUME TypeOK, MomentsOppose, LiftHolds, ControlLaw
  PROVE  MomentsOppose' /\ LiftHolds'
<1>1. /\ at = "law" /\ at' = "guard" /\ lift' = DRONE_LIFT_CONSTANT * lift
      /\ UNCHANGED <<fn, steady, joy, gain, sensor, pressure, heightVars>>
  BY DEF ControlLaw, LoopVars, sensorVars, pilotVars
<1>2. LiftHolds'
  BY <1>1 DEF LiftHolds, HeldLift, heightVars
<1>3. ASSUME Quiet PROVE MomentsOppose'
  <2>1. roll = 0 /\ pitch = 0 /\ yaw = 0
    BY <1>1, <1>3 DEF MomentsOppose
  <2>2. CASE fn = "manual_mode"
    <3>1. roll' = 0 /\ pitch' = 0 /\ yaw' = 0
      BY <2>1, <2>2, SpeedAssumption DEF ControlLaw
    <3> QED  BY <1>1, <2>2, <3>1 DEF MomentsOppose
  <2>3. CASE fn # "manual_mode" /\ ~(lift > 10)
    <3>1. roll' = 0 /\ pitch' = 0 /\ yaw' = 0
      BY <2>3 DEF ControlLaw
    <3> QED  BY <1>1, <2>3, <3>1 DEF MomentsOppose
  <2>4. CASE fn # "manual_mode" /\ lift > 10
    <3>1. /\ roll' = (DRONE_ROLL_CONSTANT \div 50) * RollMoment
          /\ pitch' = (DRONE_PITCH_CONSTANT \div 50) * PitchMoment
          /\ yaw' = YawScale * YawMoment
      BY <2>4 DEF ControlLaw
    <3>2. /\ DRONE_ROLL_CONSTANT \div 50 \in Nat /\ DRONE_PITCH_CONSTANT \div 50 \in Nat
          /\ YawScale \in Nat
      BY SpeedAssumption DEF YawScale
    <3>3. RollMoment \in Int /\ PitchMoment \in Int /\ YawMoment \in Int
      BY MomentsInt
    <3>4. /\ RollMoment >= 0 => roll' >= 0
          /\ RollMoment <= 0 => roll' <= 0
          /\ PitchMoment >= 0 => pitch' >= 0
          /\ PitchMoment <= 0 => pitch' <= 0
          /\ YawMoment >= 0 => yaw' >= 0
          /\ YawMoment <= 0 => yaw' <= 0
          /\ roll' \in Int /\ pitch' \in Int /\ yaw' \in Int
      BY <3>1, <3>2, <3>3, ProductSign
    <3>5. /\ RollMoment = 0 => roll' = 0
          /\ PitchMoment = 0 => pitch' = 0
          /\ YawMoment = 0 => yaw' = 0
      BY <3>4, <3>3
    <3>6. fn \in SensorLoops
      BY <1>1, <2>4 DEF TypeOK, MainTypes, FlightLoops
    <3>7. fn' = fn /\ sensor' = sensor /\ gain' = gain /\ at' = "guard"
      BY <1>1
    <3>8. CASE fn = "yaw_control_mode"
      <4>1. /\ sensor.sr >= 0 => yaw' <= 0
            /\ sensor.sr <= 0 => yaw' >= 0
            /\ gain.yaw = 0 => yaw' = 0
            /\ roll' = 0 /\ pitch' = 0
        BY <2>1, <3>4, <3>5, <3>8, LawsOppose
      <4> QED  BY <3>7, <3>8, <4>1 DEF MomentsOppose
    <3>9. CASE fn \in {"full_control_mode", "full_control_mode_raw"}
      <4>1. /\ sensor.phi >= 0 /\ sensor.sp >= 0 => roll' <= 0
            /\ sensor.phi <= 0 /\ sensor.sp <= 0 => roll' >= 0
            /\ sensor.theta >= 0 /\ sensor.sq <= 0 => pitch' <= 0
            /\ sensor.theta <= 0 /\ sensor.sq >= 0 => pitch' >= 0
        BY <2>1, <3>4, <3>9, LawsOppose
      <4> QED  BY <3>7, <3>9, <4>1 DEF MomentsOppose
    <3> QED  BY <3>6, <3>8, <3>9 DEF SensorLoops
  <2> QED  BY <2>2, <2>3, <2>4
<1>4. ASSUME ~Quiet PROVE MomentsOppose'
  <2>1. ~Quiet'
    BY <1>1, <1>4 DEF Quiet, Centred
  <2> QED  BY <2>1 DEF MomentsOppose
<1> QED  BY <1>2, <1>3, <1>4

\* What the rotors get from a mix.
LEMMA MixGives ==
  ASSUME TypeOK, calculate_rotor_speeds
  PROVE  /\ at = "mix" /\ at' = "top"
         /\ UNCHANGED <<fn, steady, key, joy, gain, sensor, pressure, heightVars>>
         /\ joy.lift <= 5 => \A r \in Rotors : ae'[r] = 0
         /\ joy.lift > 5 => \A r \in Rotors : ae'[r] = Clamp(Thrust(r) + Trim(r))
         /\ Untrimmed /\ joy.lift > 5 => \A r \in Rotors : ae'[r] = Clamp(Thrust(r))
<1>1. /\ at = "mix" /\ at' = "top"
      /\ UNCHANGED <<fn, steady, key, joy, gain, sensor, pressure, heightVars>>
      /\ ae' = [r \in Rotors |-> IF joy.lift > 5 THEN Clamp(Thrust(r) + Trim(r)) ELSE 0]
  BY DEF calculate_rotor_speeds, LoopVars, pilotVars, sensorVars
<1>2. joy.lift \in Int
  BY DEF TypeOK, SettingTypes, Axes
<1>3. /\ joy.lift <= 5 => \A r \in Rotors : ae'[r] = 0
      /\ joy.lift > 5 => \A r \in Rotors : ae'[r] = Clamp(Thrust(r) + Trim(r))
  BY <1>1, <1>2
<1>4. ASSUME Untrimmed, joy.lift > 5, NEW r \in Rotors PROVE ae'[r] = Clamp(Thrust(r))
  <2>1. Trim(r) = 0  BY <1>4, Trims
  <2>2. Thrust(r) \in Int
    <3>1. /\ lift + 2 * pitch - yaw \in Int /\ lift - 2 * roll + yaw \in Int
          /\ lift - 2 * pitch - yaw \in Int /\ lift + 2 * roll + yaw \in Int
      BY DEF TypeOK, MainTypes
    <3>2. Thrust(0) \in Int /\ Thrust(1) \in Int /\ Thrust(2) \in Int /\ Thrust(3) \in Int
      BY <3>1, Demands, SpeedNat
    <3>3. r = 0 \/ r = 1 \/ r = 2 \/ r = 3  BY DEF Rotors
    <3> QED  BY <3>2, <3>3
  <2>3. Thrust(r) + Trim(r) = Thrust(r)  BY <2>1, <2>2
  <2> QED  BY <1>3, <1>4, <2>3
<1> QED  BY <1>1, <1>3, <1>4

\* The feedback after a mix.
LEMMA MixOpposes ==
  ASSUME TypeOK, MomentsOppose, calculate_rotor_speeds
  PROVE  NegativeFeedback'
<1> SUFFICES ASSUME Quiet, Untrimmed PROVE NegativeFeedback'
  <2>1. UNCHANGED <<steady, joy, key>>  BY MixGives
  <2> QED  BY <2>1 DEF NegativeFeedback, Settled, Quiet, Centred, Untrimmed
<1>0. 0 \in Rotors /\ 1 \in Rotors /\ 2 \in Rotors /\ 3 \in Rotors  BY DEF Rotors
<1>1. at = "mix" /\ UNCHANGED <<fn, sensor>>  BY MixGives
<1>2. lift \in Int /\ roll \in Int /\ pitch \in Int /\ yaw \in Int  BY DEF TypeOK, MainTypes
<1>3. CASE joy.lift <= 5
  <2>1. \A r \in Rotors : ae'[r] = 0  BY <1>3, MixGives
  <2> QED  BY <1>0, <2>1 DEF NegativeFeedback
<1>4. CASE joy.lift > 5
  <2>1. /\ ae'[0] = Clamp(Speed(lift + 2 * pitch - yaw))
        /\ ae'[1] = Clamp(Speed(lift - 2 * roll + yaw))
        /\ ae'[2] = Clamp(Speed(lift - 2 * pitch - yaw))
        /\ ae'[3] = Clamp(Speed(lift + 2 * roll + yaw))
        /\ \A r \in Rotors : ae'[r] = Clamp(Thrust(r))
    BY <1>0, <1>4, MixGives, Demands
  <2>2. CASE fn \in {"full_control_mode", "full_control_mode_raw"}
    <3>1. /\ roll <= 0 => ae'[3] <= ae'[1]
          /\ roll >= 0 => ae'[3] >= ae'[1]
      <4>1. roll <= 0 => lift + 2 * roll + yaw <= lift - 2 * roll + yaw  BY <1>2
      <4>2. roll >= 0 => lift + 2 * roll + yaw >= lift - 2 * roll + yaw  BY <1>2
      <4>3. lift + 2 * roll + yaw \in Int /\ lift - 2 * roll + yaw \in Int  BY <1>2
      <4>4. ASSUME NEW a \in Int, NEW b \in Int, a <= b
            PROVE  Clamp(Speed(a)) <= Clamp(Speed(b)) /\ Clamp(Speed(b)) >= Clamp(Speed(a))
        <5>1. Clamp(Speed(a)) <= Clamp(Speed(b))  BY <4>4, SpeedGrows
        <5>2. Clamp(Speed(a)) \in Int /\ Clamp(Speed(b)) \in Int
          BY SpeedNat, ClampWithin, SpeedAssumption
        <5> QED  BY <5>1, <5>2
      <4>5. roll <= 0 => ae'[3] <= ae'[1]  BY <2>1, <4>1, <4>3, <4>4
      <4>6. roll >= 0 => lift - 2 * roll + yaw <= lift + 2 * roll + yaw  BY <4>2, <4>3
      <4>7. roll >= 0 => ae'[3] >= ae'[1]  BY <2>1, <4>6, <4>3, <4>4
      <4> QED  BY <4>5, <4>7
    <3>2. /\ pitch <= 0 => ae'[0] <= ae'[2]
          /\ pitch >= 0 => ae'[0] >= ae'[2]
      <4>1. pitch <= 0 => lift + 2 * pitch - yaw <= lift - 2 * pitch - yaw  BY <1>2
      <4>2. pitch >= 0 => lift - 2 * pitch - yaw <= lift + 2 * pitch - yaw  BY <1>2
      <4>3. lift + 2 * pitch - yaw \in Int /\ lift - 2 * pitch - yaw \in Int  BY <1>2
      <4>4. Clamp(Speed(lift + 2 * pitch - yaw)) \in Int /\ Clamp(Speed(lift - 2 * pitch - yaw)) \in Int
        BY <4>3, SpeedNat, ClampWithin, SpeedAssumption
      <4>5. pitch <= 0 => ae'[0] <= ae'[2]  BY <2>1, <4>1, <4>3, SpeedGrows
      <4>6. pitch >= 0 => ae'[2] <= ae'[0]  BY <2>1, <4>2, <4>3, SpeedGrows
      <4> QED  BY <2>1, <4>4, <4>5, <4>6
    <3>3. /\ sensor.phi >= 0 /\ sensor.sp >= 0 => roll <= 0
          /\ sensor.phi <= 0 /\ sensor.sp <= 0 => roll >= 0
          /\ sensor.theta >= 0 /\ sensor.sq <= 0 => pitch <= 0
          /\ sensor.theta <= 0 /\ sensor.sq >= 0 => pitch >= 0
      BY <1>1, <2>2 DEF MomentsOppose
    <3> QED  BY <1>1, <2>2, <3>1, <3>2, <3>3 DEF NegativeFeedback
  <2>3. CASE fn = "yaw_control_mode"
    <3>1. roll = 0 /\ pitch = 0  BY <1>1, <2>3 DEF MomentsOppose
    <3>2. /\ ae'[0] = Clamp(Speed(lift - yaw)) /\ ae'[2] = Clamp(Speed(lift - yaw))
          /\ ae'[1] = Clamp(Speed(lift + yaw)) /\ ae'[3] = Clamp(Speed(lift + yaw))
      <4>1. /\ lift + 2 * pitch - yaw = lift - yaw /\ lift - 2 * pitch - yaw = lift - yaw
            /\ lift - 2 * roll + yaw = lift + yaw /\ lift + 2 * roll + yaw = lift + yaw
        BY <1>2, <3>1
      <4> QED  BY <2>1, <4>1
    <3>3. lift - yaw \in Int /\ lift + yaw \in Int  BY <1>2
    <3>4. Clamp(Speed(lift - yaw)) \in Int /\ Clamp(Speed(lift + yaw)) \in Int
      BY <3>3, SpeedNat, ClampWithin, SpeedAssumption
    <3>5. yaw <= 0 => Clamp(Speed(lift + yaw)) <= Clamp(Speed(lift - yaw))
      <4>1. yaw <= 0 => lift + yaw <= lift - yaw  BY <1>2
      <4> QED  BY <3>3, <4>1, SpeedGrows
    <3>6. yaw >= 0 => Clamp(Speed(lift - yaw)) <= Clamp(Speed(lift + yaw))
      <4>1. yaw >= 0 => lift - yaw <= lift + yaw  BY <1>2
      <4> QED  BY <3>3, <4>1, SpeedGrows
    <3>7. /\ sensor.sr >= 0 => yaw <= 0
          /\ sensor.sr <= 0 => yaw >= 0
      BY <1>1, <2>3 DEF MomentsOppose
    <3>8. /\ sensor.sr >= 0 => ae'[0] >= ae'[1] /\ ae'[2] >= ae'[3]
          /\ sensor.sr <= 0 => ae'[0] <= ae'[1] /\ ae'[2] <= ae'[3]
      BY <3>2, <3>4, <3>5, <3>6, <3>7
    <3> QED  BY <1>1, <2>3, <3>8 DEF NegativeFeedback
  <2>4. CASE fn = "manual_mode"
    <3>1. roll = 0 /\ pitch = 0 /\ yaw = 0  BY <1>1, <2>4 DEF MomentsOppose
    <3>2. /\ lift + 2 * pitch - yaw = lift /\ lift - 2 * pitch - yaw = lift
          /\ lift - 2 * roll + yaw = lift /\ lift + 2 * roll + yaw = lift
      BY <1>2, <3>1
    <3>3. ae'[0] = ae'[1] /\ ae'[0] = ae'[2] /\ ae'[0] = ae'[3]  BY <2>1, <3>2
    <3>4. ASSUME NEW r \in Rotors PROVE ae'[r] = ae'[0]
      <4>1. r = 0 \/ r = 1 \/ r = 2 \/ r = 3  BY DEF Rotors
      <4> QED  BY <3>3, <4>1
    <3> QED  BY <1>1, <2>4, <3>4 DEF NegativeFeedback
  <2> QED  BY <1>1, <2>2, <2>3, <2>4 DEF NegativeFeedback
<1> QED
  <2>1. joy.lift \in Int  BY DEF TypeOK, SettingTypes, Axes
  <2> QED  BY <1>3, <1>4, <2>1

\* The height control after a mix.
LEMMA MixHolds ==
  ASSUME TypeOK, MomentsOppose, LiftHolds, calculate_rotor_speeds
  PROVE  HeightOpposesDrift'
<1>1. at = "mix" /\ UNCHANGED <<fn, steady, key, joy, gain, pressure, heightVars>>  BY MixGives
<1> SUFFICES ASSUME Quiet, Untrimmed, fn = "yaw_control_mode", gain.yaw = 0,
                    height_control_flag, joy.lift > 5, NEW r \in Rotors
             PROVE  /\ pressure >= height_control_pressure => ae'[r] >= HoverSpeed
                    /\ pressure <= height_control_pressure => ae'[r] <= HoverSpeed
  BY <1>1 DEF HeightOpposesDrift, Settled, Quiet, Centred, Untrimmed, heightVars
<1>2. roll = 0 /\ pitch = 0 /\ yaw = 0  BY <1>1 DEF MomentsOppose
<1>3. lift = DRONE_LIFT_CONSTANT * HeldLift  BY <1>1 DEF LiftHolds, Quiet
<1>4. lift \in Int /\ pressure \in Int /\ height_control_pressure \in Int
  BY InputAssumption DEF TypeOK, MainTypes, SettingTypes
<1>5. Thrust(r) = Speed(lift)
  <2>1. /\ lift + 2 * pitch - yaw = lift /\ lift - 2 * pitch - yaw = lift
        /\ lift - 2 * roll + yaw = lift /\ lift + 2 * roll + yaw = lift
    BY <1>2, <1>4
  <2>2. r = 0 \/ r = 1 \/ r = 2 \/ r = 3  BY DEF Rotors
  <2> QED  BY <2>1, <2>2, Demands
<1>6. ae'[r] = Clamp(Speed(lift))  BY <1>5, MixGives
<1> DEFINE hover == DRONE_LIFT_CONSTANT * HOVER_LIFT_FORCE
<1>7. hover \in Nat  BY SpeedAssumption
<1>8. Clamp(Speed(hover)) = HoverSpeed
  <2>1. Quotient(hover, 4) >= 0 /\ Quotient(hover, 4) \in Int  BY <1>7, QuotientSign, QuotientInt
  <2>2. Speed(hover) = HoverSpeed  BY <2>1 DEF Speed, HoverSpeed
  <2> QED  BY <2>2, HoverAssumption, SpeedAssumption DEF Clamp
<1>9. /\ pressure >= height_control_pressure => hover <= lift
      /\ pressure <= height_control_pressure => lift <= hover
  <2>1. pressure - height_control_pressure \in Int  BY <1>4
  <2>2. lift = hover + DRONE_LIFT_CONSTANT * (pressure - height_control_pressure)
    BY <1>3, <1>4, SpeedAssumption DEF HeldLift
  <2>3. /\ pressure >= height_control_pressure =>
             DRONE_LIFT_CONSTANT * (pressure - height_control_pressure) >= 0
        /\ pressure <= height_control_pressure =>
             DRONE_LIFT_CONSTANT * (pressure - height_control_pressure) <= 0
        /\ DRONE_LIFT_CONSTANT * (pressure - height_control_pressure) \in Int
    BY <1>4, <2>1, ProductSign, SpeedAssumption
  <2> QED  BY <1>4, <1>7, <2>2, <2>3
<1> HIDE DEF hover
<1>10. Clamp(Speed(lift)) \in Int /\ Clamp(Speed(hover)) \in Int
  BY <1>4, <1>7, SpeedNat, ClampWithin, SpeedAssumption
<1>11. hover <= lift => Clamp(Speed(hover)) <= Clamp(Speed(lift))
  BY <1>4, <1>7, SpeedGrows
<1>12. lift <= hover => Clamp(Speed(lift)) <= Clamp(Speed(hover))
  BY <1>4, <1>7, SpeedGrows
<1> QED  BY <1>6, <1>8, <1>9, <1>10, <1>11, <1>12

\* The first of two speeds is the larger one, unless both are at the same limit.
SpeedsApart(a, b) == a > b \/ (a = b /\ a \in {0, MIN_RPM, MAX_RPM})

\* Clamping keeps two speeds apart but at a limit.
LEMMA ClampApart ==
  ASSUME NEW a \in Int, NEW b \in Int, a < b
  PROVE  SpeedsApart(Clamp(b), Clamp(a))
  BY SpeedAssumption DEF Clamp, SpeedsApart

\* The trims after a mix.
LEMMA MixTilts ==
  ASSUME TypeOK, MomentsOppose, calculate_rotor_speeds
  PROVE  TrimTilts'
<1>1. at = "mix" /\ UNCHANGED <<fn, steady, key, joy>>  BY MixGives
<1> SUFFICES ASSUME Quiet, fn = "manual_mode"
             PROVE  /\ key.roll \in 1..MAX_TRIM - 1 => SpeedsApart(ae'[3], ae'[1])
                    /\ key.roll < 0 \/ key.roll = MAX_TRIM => SpeedsApart(ae'[1], ae'[3])
  BY <1>1 DEF TrimTilts, Settled, Quiet, Centred, Faster, SpeedsApart
<1>0. 1 \in Rotors /\ 3 \in Rotors  BY DEF Rotors
<1>2. CASE joy.lift <= 5
  <2>1. ae'[1] = 0 /\ ae'[3] = 0  BY <1>0, <1>2, MixGives
  <2> QED  BY <2>1 DEF SpeedsApart
<1>3. CASE joy.lift > 5
  <2>1. roll = 0 /\ yaw = 0  BY <1>1 DEF MomentsOppose
  <2>2. lift \in Int  BY DEF TypeOK, MainTypes
  <2>3. lift - 2 * roll + yaw = lift /\ lift + 2 * roll + yaw = lift  BY <2>1, <2>2
  <2> DEFINE one == Speed(lift) + (Applied("lift") - Applied("roll") + Applied("yaw"))
             three == Speed(lift) + (Applied("lift") + Applied("roll") + Applied("yaw"))
  <2>4. ae'[1] = Clamp(one) /\ ae'[3] = Clamp(three)
    BY <1>0, <1>3, <2>3, MixGives, Demands, Trims
  <2>5. /\ Applied("lift") \in Int /\ Applied("roll") \in Int /\ Applied("yaw") \in Int
        /\ Speed(lift) \in Int
    BY <2>2, Trims, SpeedNat DEF Axes, Tilt
  <2>6. key.roll \in MIN_TRIM..MAX_TRIM  BY DEF TypeOK, SettingTypes, Axes, Tilt
  <2>7. /\ key.roll \in 1..MAX_TRIM - 1 => Applied("roll") > 0
        /\ key.roll < 0 \/ key.roll = MAX_TRIM => Applied("roll") < 0
    BY <2>6, TrimAssumption DEF Applied
  <2>8. /\ Applied("roll") > 0 => one < three
        /\ Applied("roll") < 0 => three < one
        /\ one \in Int /\ three \in Int
    BY <2>5
  <2> HIDE DEF one, three
  <2>9. Clamp(one) \in Int /\ Clamp(three) \in Int
    BY <2>8, ClampWithin, SpeedAssumption
  <2>10. Applied("roll") > 0 => SpeedsApart(ae'[3], ae'[1])
    BY <2>4, <2>8, ClampApart
  <2>11. Applied("roll") < 0 => SpeedsApart(ae'[1], ae'[3])
    BY <2>4, <2>8, ClampApart
  <2> QED  BY <2>7, <2>10, <2>11
<1> QED
  <2>1. joy.lift \in Int  BY DEF TypeOK, SettingTypes, Axes
  <2> QED  BY <1>2, <1>3, <2>1

\* The steps that are not of a pass end the quiet or leave all of it alone.
LEMMA QuietFrame ==
  process_packet \/ process_drone \/ panic_mode \/ UNCHANGED vars =>
    \/ steady' = FALSE
    \/ UNCHANGED <<fn, at, pilotVars, heightVars, sensorVars, localVars, ae, steady>>
  BY DEF process_packet, set_key, set_key_control, set_joy_lift, set_joy, ToggleHeight, Packet,
         ChooseMode, ChooseSafe, process_drone, Enter, panic_mode, mainVars, vars

\* Until the mix: the sticks are centred when main reads them, height control gives the lift of
\* HeldLift, the laws oppose and the throttle can only end the moments.
LEMMA PassOpposes ==
  ASSUME TypeOK, MomentsOppose, LiftHolds,
         read_sensor \/ ReadSticks \/ HeightControl \/ ControlLaw \/ ThrottleGuard
  PROVE  MomentsOppose' /\ LiftHolds' /\ at' # "top"
<1> USE DEF LoopVars, pilotVars, heightVars, sensorVars, localVars
<1>1. CASE read_sensor
  BY <1>1 DEF read_sensor, MomentsOppose, LiftHolds
<1>2. CASE ReadSticks
  <2>1. /\ yaw' = Signed(joy.yaw) /\ at' \in {"height", "law"} /\ joy' = joy
        /\ fn' = fn /\ (fn' = "yaw_control_mode" => at' = "height")
        /\ roll' = 0 \/ roll' = Signed(joy.roll)
        /\ pitch' = 0 \/ pitch' = Signed(joy.pitch)
    BY <1>2 DEF ReadSticks
  <2>2. Signed(0) = 0  BY DEF Signed
  <2>3. Centred' => joy.roll = 0 /\ joy.pitch = 0 /\ joy.yaw = 0
    BY <2>1 DEF Centred, Tilt
  <2>4. MomentsOppose'
    BY <2>1, <2>2, <2>3 DEF MomentsOppose, Quiet
  <2> QED  BY <2>1, <2>4 DEF LiftHolds
<1>3. CASE HeightControl
  BY <1>3 DEF HeightControl, MomentsOppose, Quiet, Centred, LiftHolds, HeldLift
<1>4. CASE ControlLaw
  BY <1>4, ControlLawOpposes DEF ControlLaw
<1>5. CASE ThrottleGuard
  <2>1. /\ at = "guard" /\ at' = "mix" /\ lift' = lift
        /\ UNCHANGED <<fn, joy, gain, heightVars, sensor, pressure, steady>>
        /\ \/ roll' = 0 /\ pitch' = 0 /\ yaw' = 0
           \/ roll' = roll /\ pitch' = pitch /\ yaw' = yaw
    BY <1>5 DEF ThrottleGuard
  <2>2. Quiet' = Quiet  BY <2>1 DEF Quiet, Centred
  <2>3. MomentsOppose'  BY <2>1, <2>2 DEF MomentsOppose
  <2>4. LiftHolds'  BY <2>1 DEF LiftHolds, HeldLift
  <2> QED  BY <2>1, <2>3, <2>4
<1> QED  BY <1>1, <1>2, <1>3, <1>4, <1>5

\* Every step keeps what opposes the tilt and the drift.
LEMMA TiltStep == TypeOK /\ TiltInv /\ [Next]_vars => TiltInv'
<1> SUFFICES ASSUME TypeOK, TiltInv, [Next]_vars PROVE TiltInv'  OBVIOUS
<1>1. MomentsOppose /\ LiftHolds  BY DEF TiltInv
<1>2. CASE process_packet \/ process_drone \/ panic_mode \/ UNCHANGED vars
  <2>1. CASE steady' = FALSE
    BY <2>1 DEF TiltInv, MomentsOppose, LiftHolds, NegativeFeedback, HeightOpposesDrift, TrimTilts,
                Quiet, Settled
  <2>2. CASE UNCHANGED <<fn, at, pilotVars, heightVars, sensorVars, localVars, ae, steady>>
    <3> USE <2>2 DEF TiltInv, pilotVars, heightVars, sensorVars, localVars
    <3>1. MomentsOppose'  BY DEF MomentsOppose, Quiet, Centred
    <3>2. LiftHolds'  BY DEF LiftHolds, HeldLift
    <3>3. NegativeFeedback'  BY DEF NegativeFeedback, Settled, Centred, Untrimmed
    <3>4. HeightOpposesDrift'  BY DEF HeightOpposesDrift, Settled, Centred, Untrimmed
    <3>5. TrimTilts'  BY DEF TrimTilts, Settled, Centred, Faster
    <3> QED  BY <3>1, <3>2, <3>3, <3>4, <3>5
  <2> QED  BY <1>2, <2>1, <2>2, QuietFrame
<1>3. CASE read_sensor \/ ReadSticks \/ HeightControl \/ ControlLaw \/ ThrottleGuard
  <2>1. MomentsOppose' /\ LiftHolds' /\ ~Settled'
    BY <1>1, <1>3, PassOpposes DEF Settled
  <2> QED  BY <2>1 DEF TiltInv, NegativeFeedback, HeightOpposesDrift, TrimTilts
<1>4. CASE calculate_rotor_speeds
  <2>1. at' = "top"  BY <1>4 DEF calculate_rotor_speeds
  <2>2. MomentsOppose' /\ LiftHolds'  BY <2>1 DEF MomentsOppose, LiftHolds
  <2> QED  BY <1>1, <1>4, <2>2, MixOpposes, MixHolds, MixTilts DEF TiltInv
<1> QED  BY <1>2, <1>3, <1>4 DEF Next, Pass

\* So it always holds.
LEMMA TiltInductive == Spec => []TiltInv
<1>1. Init => TiltInv
  BY DEF Init, TiltInv, MomentsOppose, LiftHolds, NegativeFeedback, HeightOpposesDrift, TrimTilts,
         Quiet, Settled
<1> QED  BY <1>1, TiltStep, TypeCorrect, PTL DEF Spec

\* With centred sticks, no trims and no packet since main read the sticks, no flying loop ever
\* gives speeds that push a leaning or turning drone further, whatever the sensor readings, the
\* gains, the constants of the drone and the limits of the rotors.
THEOREM FeedbackOpposes == Spec => []NegativeFeedback
<1>1. TiltInv => NegativeFeedback  BY DEF TiltInv
<1> QED  BY <1>1, TiltInductive, PTL

\* Height control that is on never gives a drone that sank less than the hover speed, nor one
\* that rose more, whatever the pressures.
THEOREM HeightHolds == Spec => []HeightOpposesDrift
<1>1. TiltInv => HeightOpposesDrift  BY DEF TiltInv
<1> QED  BY <1>1, TiltInductive, PTL

\* A roll trim below the largest tilts the drone to its side and the largest to the other one,
\* for every throttle and every limit of the trims.
THEOREM TrimsTilt == Spec => []TrimTilts
<1>1. TiltInv => TrimTilts  BY DEF TiltInv
<1> QED  BY <1>1, TiltInductive, PTL

=============================================================================
