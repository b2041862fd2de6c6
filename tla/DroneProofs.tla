---------------------------- MODULE DroneProofs ----------------------------
(***************************************************************************)
(* Proofs about Drone, for any set of rotors, any speeds that respect the  *)
(* clamps, any telemetry period and any packets.                           *)
(***************************************************************************)
EXTENDS Drone, TLAPS

USE DEF SAFE_MODE, PANIC_MODE, MANUAL_MODE, YAW_CONTROL_MODE, FULL_CONTROL_MODE,
        CALIBRATION_MODE, ABORT, NO_MODE

-----------------------------------------------------------------------------
(* Where main can be: each label belongs to few functions.                 *)

\* The functions each label occurs in: a position determines, or nearly, what main executes.
LEMMA Labels ==
  ASSUME PositionOK
  PROVE  /\ at \in {"boot", "reset"} => fn = "main"
         /\ at \in DispatchLabels => fn = "process_drone"
         /\ at \in {"loop", "ctl"} \cup BatteryLabels => fn \in FlightLoops \cup {"safe_mode"}
         /\ at \in {"cable", "cable_flag", "cable_change", "cable_mode", "mix", "write"}
              => fn \in FlightLoops
         /\ at \in {"enter", "abort", "low", "imu", "imu_done", "upload"} => fn = "safe_mode"
         /\ at = "tele" => fn \in FlightLoops \cup {"safe_mode", "panic_mode"}
         /\ at = "motors" => fn \in FlightLoops \cup {"panic_mode"}
         /\ at \in {"hover", "hover_motors", "descend"} => fn = "panic_mode"
         /\ at \in {"landed", "left"} => fn \in {"panic_mode", "calibration_mode"}
         /\ at = "samples" => fn = "calibration_mode"
BY DEF PositionOK, Positions, ModeOf, FlightLoops, DispatchLabels, BatteryLabels, SafeLabels,
       FlightLabels, PanicLabels, CalibrateLabels

\* What follows a step is a position of the function that took it.
LEMMA AfterPosition ==
  ASSUME PositionOK
  PROVE  /\ fn \in FlightLoops =>
              \A s \in {"ctl", "mix", "write", "battery", "motors", "tele"} :
                After(s) \in FlightLabels \ {"cable", "cable_flag", "cable_change", "cable_mode"}
         /\ fn = "safe_mode" =>
              \A s \in {"ctl", "abort", "battery", "low", "tele", "imu_done", "upload"} :
                After(s) \in SafeLabels
         /\ fn = "panic_mode" =>
              /\ After("hover") = "hover_motors"
              /\ After("hover_motors") = "descend"
              /\ After("motors") = "tele"
              /\ After("tele") = "descend"
BY DEF PositionOK, Positions, After, Orders, ManualOrder, SensorOrder, SafeOrder, PanicOrder,
       FlightLoops, BatteryLabels, FlightLabels, SafeLabels

-----------------------------------------------------------------------------
(* Type correctness.                                                       *)

LEMMA FunctionPositions ==
  /\ \A f \in FlightLoops : f \in DOMAIN Positions /\ Positions[f] = FlightLabels
  /\ "safe_mode" \in DOMAIN Positions /\ Positions["safe_mode"] = SafeLabels
  /\ "panic_mode" \in DOMAIN Positions /\ Positions["panic_mode"] = PanicLabels
  /\ "calibration_mode" \in DOMAIN Positions
  /\ Positions["calibration_mode"] = CalibrateLabels
  /\ "process_drone" \in DOMAIN Positions /\ Positions["process_drone"] = DispatchLabels
  /\ "main" \in DOMAIN Positions /\ Positions["main"] = {"boot", "reset"}
BY DEF Positions, FlightLoops

\* Steps of the handlers leave main where it is.
LEMMA HandlersLeaveMain == Uart \/ Timer => UNCHANGED mainVars
BY DEF Uart, Timer, ReceiveByte, SetModeType, SetJoyLift, LogCommand, ToggleRaw, Compare0,
       Compare1

LEMMA PositionNext ==
  ASSUME PositionOK, [Next]_vars
  PROVE  PositionOK'
<1> USE Labels, AfterPosition, FunctionPositions
    DEF PositionOK, Goto, Enter, Return, DispatchLabels, BatteryLabels, SafeLabels,
        FlightLabels, PanicLabels, CalibrateLabels, Flying
<1>1. CASE ResetDrone
  BY <1>1 DEF ResetDrone
<1>2. CASE SystemReset
  BY <1>2 DEF SystemReset
<1>3. CASE StopTest
  BY <1>3 DEF StopTest
<1>4. CASE ClearChange
  BY <1>4 DEF ClearChange
<1>5. CASE ThrottleGuard
  BY <1>5 DEF ThrottleGuard
<1>6. CASE ThrottleToSafe
  BY <1>6 DEF ThrottleToSafe
<1>7. CASE Switch
  BY <1>7 DEF Switch, FlightLoops
<1>8. CASE LoopTest
  BY <1>8 DEF LoopTest
<1>9. CASE ControlFlag
  BY <1>9 DEF ControlFlag
<1>10. CASE Battery
  BY <1>10 DEF Battery
<1>11. CASE BatteryMode
  BY <1>11 DEF BatteryMode
<1>12. CASE BatteryFlag
  BY <1>12 DEF BatteryFlag
<1>13. CASE Telemetry
  BY <1>13 DEF Telemetry
<1>14. CASE UpdateMotors
  BY <1>14 DEF UpdateMotors
<1>15. CASE BackToSafe
  BY <1>15 DEF BackToSafe
<1>16. CASE BackToSafeChange
  BY <1>16 DEF BackToSafeChange
<1>17. CASE CableTest
  BY <1>17 DEF CableTest
<1>18. CASE CableFlag
  BY <1>18 DEF CableFlag
<1>19. CASE CableChange
  BY <1>19 DEF CableChange
<1>20. CASE CableMode
  BY <1>20 DEF CableMode
<1>21. CASE Mix
  BY <1>21 DEF Mix
<1>22. CASE WriteSpeeds
  BY <1>22 DEF WriteSpeeds
<1>23. CASE SafeEnter
  BY <1>23 DEF SafeEnter
<1>24. CASE SafeAbort
  <2>1. abort_flag' \in BOOLEAN
    BY <1>24, Zenon DEF SafeAbort
  <2> QED
    BY <1>24, <2>1 DEF SafeAbort, StopIf
<1>25. CASE SafeBatteryLow
  BY <1>25 DEF SafeBatteryLow, StopIf
<1>26. CASE ImuInit
  BY <1>26 DEF ImuInit
<1>27. CASE ImuInitDone
  BY <1>27 DEF ImuInitDone
<1>28. CASE SafeUpload
  BY <1>28 DEF SafeUpload, StopIf
<1>29. CASE PanicHover
  BY <1>29 DEF PanicHover
<1>30. CASE PanicDescend
  BY <1>30 DEF PanicDescend, Descended
<1>31. CASE Calibrate
  BY <1>31 DEF Calibrate
<1>40. CASE Uart \/ Timer
  BY <1>40, HandlersLeaveMain DEF mainVars
<1>41. CASE UNCHANGED vars
  BY <1>41 DEF vars, mainVars
<1> QED
  BY <1>1, <1>2, <1>3, <1>4, <1>5, <1>6, <1>7, <1>8, <1>9, <1>10, <1>11, <1>12, <1>13,
     <1>14, <1>15, <1>16, <1>17, <1>18, <1>19, <1>20, <1>21, <1>22, <1>23, <1>24, <1>25,
     <1>26, <1>27, <1>28, <1>29, <1>30, <1>31, <1>40, <1>41
     DEF Next, Main

LEMMA ValuesNext ==
  ASSUME ValuesOK, [Next]_vars
  PROVE  ValuesOK'
<1> USE DEF ValuesOK, Modes, FlightModes, mainVars, modeVars, rotorVars, tickVars, cableVars,
            stopVars, imuVars
<1>1. CASE ResetDrone
  <2>1. batt_low_flag' \in BOOLEAN
    BY <1>1, Zenon DEF ResetDrone
  <2> QED
    BY <1>1, <2>1 DEF ResetDrone
<1>2. CASE SystemReset
  <2>1. /\ throttle_up' \in BOOLEAN /\ control_loop_flag' \in BOOLEAN
        /\ control_loop_flag_raw' \in BOOLEAN /\ telemetry_flag' \in BOOLEAN
        /\ batt_low_flag' \in BOOLEAN /\ abort_flag' \in BOOLEAN
        /\ log_upload_flag' \in BOOLEAN /\ raw_mode_flag' \in BOOLEAN
        /\ imu_init_flag' \in BOOLEAN /\ imu_dmp' \in BOOLEAN
    BY <1>2, Zenon DEF SystemReset
  <2>2. [r \in Rotors |-> 0] \in [Rotors -> 0..MAX_RPM]
    BY SpeedAssumption
  <2> QED
    BY <1>2, <2>1, <2>2, TickAssumption DEF SystemReset
<1>3. CASE StopTest
  BY <1>3 DEF StopTest
<1>4. CASE ClearChange
  BY <1>4 DEF ClearChange
<1>5. CASE ThrottleGuard
  BY <1>5 DEF ThrottleGuard
<1>6. CASE ThrottleToSafe
  BY <1>6 DEF ThrottleToSafe
<1>7. CASE Switch
  BY <1>7 DEF Switch
<1>8. CASE LoopTest
  BY <1>8 DEF LoopTest
<1>9. CASE ControlFlag
  BY <1>9 DEF ControlFlag
<1>10. CASE Battery
  BY <1>10 DEF Battery
<1>11. CASE BatteryMode
  BY <1>11 DEF BatteryMode
<1>12. CASE BatteryFlag
  BY <1>12 DEF BatteryFlag
<1>13. CASE Telemetry
  BY <1>13 DEF Telemetry
<1>14. CASE UpdateMotors
  BY <1>14 DEF UpdateMotors
<1>15. CASE BackToSafe
  BY <1>15 DEF BackToSafe
<1>16. CASE BackToSafeChange
  BY <1>16 DEF BackToSafeChange
<1>17. CASE CableTest
  BY <1>17 DEF CableTest
<1>18. CASE CableFlag
  BY <1>18 DEF CableFlag
<1>19. CASE CableChange
  BY <1>19 DEF CableChange
<1>20. CASE CableMode
  BY <1>20 DEF CableMode
<1>21. CASE Mix
  BY <1>21 DEF Mix
<1>22. CASE WriteSpeeds
  <2>1. Speeds \subseteq 0..MAX_RPM /\ 0 \in 0..MAX_RPM
    BY SpeedAssumption
  <2>2. [r \in Rotors |-> 0] \in [Rotors -> 0..MAX_RPM]
    BY <2>1
  <2>3. ae' \in [Rotors -> 0..MAX_RPM] /\ throttle_up' \in BOOLEAN
    BY <1>22, <2>1, <2>2, Zenon DEF WriteSpeeds
  <2> QED
    BY <1>22, <2>3 DEF WriteSpeeds
<1>23. CASE SafeEnter
  BY <1>23 DEF SafeEnter
<1>24. CASE SafeAbort
  <2>1. abort_flag' \in BOOLEAN
    BY <1>24, Zenon DEF SafeAbort
  <2> QED
    BY <1>24, <2>1 DEF SafeAbort, StopIf
<1>25. CASE SafeBatteryLow
  BY <1>25 DEF SafeBatteryLow, StopIf
<1>26. CASE ImuInit
  <2>1. imu_dmp' \in BOOLEAN
    BY <1>26, Zenon DEF ImuInit
  <2> QED
    BY <1>26, <2>1 DEF ImuInit
<1>27. CASE ImuInitDone
  BY <1>27 DEF ImuInitDone
<1>28. CASE SafeUpload
  BY <1>28 DEF SafeUpload, StopIf
<1>29. CASE PanicHover
  BY <1>29, SpeedAssumption DEF PanicHover
<1>30. CASE PanicDescend
  <2>1. \A speed \in 0..MAX_RPM : StepDown(speed) \in 0..MAX_RPM
    BY SpeedAssumption DEF StepDown
  <2>2. ae' \in [Rotors -> 0..MAX_RPM]
    BY <1>30, <2>1 DEF PanicDescend
  <2> QED
    BY <1>30, <2>2 DEF PanicDescend
<1>31. CASE Calibrate
  BY <1>31 DEF Calibrate
<1>40. CASE ReceiveByte
  BY <1>40 DEF ReceiveByte, Heard
<1>41. ASSUME NEW value \in ModeValues, SetModeType(value) PROVE ValuesOK'
  BY <1>41, PacketAssumption DEF SetModeType, NewMode, Heard
<1>42. ASSUME NEW value \in Lifts, SetJoyLift(value) PROVE ValuesOK'
  BY <1>42, PacketAssumption DEF SetJoyLift, Heard
<1>43. ASSUME NEW value \in LogValues, LogCommand(value) PROVE ValuesOK'
  BY <1>43 DEF LogCommand, Heard
<1>44. CASE ToggleRaw
  <2>1. raw_mode_flag' \in BOOLEAN /\ imu_init_flag' \in BOOLEAN
    BY <1>44, Zenon DEF ToggleRaw
  <2> QED
    BY <1>44, <2>1 DEF ToggleRaw, Heard
<1>45. CASE Compare0
  BY <1>45, TickAssumption DEF Compare0, CableTick
<1>46. CASE Compare1
  BY <1>46 DEF Compare1
<1>47. CASE UNCHANGED vars
  BY <1>47 DEF vars
<1> QED
  BY <1>1, <1>2, <1>3, <1>4, <1>5, <1>6, <1>7, <1>8, <1>9, <1>10, <1>11, <1>12, <1>13,
     <1>14, <1>15, <1>16, <1>17, <1>18, <1>19, <1>20, <1>21, <1>22, <1>23, <1>24, <1>25,
     <1>26, <1>27, <1>28, <1>29, <1>30, <1>31, <1>40, <1>41, <1>42, <1>43, <1>44, <1>45,
     <1>46, <1>47
     DEF Next, Main, Uart, Timer

LEMMA TypeInit == Init => TypeOK
<1> SUFFICES ASSUME Init PROVE TypeOK
  OBVIOUS
<1>1. /\ throttle_up \in BOOLEAN /\ control_loop_flag \in BOOLEAN
      /\ control_loop_flag_raw \in BOOLEAN /\ telemetry_flag \in BOOLEAN
      /\ batt_low_flag \in BOOLEAN /\ abort_flag \in BOOLEAN
      /\ log_upload_flag \in BOOLEAN /\ raw_mode_flag \in BOOLEAN
      /\ imu_init_flag \in BOOLEAN /\ imu_dmp \in BOOLEAN
  BY Zenon DEF Init
<1>2. [r \in Rotors |-> 0] \in [Rotors -> 0..MAX_RPM]
  BY SpeedAssumption
<1>3. ValuesOK
  BY <1>1, <1>2, TickAssumption DEF Init, ValuesOK
<1>4. PositionOK
  BY FunctionPositions DEF Init, PositionOK
<1> QED
  BY <1>3, <1>4 DEF TypeOK

\* Type correctness of the flight core.
THEOREM TypeCorrect == Spec => []TypeOK
<1>1. Init => TypeOK
  BY TypeInit
<1>2. TypeOK /\ [Next]_vars => TypeOK'
  BY PositionNext, ValuesNext DEF TypeOK
<1> QED
  BY <1>1, <1>2, PTL DEF Spec

-----------------------------------------------------------------------------
(* Safety.                                                                 *)

Ordered == Booted /\ ModeCoherence /\ PanicHeld /\ MotorsFollow /\ CableBehind

LEMMA OrderedMain ==
  ASSUME TypeOK, Ordered, Main
  PROVE  Ordered'
<1> USE Labels, AfterPosition
    DEF Ordered, Booted, TypeOK, PositionOK, ValuesOK, Goto, Enter, Return, DispatchLabels,
        BatteryLabels, SafeLabels, FlightLabels, Flying, FlightLoops, FlightModes, Modes,
        ModeCoherence, PanicHeld, MotorsFollow, CableBehind, AllStill, ModeOf,
        modeVars, rotorVars, cableVars
<1>1. CASE ResetDrone
  BY <1>1 DEF ResetDrone
<1>2. CASE SystemReset
  BY <1>2 DEF SystemReset
<1>3. CASE StopTest
  BY <1>3 DEF StopTest
<1>4. CASE ClearChange
  BY <1>4 DEF ClearChange
<1>5. CASE ThrottleGuard
  BY <1>5 DEF ThrottleGuard
<1>6. CASE ThrottleToSafe
  BY <1>6 DEF ThrottleToSafe
<1>7. CASE Switch
  <2>1. UNCHANGED <<current_mode, change_mode, ae, cc, cable_disconnect_flag, quiet>>
    BY <1>7 DEF Switch
  <2>2. fn = "process_drone"
    BY <1>7 DEF Switch
  <2>3. ModeCoherence'
    BY <1>7, <2>1 DEF Switch
  <2>4. PanicHeld'
    BY <1>7, <2>1 DEF Switch
  <2>5. MotorsFollow'
    BY <1>7, <2>1 DEF Switch
  <2>6. CableBehind'
    BY <1>7, <2>1, <2>2 DEF Switch
  <2>7. Booted'
    BY <1>7, <2>1, <2>2 DEF Switch
  <2> QED
    BY <2>3, <2>4, <2>5, <2>6, <2>7
<1>8. CASE LoopTest
  BY <1>8 DEF LoopTest
<1>9. CASE ControlFlag
  BY <1>9 DEF ControlFlag
<1>10. CASE Battery
  BY <1>10 DEF Battery
<1>11. CASE BatteryMode
  BY <1>11 DEF BatteryMode
<1>12. CASE BatteryFlag
  BY <1>12 DEF BatteryFlag
<1>13. CASE Telemetry
  BY <1>13 DEF Telemetry
<1>14. CASE UpdateMotors
  BY <1>14 DEF UpdateMotors
<1>15. CASE BackToSafe
  BY <1>15 DEF BackToSafe
<1>16. CASE BackToSafeChange
  BY <1>16 DEF BackToSafeChange
<1>17. CASE CableTest
  BY <1>17 DEF CableTest
<1>18. CASE CableFlag
  BY <1>18 DEF CableFlag
<1>19. CASE CableChange
  BY <1>19 DEF CableChange
<1>20. CASE CableMode
  BY <1>20 DEF CableMode
<1>21. CASE Mix
  BY <1>21 DEF Mix
<1>22. CASE WriteSpeeds
  BY <1>22 DEF WriteSpeeds
<1>23. CASE SafeEnter
  BY <1>23 DEF SafeEnter
<1>24. CASE SafeAbort
  BY <1>24 DEF SafeAbort, StopIf, stopVars
<1>25. CASE SafeBatteryLow
  BY <1>25 DEF SafeBatteryLow, StopIf, stopVars
<1>26. CASE ImuInit
  BY <1>26 DEF ImuInit
<1>27. CASE ImuInitDone
  BY <1>27 DEF ImuInitDone
<1>28. CASE SafeUpload
  BY <1>28 DEF SafeUpload, StopIf, stopVars
<1>29. CASE PanicHover
  BY <1>29 DEF PanicHover
<1>30. CASE PanicDescend
  BY <1>30 DEF PanicDescend, Descended
<1>31. CASE Calibrate
  BY <1>31 DEF Calibrate
<1> QED
  BY <1>1, <1>2, <1>3, <1>4, <1>5, <1>6, <1>7, <1>8, <1>9, <1>10, <1>11, <1>12, <1>13,
     <1>14, <1>15, <1>16, <1>17, <1>18, <1>19, <1>20, <1>21, <1>22, <1>23, <1>24, <1>25,
     <1>26, <1>27, <1>28, <1>29, <1>30, <1>31
     DEF Main

LEMMA OrderedHandlers ==
  ASSUME TypeOK, Ordered, Uart \/ Timer
  PROVE  Ordered'
<1> USE DEF Ordered, Booted, TypeOK, ValuesOK, Flying, FlightModes, ModeCoherence, PanicHeld,
            MotorsFollow, CableBehind, AllStill, mainVars, modeVars, rotorVars, cableVars
<1>1. CASE ReceiveByte
  BY <1>1 DEF ReceiveByte, Heard
<1>2. ASSUME NEW value \in ModeValues, SetModeType(value) PROVE Ordered'
  BY <1>2, PacketAssumption DEF SetModeType, NewMode, Heard, Accepts, Modes
<1>3. ASSUME NEW value \in Lifts, SetJoyLift(value) PROVE Ordered'
  BY <1>3 DEF SetJoyLift, Heard
<1>4. ASSUME NEW value \in LogValues, LogCommand(value) PROVE Ordered'
  BY <1>4 DEF LogCommand, Heard
<1>5. CASE ToggleRaw
  BY <1>5 DEF ToggleRaw, Heard
<1>6. CASE Compare0
  BY <1>6 DEF Compare0, CableTick
<1>7. CASE Compare1
  BY <1>7 DEF Compare1
<1> QED
  BY <1>1, <1>2, <1>3, <1>4, <1>5, <1>6, <1>7 DEF Uart, Timer

LEMMA InitSafe == Init => SafetyInv
BY TypeInit
   DEF Init, SafetyInv, Booted, ModeCoherence, PanicHeld, MotorsFollow, CableBehind, Flying,
       FlightLoops, FlightModes

LEMMA SafetyNext == SafetyInv /\ [Next]_vars => SafetyInv'
<1> SUFFICES ASSUME SafetyInv, [Next]_vars PROVE SafetyInv'
  OBVIOUS
<1>1. TypeOK'
  BY PositionNext, ValuesNext DEF SafetyInv, TypeOK
<1>2. Ordered'
  <2>1. CASE Main
    BY <2>1, OrderedMain DEF SafetyInv, Ordered
  <2>2. CASE Uart \/ Timer
    BY <2>2, OrderedHandlers DEF SafetyInv, Ordered
  <2>3. CASE UNCHANGED vars
    BY <2>3 DEF vars, mainVars, modeVars, rotorVars, cableVars, SafetyInv, Ordered, Booted,
                ModeCoherence, PanicHeld, MotorsFollow, CableBehind, Flying, AllStill
  <2> QED
    BY <2>1, <2>2, <2>3 DEF Next
<1> QED
  BY <1>1, <1>2 DEF SafetyInv, Ordered

\* The inductive invariant.
THEOREM Safe == Spec => []SafetyInv
BY InitSafe, SafetyNext, PTL DEF Spec

\* No accepted mode change is lost on a safe or flying loop.
THEOREM CoherentModes == Spec => []ModeCoherence
<1>1. SafetyInv => ModeCoherence
  BY DEF SafetyInv
<1> QED
  BY Safe, <1>1, PTL

\* No packet revokes a panic that is being served.
THEOREM PanicIsHeld == Spec => []PanicHeld
<1>1. SafetyInv => PanicHeld
  BY DEF SafetyInv
<1> QED
  BY Safe, <1>1, PTL

\* Panic hands over to safe mode only with every set point and every motor at 0.
THEOREM PanicHasLanded == Spec => []PanicLands
<1>1. SafetyInv => PanicLands
  BY DEF SafetyInv, MotorsFollow, PanicLands, AllStill
<1> QED
  BY Safe, <1>1, PTL

\* A flying loop takes the line for dead only after two silent telemetry ticks.
THEOREM WatchdogIsSound == Spec => []WatchdogSound
<1>1. SafetyInv => WatchdogSound
  BY DEF SafetyInv, CableBehind, WatchdogSound, TypeOK, ValuesOK
<1> QED
  BY Safe, <1>1, PTL

-----------------------------------------------------------------------------
(* A low battery.                                                          *)

\* Only the test of the voltage leads to the write of the flag.
LEMMA AfterBattery ==
  ASSUME PositionOK
  PROVE  /\ fn \in FlightLoops =>
              \A s \in {"ctl", "mix", "write", "battery", "motors", "tele"} :
                After(s) # "batt_flag"
         /\ fn = "safe_mode" =>
              \A s \in {"ctl", "abort", "battery", "low", "tele", "imu_done", "upload"} :
                After(s) # "batt_flag"
BY DEF PositionOK, Positions, After, Orders, ManualOrder, SensorOrder, SafeOrder, PanicOrder,
       FlightLoops

LEMMA BatteryMain ==
  ASSUME SafetyInv, LowBatteryHeld, Main
  PROVE  LowBatteryHeld'
<1> USE Labels, AfterPosition, AfterBattery
    DEF SafetyInv, TypeOK, PositionOK, LowBatteryHeld, Grounded, Goto, Enter, Return,
        DispatchLabels, BatteryLabels, SafeLabels, FlightLabels, Flying, FlightLoops, modeVars,
        rotorVars, stopVars
<1>1. CASE ResetDrone
  BY <1>1 DEF ResetDrone
<1>2. CASE SystemReset
  BY <1>2 DEF SystemReset
<1>3. CASE StopTest
  BY <1>3 DEF StopTest
<1>4. CASE ClearChange
  BY <1>4 DEF ClearChange
<1>5. CASE ThrottleGuard
  BY <1>5 DEF ThrottleGuard
<1>6. CASE ThrottleToSafe
  BY <1>6 DEF ThrottleToSafe
<1>7. CASE Switch
  BY <1>7 DEF Switch
<1>8. CASE LoopTest
  BY <1>8 DEF LoopTest
<1>9. CASE ControlFlag
  BY <1>9 DEF ControlFlag
<1>10. CASE Battery
  BY <1>10 DEF Battery
<1>11. CASE BatteryMode
  BY <1>11 DEF BatteryMode
<1>12. CASE BatteryFlag
  BY <1>12 DEF BatteryFlag
<1>13. CASE Telemetry
  BY <1>13 DEF Telemetry
<1>14. CASE UpdateMotors
  BY <1>14 DEF UpdateMotors, PanicHeld
<1>15. CASE BackToSafe
  BY <1>15 DEF BackToSafe, MotorsFollow, AllStill
<1>16. CASE BackToSafeChange
  BY <1>16 DEF BackToSafeChange
<1>17. CASE CableTest
  BY <1>17 DEF CableTest
<1>18. CASE CableFlag
  BY <1>18 DEF CableFlag
<1>19. CASE CableChange
  BY <1>19 DEF CableChange
<1>20. CASE CableMode
  BY <1>20 DEF CableMode
<1>21. CASE Mix
  BY <1>21 DEF Mix
<1>22. CASE WriteSpeeds
  BY <1>22 DEF WriteSpeeds
<1>23. CASE SafeEnter
  BY <1>23 DEF SafeEnter
<1>24. CASE SafeAbort
  BY <1>24 DEF SafeAbort, StopIf
<1>25. CASE SafeBatteryLow
  BY <1>25 DEF SafeBatteryLow, StopIf
<1>26. CASE ImuInit
  BY <1>26 DEF ImuInit
<1>27. CASE ImuInitDone
  BY <1>27 DEF ImuInitDone
<1>28. CASE SafeUpload
  BY <1>28 DEF SafeUpload, StopIf
<1>29. CASE PanicHover
  BY <1>29 DEF PanicHover, PanicHeld
<1>30. CASE PanicDescend
  BY <1>30 DEF PanicDescend, PanicHeld
<1>31. CASE Calibrate
  BY <1>31 DEF Calibrate
<1> QED
  BY <1>1, <1>2, <1>3, <1>4, <1>5, <1>6, <1>7, <1>8, <1>9, <1>10, <1>11, <1>12, <1>13,
     <1>14, <1>15, <1>16, <1>17, <1>18, <1>19, <1>20, <1>21, <1>22, <1>23, <1>24, <1>25,
     <1>26, <1>27, <1>28, <1>29, <1>30, <1>31
     DEF Main

LEMMA BatteryHandlers ==
  ASSUME LowBatteryHeld, Uart \/ Timer
  PROVE  LowBatteryHeld'
<1> USE DEF LowBatteryHeld, Grounded, Flying, mainVars, modeVars, rotorVars, stopVars
<1>1. CASE ReceiveByte
  BY <1>1 DEF ReceiveByte
<1>2. ASSUME NEW value \in ModeValues, SetModeType(value) PROVE LowBatteryHeld'
  BY <1>2 DEF SetModeType, Accepts
<1>3. ASSUME NEW value \in Lifts, SetJoyLift(value) PROVE LowBatteryHeld'
  BY <1>3 DEF SetJoyLift
<1>4. ASSUME NEW value \in LogValues, LogCommand(value) PROVE LowBatteryHeld'
  BY <1>4 DEF LogCommand
<1>5. CASE ToggleRaw
  BY <1>5 DEF ToggleRaw
<1>6. CASE Compare0
  BY <1>6 DEF Compare0
<1>7. CASE Compare1
  BY <1>7 DEF Compare1
<1> QED
  BY <1>1, <1>2, <1>3, <1>4, <1>5, <1>6, <1>7 DEF Uart, Timer

\* With the battery found low no flying mode is in force, unless the drone is on the ground.
THEOREM LowBatteryIsGrounded == Spec => []LowBatteryGrounded
<1>1. Init => LowBatteryHeld
  BY DEF Init, LowBatteryHeld
<1>2. SafetyInv /\ LowBatteryHeld /\ [Next]_vars => LowBatteryHeld'
  <2> SUFFICES ASSUME SafetyInv, LowBatteryHeld, [Next]_vars PROVE LowBatteryHeld'
    OBVIOUS
  <2>1. CASE UNCHANGED vars
    BY <2>1 DEF vars, mainVars, modeVars, rotorVars, stopVars, LowBatteryHeld, Grounded, Flying
  <2> QED
    BY <2>1, BatteryMain, BatteryHandlers DEF Next
<1>3. LowBatteryHeld => LowBatteryGrounded
  BY DEF LowBatteryHeld, LowBatteryGrounded, Grounded, FlightModes
<1> QED
  BY Safe, <1>1, <1>2, <1>3, PTL DEF Spec

-----------------------------------------------------------------------------
(* Refinement.                                                             *)

LEMMA InitRefines == Init => Abstract!Init
BY RotorsAssumption DEF Init, Abstract!Init, AbstractMode, Served, AllStill

LEMMA MainRefines ==
  ASSUME SafetyInv, SafetyInv', Main
  PROVE  [Abstract!Next]_Abstract!vars
<1> USE Labels
    DEF SafetyInv, TypeOK, PositionOK, ValuesOK, Goto, Enter, Return, DispatchLabels,
        BatteryLabels, Flying, FlightLoops, FlightModes, Modes, AllStill, ModeOf, Booted,
        PanicHeld, modeVars, rotorVars, AbstractMode, Served,
        Abstract!vars, Abstract!Next
<1>1. CASE ResetDrone
  BY <1>1 DEF ResetDrone, Abstract!Drop, Abstract!Disarm
<1>2. CASE SystemReset
  BY <1>2 DEF SystemReset, Abstract!Restart
<1>3. CASE StopTest
  BY <1>3 DEF StopTest
<1>4. CASE ClearChange
  BY <1>4 DEF ClearChange
<1>5. CASE ThrottleGuard
  BY <1>5 DEF ThrottleGuard
<1>6. CASE ThrottleToSafe
  BY <1>6 DEF ThrottleToSafe, Abstract!Drop, Abstract!Disarm
<1>7. CASE Switch
  BY <1>7 DEF Switch, Abstract!Serve
<1>8. CASE LoopTest
  BY <1>8 DEF LoopTest, Abstract!Leave
<1>9. CASE ControlFlag
  BY <1>9 DEF ControlFlag
<1>10. CASE Battery
  BY <1>10 DEF Battery
<1>11. CASE BatteryMode
  BY <1>11 DEF BatteryMode, Abstract!Panic
<1>12. CASE BatteryFlag
  BY <1>12 DEF BatteryFlag
<1>13. CASE Telemetry
  BY <1>13, AfterPosition DEF Telemetry
<1>14. CASE UpdateMotors
  BY <1>14, AfterPosition DEF UpdateMotors
<1>15. CASE BackToSafe
  BY <1>15 DEF BackToSafe, MotorsFollow, Abstract!Land, Abstract!Disarm, Abstract!Drop
<1>16. CASE BackToSafeChange
  BY <1>16 DEF BackToSafeChange, Abstract!Leave
<1>17. CASE CableTest
  BY <1>17 DEF CableTest
<1>18. CASE CableFlag
  BY <1>18 DEF CableFlag
<1>19. CASE CableChange
  BY <1>19 DEF CableChange
<1>20. CASE CableMode
  BY <1>20 DEF CableMode, Abstract!Panic, Abstract!Leave
<1>21. CASE Mix
  BY <1>21 DEF Mix
<1>22. CASE WriteSpeeds
  BY <1>22 DEF WriteSpeeds, Abstract!Fly
<1>23. CASE SafeEnter
  BY <1>23 DEF SafeEnter
<1>24. CASE SafeAbort
  BY <1>24 DEF SafeAbort, StopIf, stopVars, Abstract!Leave
<1>25. CASE SafeBatteryLow
  BY <1>25 DEF SafeBatteryLow, StopIf, stopVars, Abstract!Leave
<1>26. CASE ImuInit
  BY <1>26 DEF ImuInit
<1>27. CASE ImuInitDone
  BY <1>27 DEF ImuInitDone
<1>28. CASE SafeUpload
  BY <1>28 DEF SafeUpload, StopIf, stopVars, Abstract!Leave
<1>29. CASE PanicHover
  BY <1>29, SpeedAssumption, AfterPosition DEF PanicHover
<1>30. CASE PanicDescend
  BY <1>30 DEF PanicDescend, Descended, Abstract!Settle
<1>31. CASE Calibrate
  BY <1>31 DEF Calibrate
<1> QED
  BY <1>1, <1>2, <1>3, <1>4, <1>5, <1>6, <1>7, <1>8, <1>9, <1>10, <1>11, <1>12, <1>13,
     <1>14, <1>15, <1>16, <1>17, <1>18, <1>19, <1>20, <1>21, <1>22, <1>23, <1>24, <1>25,
     <1>26, <1>27, <1>28, <1>29, <1>30, <1>31
     DEF Main

LEMMA HandlersRefine ==
  ASSUME SafetyInv, Uart \/ Timer
  PROVE  [Abstract!Next]_Abstract!vars
<1> USE DEF SafetyInv, TypeOK, PositionOK, ValuesOK, Modes, FlightModes, PanicHeld, AllStill,
            Positions, ModeOf, mainVars, modeVars, rotorVars, AbstractMode, Served,
            Abstract!vars, Abstract!Next
<1>1. CASE ReceiveByte
  BY <1>1 DEF ReceiveByte
<1>2. ASSUME NEW value \in ModeValues, SetModeType(value)
      PROVE  [Abstract!Next]_Abstract!vars
  BY <1>2, PacketAssumption DEF SetModeType, NewMode, ModeAllowed, Accepts, Abstract!Choose, Abstract!Disarm,
     Abstract!Panic
<1>3. ASSUME NEW value \in Lifts, SetJoyLift(value) PROVE [Abstract!Next]_Abstract!vars
  BY <1>3 DEF SetJoyLift
<1>4. ASSUME NEW value \in LogValues, LogCommand(value) PROVE [Abstract!Next]_Abstract!vars
  BY <1>4 DEF LogCommand
<1>5. CASE ToggleRaw
  BY <1>5 DEF ToggleRaw
<1>6. CASE Compare0
  BY <1>6 DEF Compare0
<1>7. CASE Compare1
  BY <1>7 DEF Compare1
<1> QED
  BY <1>1, <1>2, <1>3, <1>4, <1>5, <1>6, <1>7 DEF Uart, Timer

\* The flight core implements the mode protocol: every step is a step of FlightModes or
\* changes nothing it sees.
THEOREM Refinement == Spec => ImplementsFlightModes
<1>1. SafetyInv /\ SafetyInv' /\ [Next]_vars => [Abstract!Next]_Abstract!vars
  <2> SUFFICES ASSUME SafetyInv, SafetyInv', [Next]_vars
               PROVE  [Abstract!Next]_Abstract!vars
    OBVIOUS
  <2>1. CASE UNCHANGED vars
    BY <2>1 DEF vars, mainVars, modeVars, rotorVars, Abstract!vars, AbstractMode, Served,
                AllStill
  <2> QED
    BY <2>1, MainRefines, HandlersRefine DEF Next
<1> QED
  BY InitRefines, Safe, <1>1, PTL DEF Spec, ImplementsFlightModes, Abstract!Spec

=============================================================================
