---------------------------- MODULE FlightModes ----------------------------
(***************************************************************************)
(* What the flight core promises about its modes, without interrupts,      *)
(* flags or program positions.  Three actors touch the mode: the pilot     *)
(* (packets), the drone's own emergencies (cable, battery) and the end of  *)
(* a mode function.                                                        *)
(*                                                                         *)
(* - A flying mode is only ever chosen from SAFE_MODE: the drone never     *)
(*   goes from one flying mode to another.                                 *)
(* - Rotors that stand still start only while a flying mode is served.     *)
(* - Once panic is being served nothing revokes it: it ends in SAFE_MODE,  *)
(*   and only when every rotor has stopped.                                *)
(***************************************************************************)
CONSTANTS SAFE_MODE, PANIC_MODE, CALIBRATION_MODE, FlightModes

VARIABLES
  mode,      \* the mode in force
  serving,   \* the mode the program is executing, "none" between two, or "landed"
             \* while panic is being left
  powered    \* whether some rotor has a non-zero set point

vars == <<mode, serving, powered>>

Modes == FlightModes \cup {SAFE_MODE, PANIC_MODE, CALIBRATION_MODE}

TypeOK ==
  /\ mode \in Modes
  /\ serving \in Modes \cup {"none", "landed"}
  /\ powered \in BOOLEAN

Init == mode = SAFE_MODE /\ serving = "none" /\ powered = FALSE

\* The pilot leaves SAFE_MODE.
Choose(m) ==
  /\ mode = SAFE_MODE /\ serving # PANIC_MODE
  /\ m \in FlightModes \cup {CALIBRATION_MODE}
  /\ mode' = m
  /\ UNCHANGED <<serving, powered>>

\* The pilot goes back to SAFE_MODE.
Disarm ==
  /\ mode \notin {SAFE_MODE, PANIC_MODE} /\ serving # PANIC_MODE
  /\ mode' = SAFE_MODE
  /\ UNCHANGED <<serving, powered>>

\* The pilot, the cable check or the battery check calls for panic; a flying mode whose
\* own cable check failed is left at once.
Panic ==
  /\ mode # PANIC_MODE /\ serving # PANIC_MODE
  /\ mode' = PANIC_MODE
  /\ \/ UNCHANGED serving
     \/ serving \in FlightModes /\ serving' = "none"
  /\ UNCHANGED powered

\* A call for panic that is not being served yet is dropped by the throttle guard, by the
\* end of a calibration or by a start-up that was not finished.
Drop ==
  /\ mode = PANIC_MODE /\ serving \in {"none", CALIBRATION_MODE}
  /\ mode' = SAFE_MODE
  /\ UNCHANGED <<serving, powered>>

Serve == serving = "none" /\ serving' = mode /\ UNCHANGED <<mode, powered>>

\* A mode function returns because the mode has changed or the drone is to stop.
Leave ==
  /\ serving \notin {"none", PANIC_MODE}
  /\ serving' = "none"
  /\ UNCHANGED <<mode, powered>>

\* The set points follow the control law in flight.
Fly == serving \in FlightModes /\ powered' \in BOOLEAN /\ UNCHANGED <<mode, serving>>

\* Panic brings the rotors to a stop, and only then ends: first in the mode, then in the
\* program, so the pilot may choose a mode in between.
Settle ==
  /\ serving = PANIC_MODE /\ mode = PANIC_MODE
  /\ powered' = FALSE
  /\ UNCHANGED <<mode, serving>>

Land ==
  /\ serving = PANIC_MODE /\ mode = PANIC_MODE /\ ~powered
  /\ mode' = SAFE_MODE
  /\ serving' = "landed"
  /\ UNCHANGED powered

Restart == serving = "none" /\ mode' = SAFE_MODE /\ powered' = FALSE /\ UNCHANGED serving

Next ==
  \/ \E m \in FlightModes \cup {CALIBRATION_MODE} : Choose(m)
  \/ Disarm \/ Panic \/ Drop \/ Serve \/ Leave \/ Fly \/ Settle \/ Land \/ Restart

Spec == Init /\ [][Next]_vars

=============================================================================
