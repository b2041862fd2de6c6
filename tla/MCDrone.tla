------------------------------ MODULE MCDrone ------------------------------
(***************************************************************************)
(* Small instances of Drone for TLC.  The thresholds of the code are kept  *)
(* (throttle 5 and 10, cable flag 2); speeds and periods are scaled so     *)
(* that a descent takes a few steps and a telemetry period two ticks.      *)
(***************************************************************************)
EXTENDS Drone

\* Two rotors tell "all rotors" from "some rotor"; the liveness runs need only one.
MCRotors   == {1, 2}
MCOneRotor == {1}

=============================================================================
