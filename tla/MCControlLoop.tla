--------------------------- MODULE MCControlLoop ---------------------------
(***************************************************************************)
(* ControlLoop with the program's constants, four trim values, three       *)
(* positions of the throttle (down, below and above the middle) and a      *)
(* drone that leans and turns to either side.                              *)
(***************************************************************************)
EXTENDS ControlLoop

MCLifts     == {127, 87, -73}
MCTilts     == {100}
MCPressures == {100000, 100020}
MCMIN_TRIM  == -1

\* Leaning and turning to the right with the nose up, and the other way.
Right == [phi |-> 1000, theta |-> 1000, sp |-> 600, sq |-> -600, sr |-> 600]
Left  == [phi |-> -1000, theta |-> -1000, sp |-> -600, sq |-> 600, sr |-> -600]
MCSamples == {Right, Left}

=============================================================================
