----------------------------- MODULE LossyFifo -----------------------------
(***************************************************************************)
(* What the PC's send queue, the serial line and the drone's receiver      *)
(* promise together: packets are executed in the order in which the PC     *)
(* queued them, each at most once, and nothing else is executed.  A packet *)
(* may be lost; if packets keep being settled, none waits for ever.        *)
(***************************************************************************)
EXTENDS Naturals, Sequences

CONSTANTS Packets, capacity

VARIABLES
  pending,    \* packets queued, neither executed nor lost yet
  executed    \* packets the drone has executed

vars == <<pending, executed>>

Init == pending = <<>> /\ executed = <<>>

Offer(packet) ==
  /\ Len(pending) < capacity
  /\ pending' = Append(pending, packet)
  /\ UNCHANGED executed

Deliver ==
  /\ pending # <<>>
  /\ executed' = Append(executed, Head(pending))
  /\ pending' = Tail(pending)

Lose ==
  /\ pending # <<>>
  /\ pending' = Tail(pending)
  /\ UNCHANGED executed

Next == (\E packet \in Packets : Offer(packet)) \/ Deliver \/ Lose

Spec == Init /\ [][Next]_vars

\* Whatever is pending is settled.
Settles == WF_vars(Deliver \/ Lose)

=============================================================================
