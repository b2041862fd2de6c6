------------------------------- MODULE TxLine -------------------------------
(***************************************************************************)
(* What uart_put and the transmit interrupt promise: every byte put leaves *)
(* in its turn.  A byte may be replaced by a later one only while capacity *)
(* or more bytes wait behind it; only if limit bytes wait are they lost.   *)
(***************************************************************************)
EXTENDS Integers, Sequences

CONSTANTS Bytes, capacity, limit

VARIABLES
  waiting,    \* bytes put that have not left
  sent        \* bytes that have left

vars == <<waiting, sent>>

Init == waiting = <<>> /\ sent = <<>>

Put(byte) ==
  LET length == Len(waiting) + 1 IN
  /\ Len(waiting') = length /\ waiting'[length] = byte
  /\ \A i \in 1..Len(waiting) : i > length - capacity => waiting'[i] = waiting[i]
  /\ UNCHANGED sent

\* Every byte is lost but the one that is on its way out.
Overflow ==
  /\ Len(waiting) + 1 >= limit
  /\ waiting' \in {<<>>, <<Head(waiting)>>}
  /\ UNCHANGED sent

Leave ==
  /\ waiting # <<>>
  /\ sent' = Append(sent, Head(waiting))
  /\ waiting' = Tail(waiting)

Next == (\E byte \in Bytes : Put(byte)) \/ Overflow \/ Leave

Spec == Init /\ [][Next]_vars

\* Every byte leaves.
Settles == WF_vars(Leave)

=============================================================================
