---------------------------- MODULE NoisyPacket ----------------------------
(***************************************************************************)
(* A packet on a line that inverts bits: the PC sends it with the check of *)
(* crc.c, the drone checks it again.                                       *)
(***************************************************************************)
EXTENDS Crc

CONSTANTS
  Commands, Values,   \* the commands and values sent, as numbers
  MaxFlips            \* the most bits inverted in one packet

ASSUME PacketAssumption == Commands \subseteq 0..255 /\ Values \subseteq 0..255

VARIABLES
  sent, received,     \* the packet, as sent and as the line has made it
  flips               \* the bits inverted so far: pairs of field and bit

vars == <<sent, received, flips>>

Fields == {"command", "value", "crc"}

Init ==
  /\ \E command \in Commands, value \in Values :
       LET c == ByteOf[command]  v == ByteOf[value] IN
       sent = [command |-> c, value |-> v, crc |-> compute_crc(c, v)]
  /\ received = sent
  /\ flips = {}

Flip(field, bit) ==
  /\ Cardinality(flips) < MaxFlips
  /\ <<field, bit>> \notin flips
  /\ flips' = flips \cup {<<field, bit>>}
  /\ received' = [received EXCEPT ![field] = Xor(@, {bit})]
  /\ UNCHANGED sent

Next == \E field \in Fields, bit \in Bits : Flip(field, bit)

Spec == Init /\ [][Next]_vars

-----------------------------------------------------------------------------
\* The loop of compute_crc computes the polynomial remainder in the upper half of its
\* register, for the command and for the value, and leaves the lower half empty.
LoopDivides ==
  \A byte \in {received.command, received.value} :
    Remainder[byte] = {d + 4 : d \in RemainderOf(byte)}

\* The inverted bits that the check of one data byte can see: those of the byte itself and
\* of its half of the check byte.
FlipsOf(field) ==
  {flip \in flips :
     \/ flip[1] = field
     \/ flip[1] = "crc" /\ (flip[2] \in MASK <=> field = "command")}

\* An altered packet passes check_crc only if three bits or more were inverted in the
\* command and its half of the check, or in the value and its half.
AlteredIsRejected ==
  received # sent /\ check_crc(received) =>
    \E field \in {"command", "value"} : Cardinality(FlipsOf(field)) >= 3

=============================================================================
