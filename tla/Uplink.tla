------------------------------- MODULE Uplink -------------------------------
(***************************************************************************)
(* The way of a packet from the PC to the drone: the terminal's main       *)
(* thread queues packets, the dequeue thread sends them byte by byte       *)
(* (process_dequeue), the line loses bytes, and the drone's receiver       *)
(* collects and executes packets.                                          *)
(*                                                                         *)
(* The dequeue thread holds the mutex while it writes the five bytes, so   *)
(* nothing is queued meanwhile.  A byte is received, or lost, as it is     *)
(* sent: the line keeps their order.  There is no acknowledgement.         *)
(***************************************************************************)
EXTENDS PcQueue, PacketReceiver

CONSTANTS
  MaxLost,      \* the most bytes the line loses within a frame the receiver has open
  MaxOffered    \* the number of packets the terminal queues

VARIABLES
  packet, next,       \* the dequeue thread's packet; the byte it sends next, 0 if none
  lost,               \* history: bytes lost since the receiver opened its frame
  offered, executed,  \* history: packets offered to the queue; packets executed
  intact, before,     \* history: no byte of this packet, of the one before, was lost
  done                \* history: this packet was executed

senderVars  == <<packet, next>>
historyVars == <<executed, intact, before, done>>
vars == <<queueVars, receiverVars, senderVars, lost, offered, historyVars>>

Frame(pkt) == <<START_BYTE, pkt.command, pkt.value, Crc(pkt.command, pkt.value), STOP_BYTE>>

\* No data byte of the packet looks like a framing byte.
Clean(pkt) == \A i \in 2..4 : Frame(pkt)[i] \notin {START_BYTE, STOP_BYTE}

ASSUME PacketsAssumption ==
  \A pkt \in Packets : pkt \in [command : Byte, value : Byte] /\ Crc(pkt.command, pkt.value) \in Byte
ASSUME LostAssumption == MaxLost \in Nat
ASSUME OfferedAssumption == MaxOffered \in Nat

Sending == next > 0

Init ==
  /\ createQueue /\ ReceiverInit
  /\ packet = Blank /\ next = 0
  /\ lost = 0 /\ offered = 0
  /\ executed = <<>> /\ intact = FALSE /\ before = FALSE /\ done = FALSE

\* The terminal queues a packet, when the mutex is free.
Offer(pkt) ==
  /\ ~Sending /\ offered < MaxOffered
  /\ enqueue(pkt)
  /\ offered' = offered + 1
  /\ UNCHANGED <<receiverVars, senderVars, lost, historyVars>>

\* The dequeue thread takes the first packet and keeps the mutex.
Take ==
  /\ ~Sending
  /\ dequeue
  /\ packet' = elements[first]
  /\ next' = 1
  /\ intact' = TRUE /\ before' = intact /\ done' = FALSE
  /\ UNCHANGED <<receiverVars, lost, offered, executed>>

Advance == next' = IF next = 5 THEN 0 ELSE next + 1

\* The next byte reaches the drone.
SendByte ==
  LET byte == Frame(packet)[next] IN
  /\ Sending
  /\ Receive(byte)
  /\ lost' = IF rcv_byte_count = 0 \/ rcv_byte_count' = 0 THEN 0 ELSE lost
  /\ IF Executes(byte)
       THEN /\ executed' = Append(executed, [command |-> p.command, value |-> p.value])
            /\ done' = TRUE
       ELSE UNCHANGED <<executed, done>>
  /\ Advance
  /\ UNCHANGED <<queueVars, packet, offered, intact, before>>

\* The next byte does not.
LoseByte ==
  /\ Sending
  /\ rcv_byte_count = 0 \/ lost < MaxLost
  /\ lost' = IF rcv_byte_count = 0 THEN 0 ELSE lost + 1
  /\ intact' = FALSE
  /\ Advance
  /\ UNCHANGED <<queueVars, receiverVars, packet, offered, executed, before, done>>

Next == (\E pkt \in Packets : Offer(pkt)) \/ Take \/ SendByte \/ LoseByte

Spec == Init /\ [][Next]_vars

\* The dequeue thread runs: it sleeps 10 ms between two packets and the terminal holds the
\* mutex for microseconds.
FairSpec == Spec /\ WF_vars(Take \/ SendByte \/ LoseByte)

-----------------------------------------------------------------------------
(***************************************************************************)
(* Correctness.                                                            *)
(***************************************************************************)

\* The ring is well formed: last is size - 1 places after first, around the end.
LastOK ==
  LET index == first + size - 1 IN
  \/ index = -1 /\ last \in {-1, capacity - 1}
  \/ index \in Slots /\ last = index
  \/ index >= capacity /\ last = index - capacity

RingOK ==
  /\ elements \in [Slots -> Packets \cup {Blank}]
  /\ first \in Slots /\ size \in 0..capacity /\ LastOK
  /\ \A i \in 1..size : elements[Slot(i)] \in Packets

TypeOK ==
  /\ RingOK
  /\ rcv_byte_count \in 0..4 /\ nack_flag \in {0, 1}
  /\ p \in [command : Byte, value : Byte, crc : Byte]
  /\ next \in 0..5 /\ packet \in Packets \cup {Blank} /\ (Sending => packet \in Packets)
  /\ lost \in 0..MaxLost /\ offered \in 0..MaxOffered
  /\ executed \in Seq([command : Byte, value : Byte])
  /\ intact \in BOOLEAN /\ before \in BOOLEAN /\ done \in BOOLEAN

\* A damaged packet costs at most the one after it: of two packets in a row that lose no
\* byte, the second is executed if its data do not look like framing (uart.c:100 gives up
\* the packet that a START byte opens inside another one; uart.c has no other memory).
Resync == ~Sending /\ intact /\ before /\ Clean(packet) => done

\* What makes Resync and the refinement inductive.  The receiver's open frame either began
\* in the packet that is being sent, and what it has collected with what was lost makes up
\* what was sent; or it began in an earlier one, and then that packet's STOP byte was lost
\* and the START byte of each packet since.
CleanPackets == \A pkt \in Packets : Clean(pkt)

Collected ==
  /\ rcv_byte_count >= 2 => p.command = packet.command
  /\ rcv_byte_count >= 3 => p.value = packet.value
  /\ rcv_byte_count >= 4 => p.crc = Crc(packet.command, packet.value)

SameFrame ==
  /\ next > 1 /\ rcv_byte_count + lost < next
  /\ CleanPackets => rcv_byte_count + lost = next - 1
  /\ rcv_byte_count = next - 1 => Collected

OldFrame ==
  /\ lost >= (IF next > 1 THEN 2 ELSE 1)
  /\ CleanPackets => rcv_byte_count + lost >= 5 + (IF next > 1 THEN next - 1 ELSE 0)

FrameInv == rcv_byte_count > 0 => SameFrame \/ OldFrame

\* The receiver follows a packet that loses nothing after one that lost nothing.
InStep ==
  /\ ~Sending /\ intact => rcv_byte_count = 0
  /\ Sending /\ intact /\ before /\ Clean(packet) => rcv_byte_count = next - 1 /\ Collected

LinkInv == TypeOK /\ FrameInv /\ InStep /\ Resync

\* The queue, the line and the receiver are a lossy FIFO, if few bytes are lost in a frame:
\* at most one, or at most four when no data byte looks like a framing byte.
FewLost == MaxLost <= 1 \/ (MaxLost <= 4 /\ CleanPackets)

Fifo == INSTANCE LossyFifo
          WITH pending <- IF Sending THEN <<packet>> \o Contents ELSE Contents

ImplementsFifo == Fifo!Spec

\* No queued packet waits for ever.
PendingSettles == Fifo!Settles

=============================================================================
