--------------------------- MODULE PacketReceiver ---------------------------
(***************************************************************************)
(* The receiving half of UART0_IRQHandler (drivers/uart.c): an automaton   *)
(* over bytes that collects START, command, value, CRC and STOP.  Data     *)
(* bytes are not escaped, so a value of 250 or 245 is taken for a START or *)
(* a STOP.  rx_queue holds one byte between the two halves of a handler    *)
(* run and is folded in; send_packet_ack sends nothing.                    *)
(***************************************************************************)
EXTENDS Integers

CONSTANT Crc(_, _)        \* the check byte of a command and a value (crc.c)

VARIABLES
  rcv_byte_count, nack_flag,
  p                       \* the data bytes of the packet being collected

receiverVars == <<rcv_byte_count, nack_flag, p>>

START_BYTE == 250
STOP_BYTE  == 245
Byte       == 0..255

ReceiverInit ==
  /\ rcv_byte_count = 0 /\ nack_flag = 0
  /\ p = [command |-> 0, value |-> 0, crc |-> 0]

\* A START inside a packet drops both: the packet it opens is not collected either.
ReceiveStart ==
  IF rcv_byte_count = 0 THEN rcv_byte_count' = 1 /\ nack_flag' = 0 /\ UNCHANGED p
                        ELSE rcv_byte_count' = 0 /\ nack_flag' = 1 /\ UNCHANGED p

\* Mutant of ReceiveStop: an incomplete packet is left open.
ReceiveStopOpen ==
  /\ rcv_byte_count' = IF rcv_byte_count = 4 THEN 0 ELSE rcv_byte_count
  /\ nack_flag' = IF rcv_byte_count = 4 THEN nack_flag ELSE 1
  /\ UNCHANGED p

ReceiveStop ==
  /\ rcv_byte_count' = 0
  /\ nack_flag' = IF rcv_byte_count = 4 THEN nack_flag ELSE 1
  /\ UNCHANGED p

ReceiveData(byte) ==
  \/ /\ rcv_byte_count = 1
     /\ p' = [p EXCEPT !.command = byte]
     /\ rcv_byte_count' = 2 /\ UNCHANGED nack_flag
  \/ /\ rcv_byte_count = 2
     /\ p' = [p EXCEPT !.value = byte]
     /\ rcv_byte_count' = 3 /\ UNCHANGED nack_flag
  \/ /\ rcv_byte_count = 3
     /\ p' = [p EXCEPT !.crc = byte]
     /\ rcv_byte_count' = 4 /\ UNCHANGED nack_flag
  \/ /\ rcv_byte_count \in {0, 4}
     /\ rcv_byte_count' = 0 /\ nack_flag' = 1 /\ UNCHANGED p

\* One received byte.
Receive(byte) ==
  \/ byte = START_BYTE /\ ReceiveStart
  \/ byte = STOP_BYTE /\ ReceiveStop
  \/ byte \notin {START_BYTE, STOP_BYTE} /\ ReceiveData(byte)

\* Mutant of Completes: any STOP completes a packet, whatever was collected.
CompletesAlways(byte) == byte = STOP_BYTE

\* The byte completes a packet: process_packet is called.
Completes(byte) == byte = STOP_BYTE /\ rcv_byte_count = 4

\* process_packet executes it if the check agrees and the mode allows the command; the
\* mode is not modelled here.
Executes(byte) == Completes(byte) /\ p.crc = Crc(p.command, p.value)

=============================================================================
