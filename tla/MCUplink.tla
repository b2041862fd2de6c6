------------------------------ MODULE MCUplink ------------------------------
(***************************************************************************)
(* A small instance of Uplink, with the program's real bytes: a panic      *)
(* command, and two lift values with the same check byte, the second of    *)
(* which looks like a START byte.                                          *)
(***************************************************************************)
EXTENDS Uplink

LOCAL C == INSTANCE Crc

MCPackets == {[command |-> 1, value |-> 41], [command |-> 9, value |-> 100],
              [command |-> 9, value |-> 250]}

MCCrc(command, value) ==
  C!Number[C!compute_crc(C!ByteOf[command], C!ByteOf[value])]

=============================================================================
