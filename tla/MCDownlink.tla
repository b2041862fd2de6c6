----------------------------- MODULE MCDownlink -----------------------------
(***************************************************************************)
(* A small instance of Downlink, with the program's real bytes.  The       *)
(* negative trims of Tele1 have bytes that look like a START byte; Tele2   *)
(* and the line are clean.                                                 *)
(***************************************************************************)
EXTENDS Downlink

LOCAL C == INSTANCE Crc

MCCrc(command, value) ==
  C!Number[C!compute_crc(C!ByteOf[command], C!ByteOf[value])]

Unsigned == {"current_mode", "bat_volt", "dmp_raw_mode"}

Tele1 == [field \in FieldsOf(TeleCases) |->
            IF field = "current_time" THEN 70000 ELSE IF field \in Unsigned THEN 34 ELSE -6]
Tele2 == [field \in FieldsOf(TeleCases) |->
            IF field = "dmp_raw_mode" THEN 1 ELSE IF field = "current_mode" THEN 32 ELSE 300]
Line1 == [field \in FieldsOf(LogCases) |->
            IF field = "current_time" THEN 80000 ELSE IF field \in Unsigned THEN 34 ELSE -300]
MCTelemetry == {Tele1, Tele2}
MCLines == {Line1}

\* The handler's "uart error: 1" and its line feed (uart.c:74).
UartError == <<117, 97, 114, 116, 32, 101, 114, 114, 111, 114, 58, 32, 49, 10>>
MCReports == {UartError}
=============================================================================
