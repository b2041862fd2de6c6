----------------------------- MODULE PcReceiver -----------------------------
(***************************************************************************)
(* The PC's receive thread: three automata over one stream of bytes.       *)
(* process_receive_packets (pc_terminal/queue.c) collects packets; a       *)
(* telemetry packet hands the next bytes to receive_telemetry_data, and a  *)
(* log packet all further ones to get_log.  The fields of both records     *)
(* arrive byte by byte, low byte first.                                    *)
(***************************************************************************)
EXTENDS Integers, Sequences

CONSTANT Crc(_, _)        \* the check byte of a command and a value (crc.c)

VARIABLES
  rcv_byte_count, p,              \* packet being collected
  telemetry_rcv_flag, count, tele_data,
  log_start_flag, log_byte_count, log_line,
  output                          \* telemetry shown and log lines filed, in order

packetVars    == <<rcv_byte_count, p>>
telemetryVars == <<count, tele_data>>
logVars       == <<log_byte_count, log_line>>
receiverVars  == <<packetVars, telemetry_rcv_flag, telemetryVars, log_start_flag, logVars, output>>

Byte == 0..255

START_BYTE     == 250
STOP_BYTE      == 245
TELE_START     == 64
TELE_STOP      == 69
LOG_LINE_START == 144
LOG_LINE_END   == 149
LOG            == 48
LOG_START      == 50
TELEMETRY_DATA == 19

-----------------------------------------------------------------------------
\* A case of the two switches: the field its byte goes to, the byte's weight there, and
\* whether it brings the field's sign.
Shift(field, weight, signed) == [field |-> field, weight |-> weight, signed |-> signed]

Uint8(field)  == <<Shift(field, 1, FALSE)>>
Uint16(field) == <<Shift(field, 1, FALSE), Shift(field, 256, FALSE)>>

\* Mutant of Int16: the high byte brings no sign.
Int16Unsigned(field) == <<Shift(field, 1, FALSE), Shift(field, 256, FALSE)>>

Int16(field) == <<Shift(field, 1, FALSE), Shift(field, 256, TRUE)>>

\* current_time is signed in that %d prints it.
Int32(field) ==
  <<Shift(field, 1, FALSE), Shift(field, 256, FALSE), Shift(field, 65536, FALSE),
    Shift(field, 16777216, TRUE)>>

TeleCases ==
  Int32("current_time") \o Uint8("current_mode") \o Uint16("bat_volt")
    \o Int16("ae0") \o Int16("ae1") \o Int16("ae2") \o Int16("ae3")
    \o Int16("controlgain_yaw") \o Int16("controlgain_p1") \o Int16("controlgain_p2")
    \o Uint8("dmp_raw_mode")
    \o Int16("key_lift") \o Int16("key_roll") \o Int16("key_pitch") \o Int16("key_yaw")

LogCases ==
  Int32("current_time") \o Uint8("current_mode")
    \o Int16("sp") \o Int16("sq") \o Int16("sr") \o Int16("sax") \o Int16("say") \o Int16("saz")
    \o Int16("phi") \o Int16("theta") \o Int16("psi")

FieldsOf(cases) == {cases[i].field : i \in 1..Len(cases)}

Zeroed(cases) == [field \in FieldsOf(cases) |-> 0]

\* A data byte goes to its place in its field, which has zeros there.
Store(data, case, byte) ==
  LET digit == IF case.signed /\ byte >= 128 THEN byte - 256 ELSE byte
  IN  [data EXCEPT ![case.field] = @ + case.weight * digit]

-----------------------------------------------------------------------------
ReceiverInit ==
  /\ rcv_byte_count = 0 /\ p = [command |-> 0, value |-> 0, crc |-> 0]
  /\ telemetry_rcv_flag = 0 /\ count = 0 /\ tele_data = Zeroed(TeleCases)
  /\ log_start_flag = 0 /\ log_byte_count = 0 /\ log_line = Zeroed(LogCases)
  /\ output = <<>>

PacketField == <<"command", "value", "crc">>

\* A complete packet with the right check.  An ACK only sets a variable that nothing reads.
ProcessPacket ==
  LET valid == p.crc = Crc(p.command, p.value) IN
  /\ log_start_flag' =
       IF valid /\ p.command = LOG /\ p.value = LOG_START THEN 1 ELSE log_start_flag
  /\ telemetry_rcv_flag' =
       IF valid /\ p.command = TELEMETRY_DATA THEN 1 ELSE telemetry_rcv_flag

ReceivePacket(byte) ==
  /\ \/ /\ byte = START_BYTE
        /\ rcv_byte_count' = IF rcv_byte_count = 0 THEN 1 ELSE 0
        /\ UNCHANGED <<p, log_start_flag, telemetry_rcv_flag>>
     \/ /\ byte = STOP_BYTE
        /\ rcv_byte_count' = 0
        /\ IF rcv_byte_count = 4 THEN ProcessPacket
                                 ELSE UNCHANGED <<log_start_flag, telemetry_rcv_flag>>
        /\ UNCHANGED p
     \/ /\ byte \notin {START_BYTE, STOP_BYTE} /\ rcv_byte_count \in 1..3
        /\ p' = [p EXCEPT ![PacketField[rcv_byte_count]] = byte]
        /\ rcv_byte_count' = rcv_byte_count + 1
        /\ UNCHANGED <<log_start_flag, telemetry_rcv_flag>>
     \/ /\ byte \notin {START_BYTE, STOP_BYTE} /\ rcv_byte_count \in {0, 4}
        /\ rcv_byte_count' = 0
        /\ UNCHANGED <<p, log_start_flag, telemetry_rcv_flag>>
  /\ UNCHANGED <<telemetryVars, logVars, output>>

\* receive_telemetry_data: start, data, and the byte that closes the frame.
TelemetryStart(byte) ==
  /\ count = 0
  /\ IF byte = TELE_START
       THEN count' = 1 /\ tele_data' = Zeroed(TeleCases) /\ UNCHANGED telemetry_rcv_flag
       ELSE telemetry_rcv_flag' = 0 /\ UNCHANGED telemetryVars
  /\ UNCHANGED output

TelemetryData(byte) ==
  /\ count \in 1..Len(TeleCases)
  /\ tele_data' = Store(tele_data, TeleCases[count], byte)
  /\ count' = count + 1
  /\ UNCHANGED <<telemetry_rcv_flag, output>>

\* Mutant of TelemetryStop: the count is reset only by the right byte.
TelemetryStopCounting(byte) ==
  /\ count = Len(TeleCases) + 1
  /\ output' = IF byte = TELE_STOP THEN Append(output, tele_data) ELSE output
  /\ telemetry_rcv_flag' = 0 /\ count' = IF byte = TELE_STOP THEN 0 ELSE count
  /\ UNCHANGED tele_data

TelemetryStop(byte) ==
  /\ count = Len(TeleCases) + 1
  /\ output' = IF byte = TELE_STOP THEN Append(output, tele_data) ELSE output
  /\ telemetry_rcv_flag' = 0 /\ count' = 0
  /\ UNCHANGED tele_data

ReceiveTelemetry(byte) ==
  /\ TelemetryStart(byte) \/ TelemetryData(byte) \/ TelemetryStop(byte)
  /\ UNCHANGED <<packetVars, log_start_flag, logVars>>

\* get_log, likewise.  It stays in charge for ever.
LineStart(byte) ==
  /\ log_byte_count = 0
  /\ IF byte = LOG_LINE_START THEN log_byte_count' = 1 /\ log_line' = Zeroed(LogCases)
                              ELSE UNCHANGED logVars
  /\ UNCHANGED output

LineData(byte) ==
  /\ log_byte_count \in 1..Len(LogCases)
  /\ log_line' = Store(log_line, LogCases[log_byte_count], byte)
  /\ log_byte_count' = log_byte_count + 1
  /\ UNCHANGED output

\* Mutant of LineEnd: the last byte is not looked at.
LineEndUnchecked(byte) ==
  /\ log_byte_count = Len(LogCases) + 1
  /\ output' = Append(output, log_line)
  /\ log_byte_count' = 0
  /\ UNCHANGED log_line

LineEnd(byte) ==
  /\ log_byte_count = Len(LogCases) + 1
  /\ output' = IF byte = LOG_LINE_END THEN Append(output, log_line) ELSE output
  /\ log_byte_count' = 0
  /\ UNCHANGED log_line

GetLog(byte) ==
  /\ LineStart(byte) \/ LineData(byte) \/ LineEnd(byte)
  /\ UNCHANGED <<packetVars, telemetry_rcv_flag, telemetryVars, log_start_flag>>

\* One turn of the receive loop.
Receive(byte) ==
  \/ log_start_flag = 1 /\ GetLog(byte)
  \/ log_start_flag = 0 /\ telemetry_rcv_flag = 1 /\ ReceiveTelemetry(byte)
  \/ log_start_flag = 0 /\ telemetry_rcv_flag = 0 /\ ReceivePacket(byte)

\* rs232_getchar_nb returns -1 when nothing arrives for 100 ms; the comparison with -1 is
\* made after the conversion to uint8_t, so the loop takes it for a byte.
IDLE_BYTE == 255

=============================================================================
