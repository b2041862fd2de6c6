------------------------------ MODULE Downlink ------------------------------
(***************************************************************************)
(* The way of telemetry and log lines from the drone to the PC: main puts  *)
(* whole messages and text on the line, the line loses bytes, an interrupt *)
(* handler that reports an error puts its text into a message, and the     *)
(* PC's receive thread takes an idle line for a byte.                      *)
(*                                                                         *)
(* A byte is received as it is sent; the ring that uart_put fills keeps    *)
(* their order.  While main uploads the log it sends nothing else; after   *)
(* an upload the drone restarts, and its telemetry with it, but the PC     *)
(* stays in get_log.                                                       *)
(***************************************************************************)
EXTENDS PcReceiver

CONSTANTS
  Telemetry, Lines,   \* the records the drone sends
  Leftovers,          \* what the uninitialised value of a telemetry packet may be
  TextBytes,          \* the characters of main's texts
  Reports,            \* the texts of the interrupt handlers
  MaxFaults,          \* bound: the bytes lost and reports inserted
  MaxTelemetry,       \* the number of messages up to which telemetry is among them
  MaxMessages         \* the number of messages the drone sends

VARIABLES
  out,                \* the bytes of the current message not sent yet
  message,            \* the record it carries, NoRecord if none
  uploading,          \* main is in log_upload
  faults,             \* history: bytes lost and reports inserted so far
  messages,           \* history: messages begun
  intact,             \* history: this message is undamaged
  due,                \* history: it found the receiver in step, and in its mode
  done                \* history: its record was output

senderVars  == <<out, message, uploading, messages>>
historyVars == <<intact, due, done>>
vars == <<receiverVars, senderVars, faults, historyVars>>

NoRecord == <<>>

\* Text is ASCII: it may have a TELE_START or TELE_STOP, but none of the bytes above 127.
ASSUME TextAssumption == TextBytes \subseteq 0..127 /\ Reports \subseteq Seq(0..127)
ASSUME BoundsAssumption == MaxFaults \in Nat /\ MaxTelemetry \in Nat /\ MaxMessages \in Nat
ASSUME RecordsAssumption ==
  /\ Telemetry \subseteq [FieldsOf(TeleCases) -> Int]
  /\ Lines \subseteq [FieldsOf(LogCases) -> Int]
  /\ Telemetry \cap Lines = {} /\ NoRecord \notin Telemetry \cup Lines

\* In the program the check of a telemetry packet is in 192..207, that of LOG_START 176.
ASSUME CheckAssumption ==
  /\ Leftovers \subseteq Byte
  /\ \A leftover \in Leftovers :
       Crc(TELEMETRY_DATA, leftover) \in Byte \ {START_BYTE, STOP_BYTE}
  /\ Crc(LOG, LOG_START) \in Byte \ {START_BYTE, STOP_BYTE, LOG_LINE_START}

-----------------------------------------------------------------------------
\* uart_put, uart_put_16bit and uart_put_32bit: the low byte first.
uart_put(value) == <<value % 256>>

uart_put_16bit(value) == <<value % 256, (value \div 256) % 256>>

uart_put_32bit(value) ==
  <<value % 256, (value \div 256) % 256, (value \div 65536) % 256, (value \div 16777216) % 256>>

\* What send_telemetry_data and log_upload send of a record.
TeleData(r) ==
  uart_put_32bit(r.current_time) \o uart_put(r.current_mode) \o uart_put_16bit(r.bat_volt)
    \o uart_put_16bit(r.ae0) \o uart_put_16bit(r.ae1)
    \o uart_put_16bit(r.ae2) \o uart_put_16bit(r.ae3)
    \o uart_put_16bit(r.controlgain_yaw) \o uart_put_16bit(r.controlgain_p1)
    \o uart_put_16bit(r.controlgain_p2) \o uart_put(r.dmp_raw_mode)
    \o uart_put_16bit(r.key_lift) \o uart_put_16bit(r.key_roll)
    \o uart_put_16bit(r.key_pitch) \o uart_put_16bit(r.key_yaw)

LogData(r) ==
  uart_put_32bit(r.current_time) \o uart_put(r.current_mode)
    \o uart_put_16bit(r.sp) \o uart_put_16bit(r.sq) \o uart_put_16bit(r.sr)
    \o uart_put_16bit(r.sax) \o uart_put_16bit(r.say) \o uart_put_16bit(r.saz)
    \o uart_put_16bit(r.phi) \o uart_put_16bit(r.theta) \o uart_put_16bit(r.psi)

Packet(command, value) == <<START_BYTE, command, value, Crc(command, value), STOP_BYTE>>

TelemetryBytes(record, leftover) ==
  Packet(TELEMETRY_DATA, leftover) \o <<TELE_START>> \o TeleData(record) \o <<TELE_STOP>>

LineBytes(record) == <<LOG_LINE_START>> \o LogData(record) \o <<LOG_LINE_END>>

-----------------------------------------------------------------------------
Init ==
  /\ ReceiverInit
  /\ out = <<>> /\ message = NoRecord /\ uploading = FALSE /\ messages = 0
  /\ faults = 0
  /\ intact = TRUE /\ due = TRUE /\ done = FALSE

DataBytes(record) == IF record \in Lines THEN LogData(record) ELSE TeleData(record)

\* No data byte of the record looks like the start of a packet or of a line.
Clean(record) ==
  record = NoRecord \/
    \A i \in 1..Len(DataBytes(record)) : DataBytes(record)[i] \notin {START_BYTE, LOG_LINE_START}

\* The record is longer than any frame that the receiver may have open when it begins.
LongEnough(record) == record \in Telemetry \/ (record \in Lines /\ log_start_flag = 1)

\* The last message has left the receiver in step.
InStep == intact /\ Clean(message) /\ (due \/ LongEnough(message))

\* The PC is in the mode that shows or files the record.
Heard(record) == record = NoRecord \/ (record \in Lines <=> log_start_flag = 1)

\* Main begins a message.
Begin(record, bytes) ==
  /\ out = <<>> /\ messages < MaxMessages
  /\ messages' = messages + 1
  /\ out' = bytes /\ message' = record
  /\ due' = (InStep /\ Heard(record)) /\ done' = FALSE
  /\ UNCHANGED <<receiverVars, faults>>

\* A leftover that looks like framing damages its own packet.
SendTelemetry(record, leftover) ==
  /\ ~uploading /\ messages < MaxTelemetry
  /\ Begin(record, TelemetryBytes(record, leftover))
  /\ intact' = (leftover \notin {START_BYTE, STOP_BYTE})
  /\ UNCHANGED uploading

StartUpload ==
  /\ ~uploading
  /\ Begin(NoRecord, Packet(LOG, LOG_START))
  /\ intact' = TRUE
  /\ uploading' = TRUE

SendLine(record) ==
  /\ uploading
  /\ Begin(record, LineBytes(record))
  /\ intact' = TRUE
  /\ UNCHANGED uploading

\* The upload is over and the drone restarts.
EndUpload ==
  /\ uploading /\ out = <<>> /\ message # NoRecord
  /\ uploading' = FALSE
  /\ UNCHANGED <<receiverVars, out, message, messages, faults, historyVars>>

SendByte ==
  /\ out # <<>>
  /\ Receive(Head(out))
  /\ out' = Tail(out)
  /\ done' = (done \/ output' # output)
  /\ UNCHANGED <<message, uploading, messages, faults, intact, due>>

Fault ==
  /\ out # <<>> /\ faults < MaxFaults
  /\ faults' = faults + 1
  /\ intact' = FALSE
  /\ UNCHANGED <<message, uploading, messages, due, done>>

LoseByte ==
  /\ Fault
  /\ out' = Tail(out)
  /\ UNCHANGED receiverVars

\* The handler's printf comes before a byte of main's message, with all its characters.
Report(text) ==
  /\ Fault
  /\ out' = text \o out
  /\ UNCHANGED receiverVars

\* Between two messages nothing arrives for 100 ms, or main prints text, as it does when it
\* restarts or a sensor fails.  An upload has no such gaps.
Gap(byte) ==
  /\ out = <<>> /\ ~uploading
  /\ Receive(byte)
  /\ UNCHANGED <<senderVars, faults, historyVars>>

Next ==
  \/ \E record \in Telemetry, leftover \in Leftovers : SendTelemetry(record, leftover)
  \/ StartUpload
  \/ \E record \in Lines : SendLine(record)
  \/ EndUpload
  \/ SendByte \/ LoseByte
  \/ \E text \in Reports : Report(text)
  \/ \E byte \in TextBytes \cup {IDLE_BYTE} : Gap(byte)

Spec == Init /\ [][Next]_vars

-----------------------------------------------------------------------------
TypeOK ==
  /\ rcv_byte_count \in 0..4 /\ p \in [{"command", "value", "crc"} -> Byte]
  /\ telemetry_rcv_flag \in {0, 1} /\ count \in 0..(Len(TeleCases) + 1)
  /\ tele_data \in [FieldsOf(TeleCases) -> Int]
  /\ count > 0 => telemetry_rcv_flag = 1
  /\ log_start_flag \in {0, 1} /\ log_byte_count \in 0..(Len(LogCases) + 1)
  /\ log_line \in [FieldsOf(LogCases) -> Int]
  /\ output \in Seq([FieldsOf(TeleCases) -> Int] \cup [FieldsOf(LogCases) -> Int])
  /\ out \in Seq(Byte) /\ faults \in 0..MaxFaults

\* A damaged message costs at most the one after it.  A whole telemetry message puts the
\* receiver in step whatever it was doing, and so does a log line in get_log, if no data byte
\* looks like a start; the packet that announces an upload is too short for that, but keeps it
\* in step.  The next undamaged message, if the PC is in its mode, is shown or filed.
Resync == out = <<>> /\ message # NoRecord /\ intact /\ due => done

\* In such a message the PC shows or files the record that was sent, field by field with its
\* sign, once, and nothing else; nor does it after the message until the next begins, whatever
\* main prints.  Of a damaged message, and of those up to the next that is due, nothing is
\* claimed, and nothing could be: a frame has no check sum, and when it has lost a byte the E of
\* "Error reading sensor fifo" (mpu_wrapper.c:67) closes it (receive_telemetry.c:235), so that
\* the PC shows a record that was never sent.
ShownAsSent ==
  [][intact /\ due /\ output' # output =>
       message # NoRecord /\ ~done /\ output' = Append(output, message)]_vars

=============================================================================
