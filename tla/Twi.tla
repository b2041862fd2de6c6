--------------------------------- MODULE Twi ---------------------------------
(***************************************************************************)
(* The blocking I2C driver (drivers/twi.c): main starts the peripheral,    *)
(* spins on the flags sent and read, and SPI0_TWI0_IRQHandler sets them.   *)
(* The peripheral is modelled from its use here: it sends TXD, it receives *)
(* byte after byte, and after each byte it waits or begins to stop, as     *)
(* SHORTS says.  The STOP condition takes time, and nothing in the driver  *)
(* waits for it: EVENTS_STOPPED is not enabled (line 130), and the branch  *)
(* of the handler that would clear it is commented out.                    *)
(***************************************************************************)
EXTENDS Integers, Sequences

VARIABLES
  sent, read,             \* the flags of twi.c
  at,                     \* main's position; "top" outside the bus
  left,                   \* data_length
  data,                   \* the bytes read, by their place in the device's answer
  SHORTS,                 \* what the peripheral does after a byte
  bus,                    \* its state
  answered,               \* the bytes the device has put on the bus since STARTRX
  RXD,                    \* the place of the last of them
  EVENTS,                 \* the events not yet handled
  clash,                  \* history: a task was triggered while a byte was on the line, or
                          \* when the peripheral waited for another task
  failed,                 \* history: a device did not answer
  lost                    \* history: the peripheral was stopping and did not start

flagVars == <<sent, read>>
callVars == <<left, data>>
busVars  == <<SHORTS, bus, answered, RXD, EVENTS>>
historyVars == <<clash, failed, lost>>
twiVars  == <<flagVars, at, callVars, busVars, historyVars>>

TwiInit ==
  /\ sent = FALSE /\ read = FALSE
  /\ at = "top" /\ left = 0 /\ data = <<>>
  /\ SHORTS = "none" /\ bus = "idle" /\ answered = 0 /\ RXD = 0 /\ EVENTS = {}
  /\ clash = FALSE /\ failed = FALSE /\ lost = FALSE

-----------------------------------------------------------------------------
(***************************************************************************)
(* The tasks main triggers.                                                *)
(***************************************************************************)

\* The peripheral is in no transfer.
Free == bus \in {"idle", "stopping"}

\* STARTTX with the first byte in TXD.  What a peripheral that is still stopping makes of it
\* is not defined: it starts after the STOP or not at all.
StartTx(shorts) ==
  /\ SHORTS' = shorts
  /\ \/ bus' = "tx" /\ UNCHANGED lost
     \/ bus = "stopping" /\ bus' = bus /\ lost' = TRUE
  /\ clash' = (clash \/ ~Free)
  /\ UNCHANGED <<answered, RXD, EVENTS, failed>>

\* the next byte in TXD
NextTx ==
  /\ bus' = "tx"
  /\ clash' = (clash \/ bus # "held")
  /\ UNCHANGED <<SHORTS, answered, RXD, EVENTS, failed, lost>>

\* STARTRX, after the register's address
StartRx(shorts) ==
  /\ SHORTS' = shorts /\ bus' = "rx" /\ answered' = 0
  /\ clash' = (clash \/ bus # "held")
  /\ UNCHANGED <<RXD, EVENTS, failed, lost>>

\* RESUME, also after the last byte, when nothing is suspended
Resume ==
  /\ bus' = IF bus = "suspended" THEN "rx" ELSE bus
  /\ clash' = (clash \/ bus \in {"tx", "rx"})
  /\ UNCHANGED <<answered, RXD, EVENTS, failed, lost>>

Stop ==
  /\ bus' = "stopping"
  /\ clash' = (clash \/ bus # "held")
  /\ UNCHANGED <<SHORTS, answered, RXD, EVENTS, failed, lost>>

-----------------------------------------------------------------------------
(***************************************************************************)
(* i2c_read and i2c_write.  Returning, main goes on at "done".             *)
(***************************************************************************)
i2c_read(length) ==
  /\ sent' = FALSE /\ read' = FALSE
  /\ left' = length /\ data' = <<>>
  /\ at' = "address_sent"
  /\ StartTx("none")

\* while (!sent); and the start of the reception: the last byte of all ends it
AddressSent ==
  /\ at = "address_sent" /\ sent
  /\ sent' = FALSE
  /\ at' = "byte_read"
  /\ StartRx(IF left = 1 THEN "stop" ELSE "suspend")
  /\ UNCHANGED <<read, callVars>>

\* Mutant of ByteRead: the peripheral is left waiting.
ByteReadNoResume ==
  /\ at = "byte_read" /\ read
  /\ read' = FALSE
  /\ data' = Append(data, RXD)
  /\ left' = left - 1
  /\ SHORTS' = IF left' = 1 THEN "stop" ELSE SHORTS
  /\ at' = IF left' = 0 THEN "done" ELSE "byte_read"
  /\ UNCHANGED <<sent, bus, answered, RXD, EVENTS, historyVars>>

\* while (!read); then the byte, the stop before the last one, and RESUME
ByteRead ==
  /\ at = "byte_read" /\ read
  /\ read' = FALSE
  /\ data' = Append(data, RXD)
  /\ left' = left - 1
  /\ SHORTS' = IF left' = 1 THEN "stop" ELSE SHORTS
  /\ Resume
  /\ at' = IF left' = 0 THEN "done" ELSE "byte_read"
  /\ UNCHANGED sent

i2c_write(length) ==
  /\ sent' = FALSE
  /\ left' = length
  /\ at' = "byte_sent"
  /\ StartTx("none")
  /\ UNCHANGED <<read, data>>

\* while (!sent); then the next byte, or TASKS_STOP
ByteSent ==
  /\ at = "byte_sent" /\ sent
  /\ sent' = FALSE
  /\ IF left > 0
       THEN /\ left' = left - 1
            /\ NextTx
            /\ UNCHANGED at
       ELSE /\ at' = "done"
            /\ Stop
            /\ UNCHANGED left
  /\ UNCHANGED <<read, data>>

Transfer == AddressSent \/ ByteRead \/ ByteSent

-----------------------------------------------------------------------------
(***************************************************************************)
(* The peripheral and the handler.                                         *)
(***************************************************************************)
SendByte ==
  /\ bus = "tx"
  /\ bus' = IF SHORTS = "stop" THEN "stopping" ELSE "held"
  /\ EVENTS' = EVENTS \cup {"TXDSENT"}
  /\ UNCHANGED <<flagVars, at, callVars, SHORTS, answered, RXD, historyVars>>

\* A byte that RESUME did not ask for overwrites the last one.
ReceiveByte ==
  /\ bus = "rx"
  /\ answered' = answered + 1 /\ RXD' = answered'
  /\ bus' = CASE SHORTS = "stop" -> "stopping" [] SHORTS = "suspend" -> "suspended" [] OTHER -> "rx"
  /\ EVENTS' = EVENTS \cup {"RXDREADY"}
  /\ UNCHANGED <<flagVars, at, callVars, SHORTS, historyVars>>

\* The STOP condition is out.
Stopped ==
  /\ bus = "stopping"
  /\ bus' = "idle"
  /\ UNCHANGED <<flagVars, at, callVars, SHORTS, answered, RXD, EVENTS, historyVars>>

\* No device answers: EVENTS_ERROR, which the handler prints and clears.
NoAnswer ==
  /\ bus \in {"tx", "rx"}
  /\ bus' = "idle"
  /\ failed' = TRUE
  /\ UNCHANGED <<flagVars, at, callVars, SHORTS, answered, RXD, EVENTS, clash, lost>>

SPI0_TWI0_IRQHandler ==
  /\ EVENTS # {}
  /\ read' = (read \/ "RXDREADY" \in EVENTS)
  /\ sent' = (sent \/ "TXDSENT" \in EVENTS)
  /\ EVENTS' = {}
  /\ UNCHANGED <<at, callVars, SHORTS, bus, answered, RXD, historyVars>>

Bus == SendByte \/ ReceiveByte \/ Stopped

=============================================================================
