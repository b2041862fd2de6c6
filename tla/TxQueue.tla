------------------------------ MODULE TxQueue ------------------------------
(***************************************************************************)
(* Transmission on the drone: uart_put and the TXDRDY half of              *)
(* UART0_IRQHandler (drivers/uart.c) share the ring tx_queue               *)
(* (drivers/queue.c) and txd_available.  Main masks the interrupt around   *)
(* uart_put; handlers that print (a UART or a TWI error) call it as well.  *)
(* The ring has no test for being full, and its count is a byte.           *)
(***************************************************************************)
EXTENDS Integers, Sequences

CONSTANTS
  QUEUE_SIZE,   \* 128
  COUNT_SIZE,   \* 256: count is a uint8_t
  Bytes,        \* the bytes sent
  Nothing,      \* the content of TXD when nothing is being transmitted
  MaxPut        \* the most bytes sent or waiting

ASSUME SizeAssumption ==
  QUEUE_SIZE \in Nat \ {0} /\ COUNT_SIZE = 2 * QUEUE_SIZE /\ MaxPut \in Nat
ASSUME NothingAssumption == Nothing \notin Bytes

VARIABLES
  Data, first, last, count,   \* tx_queue
  txd_available,
  TXD, EVENTS_TXDRDY,         \* the hardware: the byte being transmitted; the event
  irq_enabled,                \* UART0 in the NVIC
  at, byte, direct,           \* main in uart_put: where, its argument, what it read
  reporting,                  \* a handler is printing
  sent                        \* history: the bytes that have left

queueVars == <<Data, first, last, count>>
mainVars  == <<at, byte, direct>>
vars == <<queueVars, txd_available, TXD, EVENTS_TXDRDY, irq_enabled, mainVars, reporting, sent>>

Slots == 0..(QUEUE_SIZE - 1)

\* The bytes in the ring: the first of them is the next to be dequeued.
Contents == [i \in 1..count |-> Data[(first + i - 1) % QUEUE_SIZE]]

\* The bytes put that have not left.
Waiting == (IF TXD = Nothing THEN <<>> ELSE <<TXD>>) \o Contents

\* uart_init.  No cell of Data is read before it is written.
Init ==
  /\ Data \in [Slots -> Bytes] /\ first = 0 /\ last = QUEUE_SIZE - 1 /\ count = 0
  /\ txd_available = TRUE
  /\ TXD = Nothing /\ EVENTS_TXDRDY = FALSE
  /\ irq_enabled = TRUE
  /\ at = "out" /\ byte \in Bytes /\ direct = FALSE
  /\ reporting = FALSE
  /\ sent = <<>>

-----------------------------------------------------------------------------
\* Mutant of enqueue: last moves on after the byte is stored.
enqueueBefore(b) ==
  /\ Data' = [Data EXCEPT ![last] = b]
  /\ last' = (last + 1) % QUEUE_SIZE
  /\ count' = (count + 1) % COUNT_SIZE
  /\ UNCHANGED first

enqueue(b) ==
  /\ last' = (last + 1) % QUEUE_SIZE
  /\ Data' = [Data EXCEPT ![last'] = b]
  /\ count' = (count + 1) % COUNT_SIZE
  /\ UNCHANGED first

\* Mutant of dequeue: first does not come round.
dequeueUnwrapped ==
  /\ first' = IF first = QUEUE_SIZE - 1 THEN first ELSE first + 1
  /\ count' = count - 1
  /\ UNCHANGED <<Data, last>>

\* The byte taken is Data[first].
dequeue ==
  /\ first' = (first + 1) % QUEUE_SIZE
  /\ count' = count - 1
  /\ UNCHANGED <<Data, last>>

\* The two outcomes of the test in uart_put.
Store(b, available) ==
  IF available THEN txd_available' = FALSE /\ TXD' = b /\ UNCHANGED queueVars
               ELSE enqueue(b) /\ UNCHANGED <<txd_available, TXD>>

-----------------------------------------------------------------------------
(***************************************************************************)
(* Main.  A handler keeps it from running until it has returned.           *)
(***************************************************************************)
Main(from, to) == ~reporting /\ at = from /\ at' = to

\* Mutant of Masked: the interrupt stays enabled.
MaskedNot == TRUE

\* What NVIC_DisableIRQ leaves of irq_enabled.
Masked == FALSE

Call(b) ==
  /\ Main("out", "test")
  /\ Len(sent) + Len(Waiting) < MaxPut
  /\ irq_enabled' = Masked
  /\ byte' = b
  /\ UNCHANGED <<queueVars, txd_available, TXD, EVENTS_TXDRDY, direct, reporting, sent>>

Test ==
  /\ Main("test", "store")
  /\ direct' = txd_available
  /\ UNCHANGED <<queueVars, txd_available, TXD, EVENTS_TXDRDY, irq_enabled, byte, reporting, sent>>

StoreByte ==
  /\ Main("store", "return")
  /\ Store(byte, direct)
  /\ UNCHANGED <<EVENTS_TXDRDY, irq_enabled, byte, direct, reporting, sent>>

Return ==
  /\ Main("return", "out")
  /\ irq_enabled' = TRUE
  /\ UNCHANGED <<queueVars, txd_available, TXD, EVENTS_TXDRDY, byte, direct, reporting, sent>>

-----------------------------------------------------------------------------
(***************************************************************************)
(* The handlers.  All interrupts have the same priority, so none preempts  *)
(* another, and a handler's uart_put is one step.                          *)
(***************************************************************************)
\* Mutant of NextByte: the line is freed when the last byte goes out.
NextByteEarly ==
  IF count > 0 THEN TXD' = Data[first] /\ dequeue /\ txd_available' = (count = 1)
               ELSE txd_available' = TRUE /\ UNCHANGED <<queueVars, TXD>>

\* The next byte goes out, or the line is free.
NextByte ==
  IF count > 0 THEN TXD' = Data[first] /\ dequeue /\ UNCHANGED txd_available
               ELSE txd_available' = TRUE /\ UNCHANGED <<queueVars, TXD>>

\* UART0_IRQHandler; it goes on to print if there is an error, too.
TxReady ==
  /\ irq_enabled /\ ~reporting /\ EVENTS_TXDRDY
  /\ EVENTS_TXDRDY' = FALSE
  /\ NextByte
  /\ reporting' \in BOOLEAN
  /\ UNCHANGED <<irq_enabled, mainVars, sent>>

\* UART0_IRQHandler on an error alone, or SPI0_TWI0_IRQHandler on one: main is then in an
\* I2C transfer, never in uart_put.  Of two pending interrupts the UART's comes first.
Error ==
  /\ irq_enabled /\ ~reporting /\ ~EVENTS_TXDRDY
  /\ reporting' = TRUE
  /\ UNCHANGED <<queueVars, txd_available, TXD, EVENTS_TXDRDY, irq_enabled, mainVars, sent>>

\* A byte that a handler prints.
ReportByte(b) ==
  /\ reporting /\ Len(sent) + Len(Waiting) < MaxPut
  /\ Store(b, txd_available)
  /\ irq_enabled' = TRUE
  /\ UNCHANGED <<EVENTS_TXDRDY, mainVars, reporting, sent>>

ReportEnd ==
  /\ reporting
  /\ reporting' = FALSE
  /\ UNCHANGED <<queueVars, txd_available, TXD, EVENTS_TXDRDY, irq_enabled, mainVars, sent>>

\* The hardware (no code of the repository): a byte has left.
Transmitted ==
  /\ TXD # Nothing
  /\ sent' = Append(sent, TXD)
  /\ TXD' = Nothing /\ EVENTS_TXDRDY' = TRUE
  /\ UNCHANGED <<queueVars, txd_available, irq_enabled, mainVars, reporting>>

UartPut == (\E b \in Bytes : Call(b)) \/ Test \/ StoreByte \/ Return

Next ==
  \/ UartPut
  \/ TxReady \/ Error \/ (\E b \in Bytes : ReportByte(b)) \/ ReportEnd
  \/ Transmitted

Spec == Init /\ [][Next]_vars

\* uart_put has no loop, a report is finite, an interrupt that stays pending is served when
\* it is enabled, however often main masks it, and the hardware transmits what is in TXD.
FairSpec ==
  /\ Spec
  /\ WF_vars(Test \/ StoreByte \/ Return)
  /\ WF_vars(ReportEnd)
  /\ SF_vars(TxReady)
  /\ WF_vars(Transmitted)

-----------------------------------------------------------------------------
(***************************************************************************)
(* Correctness.                                                            *)
(***************************************************************************)

TypeOK ==
  /\ Data \in [Slots -> Bytes] /\ first \in Slots /\ last \in Slots /\ count \in 0..(COUNT_SIZE - 1)
  /\ last = (first + count + QUEUE_SIZE - 1) % QUEUE_SIZE
  /\ txd_available \in BOOLEAN
  /\ TXD \in Bytes \cup {Nothing} /\ EVENTS_TXDRDY \in BOOLEAN
  /\ irq_enabled \in BOOLEAN
  /\ at \in {"out", "test", "store", "return"} /\ byte \in Bytes /\ direct \in BOOLEAN
  /\ reporting \in BOOLEAN
  /\ sent \in Seq(Bytes)

\* The line counts as taken exactly while the interrupt that frees it is still to come:
\* a byte is being transmitted or has just been, not both; and a byte is put into the
\* ring only then, so that none is left behind there (uart.c:28, uart.c:64).
Handshake ==
  /\ ~txd_available <=> TXD # Nothing \/ EVENTS_TXDRDY
  /\ ~(TXD # Nothing /\ EVENTS_TXDRDY)
  /\ count > 0 => ~txd_available

Line == INSTANCE TxLine
          WITH capacity <- QUEUE_SIZE, limit <- COUNT_SIZE, waiting <- Waiting

\* Bytes leave in the order of the calls of uart_put, each once.  If more wait than the
\* ring holds, those waiting longest are replaced by later ones (drivers/queue.c:22), but
\* their number stays right and no others are touched, until so many wait that count
\* wraps: then the ring forgets all of them, and goes on with the next byte put.
ImplementsLine == Line!Spec

\* Every byte put leaves.
AllLeave == Line!Settles

=============================================================================
