-------------------------------- MODULE Baro --------------------------------
(***************************************************************************)
(* The sensor bus in main's time: read_baro (drivers/baro.c) starts a      *)
(* conversion, comes back to it with get_time_us (drivers/timers.c) until  *)
(* it has lasted long enough, and reads it over I2C, which main also uses  *)
(* for the MPU.  The time is a hardware counter and the overflows that     *)
(* TIMER2_IRQHandler adds up, read one after the other.                    *)
(***************************************************************************)
EXTENDS Twi

CONSTANTS
  Wrap,         \* the counter's values: 65536
  Word,         \* those of an unsigned word
  WAIT,         \* 10000: ticks a conversion is given
  Latency,      \* ticks after which TIMER2_IRQHandler has run
  BaroLength,   \* 3: bytes of a conversion
  MpuLengths,   \* bytes of a transfer with the MPU
  MaxAge        \* bound: ticks after which main has come back to a conversion

ASSUME TimeAssumption ==
  /\ Wrap \in Nat /\ Word \in Nat /\ WAIT \in Nat \ {0} /\ Latency \in Nat /\ MaxAge \in Nat
  /\ WAIT + 1 < Wrap /\ Latency + 1 < Wrap /\ Wrap + WAIT < MaxAge
  /\ Wrap + MaxAge < Word             \* the word does not come round within a conversion
ASSUME LengthAssumption == BaroLength \in Nat \ {0} /\ MpuLengths \subseteq Nat \ {0}

VARIABLES
  counter, COMPARE,       \* TIMER2: its counter, and EVENTS_COMPARE[2]
  global_time,
  CC,                     \* CC[3], what TASKS_CAPTURE[3] stored
  loop_count, initTime,
  caller,                 \* the function main is in
  age,                    \* history: ticks since the capture for initTime
  waited,                 \* history: age at the capture for the test, -1 before it
  torn, tornStamp         \* history: an overflow was added between the two reads of the
                          \* last, or of initTime's, get_time_us

timerVars == <<counter, COMPARE, global_time>>
baroVars  == <<loop_count, initTime>>
timeVars  == <<CC, age, waited, torn, tornStamp>>
vars == <<twiVars, timerVars, baroVars, caller, timeVars>>

Init ==
  /\ TwiInit
  /\ counter = 0 /\ COMPARE = FALSE /\ global_time = 0 /\ CC = 0
  /\ loop_count = 0 /\ initTime = 0 /\ caller = "none"
  /\ age = 0 /\ waited = -1 /\ torn = FALSE /\ tornStamp = FALSE

-----------------------------------------------------------------------------
(***************************************************************************)
(* TIMER2.                                                                 *)
(***************************************************************************)

\* Main may spin on a flag that no event sets any more.
Stuck ==
  /\ bus = "idle" /\ EVENTS = {}
  /\ \/ at \in {"address_sent", "byte_sent"} /\ ~sent
     \/ at = "byte_read" /\ ~read

\* The counter reaches CC[2] = 0xffff one tick before it comes round.  A get_time_us takes
\* less than a round.
Tick ==
  /\ torn /\ at \in {"stamp", "test"} => counter # Wrap - 2
  /\ COMPARE => counter # Latency
  /\ age < MaxAge \/ COMPARE \/ Stuck
  /\ counter' = (counter + 1) % Wrap
  /\ COMPARE' = (COMPARE \/ counter' = Wrap - 1)
  /\ age' = IF loop_count = 0 \/ age = MaxAge THEN age ELSE age + 1
  /\ UNCHANGED <<twiVars, global_time, baroVars, caller, CC, waited, torn, tornStamp>>

\* Mutant of Overflow: the event is not cleared, so that the handler runs again.
OverflowAgain ==
  /\ COMPARE /\ counter # Wrap - 1
  /\ global_time' = (global_time + (Wrap - 1)) % Word
  /\ COMPARE' = (counter < Latency)
  /\ torn' = (torn \/ at \in {"stamp", "test"})
  /\ UNCHANGED <<twiVars, counter, baroVars, caller, CC, age, waited, tornStamp>>

\* The compare 2 branch of TIMER2_IRQHandler, which takes more than a tick to get there.
Overflow ==
  /\ COMPARE /\ counter # Wrap - 1
  /\ global_time' = (global_time + (Wrap - 1)) % Word
  /\ COMPARE' = FALSE
  /\ torn' = (torn \/ at \in {"stamp", "test"})
  /\ UNCHANGED <<twiVars, counter, baroVars, caller, CC, age, waited, tornStamp>>

\* The handler runs before main goes on.
Main == ~COMPARE

\* get_time_us captures the counter and then loads global_time.
Capture ==
  /\ CC' = counter
  /\ torn' = FALSE

\* The load; what was captured is of no further use.
Time == (global_time + CC) % Word
Loaded == CC' = 0

-----------------------------------------------------------------------------
(***************************************************************************)
(* read_baro.                                                              *)
(***************************************************************************)

\* A conversion command: STARTTX, without waiting for the byte to be sent.
ConvertCommand ==
  /\ StartTx("stop")
  /\ at' = "command"
  /\ UNCHANGED <<flagVars, callVars>>

read_baro ==
  /\ Main /\ at = "top"
  /\ caller' = "read_baro"
  /\ IF loop_count = 0
       THEN ConvertCommand /\ UNCHANGED timeVars
       ELSE /\ Capture /\ waited' = age
            /\ at' = "test"
            /\ UNCHANGED <<flagVars, callVars, busVars, historyVars, age, tornStamp>>
  /\ UNCHANGED <<timerVars, baroVars>>

\* if ((get_time_us() - initTime) < 10000) break;
Test ==
  /\ Main /\ at = "test"
  /\ IF (Time - initTime) % Word < WAIT
       THEN /\ at' = "delay"
            /\ UNCHANGED <<flagVars, callVars, busVars, historyVars>>
       ELSE i2c_read(BaroLength)
  /\ Loaded
  /\ UNCHANGED <<timerVars, baroVars, caller, age, waited, torn, tornStamp>>

\* Mutant of Converted: the cycle is not closed.
ConvertedOpen ==
  /\ Main /\ at = "done" /\ caller = "read_baro"
  /\ waited' = -1
  /\ ConvertCommand
  /\ UNCHANGED <<timerVars, baroVars, caller, CC, age, torn, tornStamp>>

\* D1, then the command for D2; or D2, and the pressure
Converted ==
  /\ Main /\ at = "done" /\ caller = "read_baro"
  /\ waited' = -1
  /\ IF loop_count = 1
       THEN ConvertCommand /\ UNCHANGED <<loop_count, age>>
       ELSE /\ loop_count' = 0 /\ age' = 0 /\ at' = "delay"
            /\ UNCHANGED <<flagVars, callVars, busVars, historyVars>>
  /\ UNCHANGED <<timerVars, initTime, caller, CC, torn, tornStamp>>

\* loop_count and the first half of initTime = get_time_us()
Command ==
  /\ Main /\ at = "command"
  /\ loop_count' = loop_count + 1
  /\ Capture /\ age' = 0
  /\ at' = "stamp"
  /\ UNCHANGED <<flagVars, callVars, busVars, historyVars, timerVars, initTime, caller, waited,
                 tornStamp>>

Stamp ==
  /\ Main /\ at = "stamp"
  /\ initTime' = Time
  /\ tornStamp' = torn
  /\ Loaded
  /\ at' = "delay"
  /\ UNCHANGED <<flagVars, callVars, busVars, historyVars, timerVars, loop_count, caller, age,
                 waited, torn>>

\* Mutant of Delay: main does not give the byte of the command its time.
DelayNone ==
  /\ Main /\ at = "delay"
  /\ at' = "top" /\ caller' = "none" /\ waited' = -1
  /\ UNCHANGED <<flagVars, callVars, busVars, historyVars, timerVars, baroVars, CC, age, torn,
                 tornStamp>>

\* nrf_delay_us(50), and nrf_delay_ms(1) of the caller: longer than a byte on the bus
Delay ==
  /\ Main /\ at = "delay"
  /\ bus = "idle" /\ EVENTS = {}
  /\ at' = "top" /\ caller' = "none" /\ waited' = -1
  /\ UNCHANGED <<flagVars, callVars, busVars, historyVars, timerVars, baroVars, CC, age, torn,
                 tornStamp>>

-----------------------------------------------------------------------------
\* The transfers of get_dmp_data, get_raw_sensor_data and imu_init.
UseMpu ==
  /\ Main /\ at = "top"
  /\ caller' = "mpu"
  /\ \E length \in MpuLengths : i2c_read(length) \/ i2c_write(length)
  /\ UNCHANGED <<timerVars, baroVars, timeVars>>

MpuDone ==
  /\ Main /\ at = "done" /\ caller = "mpu"
  /\ at' = "top" /\ caller' = "none"
  /\ UNCHANGED <<flagVars, callVars, busVars, historyVars, timerVars, baroVars, timeVars>>

OnBus == Main /\ Transfer /\ UNCHANGED <<timerVars, baroVars, caller, timeVars>>

Wire     == Bus /\ UNCHANGED <<timerVars, baroVars, caller, timeVars>>
Silence  == NoAnswer /\ UNCHANGED <<timerVars, baroVars, caller, timeVars>>
TwiIrq   == SPI0_TWI0_IRQHandler /\ UNCHANGED <<timerVars, baroVars, caller, timeVars>>

ReadBaro == read_baro \/ Test \/ Converted \/ Command \/ Stamp \/ Delay

Next ==
  \/ ReadBaro \/ UseMpu \/ MpuDone \/ OnBus
  \/ Tick \/ Overflow
  \/ Wire \/ Silence \/ TwiIrq

\* Main goes on from wherever it is in a call; the timer runs; the peripheral sends, receives
\* and stops, and interrupts are served.  Nothing is assumed of when main calls read_baro.
Fairness ==
  /\ WF_vars(Test \/ Converted \/ Command \/ Stamp \/ Delay \/ MpuDone \/ OnBus)
  /\ WF_vars(Tick) /\ WF_vars(Overflow) /\ WF_vars(Wire) /\ WF_vars(TwiIrq)

Spec == Init /\ [][Next]_vars /\ Fairness

-----------------------------------------------------------------------------
\* Where main is, and the flags.
FlagTypes ==
  /\ at \in {"top", "command", "stamp", "test", "delay", "done",
             "address_sent", "byte_read", "byte_sent"}
  /\ caller \in {"none", "read_baro", "mpu"} /\ (caller = "none" <=> at = "top")
  /\ sent \in BOOLEAN /\ read \in BOOLEAN
  /\ clash \in BOOLEAN /\ failed \in BOOLEAN /\ lost \in BOOLEAN
  /\ COMPARE \in BOOLEAN /\ torn \in BOOLEAN /\ tornStamp \in BOOLEAN

\* What is on the bus, and the bytes read.
BusTypes ==
  /\ left \in Nat /\ data \in Seq(Nat)
  /\ SHORTS \in {"none", "stop", "suspend"}
  /\ bus \in {"idle", "tx", "held", "rx", "suspended", "stopping"}
  /\ answered \in Nat /\ RXD \in Nat /\ EVENTS \subseteq {"TXDSENT", "RXDREADY"}

\* The clock and the conversion.
ClockTypes ==
  /\ counter \in 0..Wrap - 1 /\ CC \in 0..Wrap - 1
  /\ global_time \in 0..Word - 1 /\ initTime \in 0..Word - 1
  /\ loop_count \in 0..2
  /\ age \in 0..MaxAge /\ waited \in -1..MaxAge

\* The types of the variables: a conversion has two steps, and the cycle closes.
TypeOK == FlagTypes /\ BusTypes /\ ClockTypes

\* A conversion is read before its time (baro.c:48, 62) only if an overflow was added between
\* the two reads of a get_time_us, which shows the clock 0xffff ticks ahead; and without that
\* a test that makes main wait is at most one tick late, the tick Overflow does not add.
WaitsItsTime ==
  /\ at = "address_sent" /\ caller = "read_baro" => waited >= WAIT \/ torn \/ tornStamp
  /\ at = "delay" /\ waited >= 0 => waited <= WAIT \/ tornStamp

\* A transfer that returns has read the device's answer from its first byte to the last one
\* asked for, and no task was triggered while a byte was on the line or the peripheral waited
\* for another task, neither after the command that read_baro does not wait for nor at the
\* last byte of a read.  This holds although the driver does not wait for the end of a STOP:
\* a transfer that the peripheral did not start because of that does not return.
TransfersWhole ==
  /\ ~failed => ~clash
  /\ at = "done" /\ ~failed => data = [i \in 1..Len(data) |-> i] /\ answered = Len(data)

\* If main calls read_baro again and again, every conversion is read in the end and the next
\* one begun: only a device that does not answer, or a start that a stopping peripheral
\* loses, keeps main in a transfer (twi.c:29, 39, 60, 67).  Main calls it in the modes with
\* sensors and in a calibration; in the others a conversion waits.
ConversionsFinish ==
  []<>(caller = "read_baro") =>
    \A step \in 1..2 : loop_count = step ~> loop_count = (step + 1) % 3 \/ failed \/ lost

=============================================================================
