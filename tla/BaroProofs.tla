----------------------------- MODULE BaroProofs -----------------------------
(***************************************************************************)
(* Proofs about Baro, for any lengths of the transfers and any period,     *)
(* latency and width of the clock.                                         *)
(***************************************************************************)
EXTENDS Baro, TLAPS

-----------------------------------------------------------------------------
(* The inductive invariant. *)

\* Which function is at which position, how far the conversion is, and what is left to read.
CallOK ==
  /\ at \in {"command", "stamp", "test", "delay"} => caller = "read_baro"
  /\ at = "byte_sent" => caller = "mpu"
  /\ at = "command" => loop_count < 2
  /\ caller = "read_baro" /\ at \in {"test", "address_sent", "byte_read", "done"} => loop_count > 0
  /\ at \in {"address_sent", "byte_read"} => left > 0

Resting == Free /\ EVENTS = {}

\* A byte that main waits for is on its way, or there, and then either the handler has told
\* main or it still has to; or the peripheral has not started and never tells.
OnItsWay(state, flag) == bus = state /\ ~flag /\ EVENTS = {}
Arrived(flag, event)  == (flag <=> EVENTS = {}) /\ EVENTS \subseteq {event}
NotStarted            == lost /\ Free /\ ~sent /\ EVENTS = {}

BusOK ==
  /\ ~clash
  /\ at \in {"top", "test", "done"} => Resting
  /\ at \in {"command", "stamp", "delay"} =>
       ((bus = "tx" /\ SHORTS = "stop") \/ Free) /\ EVENTS \subseteq {"TXDSENT"}
  /\ at \in {"address_sent", "byte_sent"} =>
       /\ SHORTS = "none"
       /\ OnItsWay("tx", sent) \/ (bus = "held" /\ Arrived(sent, "TXDSENT")) \/ NotStarted
  /\ at = "address_sent" => ~read
  /\ at = "byte_read" =>
       /\ SHORTS = IF left = 1 THEN "stop" ELSE "suspend"
       /\ \/ OnItsWay("rx", read)
          \/ (IF left = 1 THEN Free ELSE bus = "suspended") /\ Arrived(read, "RXDREADY")

\* The bytes read so far are the first of the answer, and the last of all bytes is at hand.
DataOK ==
  /\ data = [i \in 1..Len(data) |-> i]
  /\ at = "address_sent" => data = <<>>
  /\ at = "byte_read" =>
       IF bus = "rx" THEN answered = Len(data)
                     ELSE answered = Len(data) + 1 /\ RXD = answered
  /\ at \notin {"address_sent", "byte_read"} => answered = Len(data)

BaroInv == TypeOK /\ CallOK /\ (~failed => BusOK /\ DataOK)

-----------------------------------------------------------------------------
LEMMA InitBaro == Init => BaroInv
<1> SUFFICES ASSUME Init PROVE BaroInv
  OBVIOUS
<1>1. <<>> \in Seq(Nat) /\ Len(<<>>) = 0 /\ <<>> = [i \in 1..0 |-> i]
  OBVIOUS
<1>2. TypeOK
  <2>1. FlagTypes
    BY DEF Init, TwiInit, FlagTypes
  <2>2. BusTypes
    BY <1>1 DEF Init, TwiInit, BusTypes
  <2>3. ClockTypes
    BY TimeAssumption DEF Init, TwiInit, ClockTypes
  <2> QED
    BY <2>1, <2>2, <2>3 DEF TypeOK
<1>3. CallOK
  BY DEF Init, TwiInit, CallOK
<1>4. BusOK /\ DataOK
  BY <1>1 DEF Init, TwiInit, BusOK, DataOK, Resting, Free
<1> QED
  BY <1>2, <1>3, <1>4 DEF BaroInv

\* STARTTX: the peripheral starts, or is stopping and does not.
Started ==
  \/ bus' = "tx" /\ lost' = lost
  \/ bus = "stopping" /\ bus' = "stopping" /\ lost' = TRUE

Starting == bus' \in {"tx", "stopping"} /\ clash' \in BOOLEAN /\ lost' \in BOOLEAN

\* A transfer begins with the bus at rest.
LEMMA ReadBegins ==
  ASSUME BaroInv, at \in {"top", "test"}, NEW length \in Nat \ {0}, i2c_read(length)
  PROVE  /\ at' = "address_sent" /\ left' = length /\ data' = <<>> /\ read' = FALSE
         /\ sent' = FALSE /\ SHORTS' = "none" /\ Starting
         /\ UNCHANGED <<answered, RXD, EVENTS, failed>>
         /\ ~failed => BusOK' /\ DataOK'
<1>1. /\ at' = "address_sent" /\ left' = length /\ data' = <<>> /\ read' = FALSE
      /\ sent' = FALSE /\ SHORTS' = "none" /\ clash' = (clash \/ ~Free)
      /\ Started
      /\ UNCHANGED <<answered, RXD, EVENTS, failed>>
  BY DEF i2c_read, StartTx, Started
<1>2. Starting
  BY <1>1 DEF Starting, Started, BaroInv, TypeOK, FlagTypes
<1>3. ASSUME ~failed PROVE BusOK' /\ DataOK'
  <2>1. ~clash /\ Free /\ EVENTS = {}
    BY <1>3 DEF BaroInv, BusOK, Resting
  <2>2. BusOK'
    BY <1>1, <2>1 DEF BusOK, OnItsWay, NotStarted, Started, Free
  <2>3. <<>> = [i \in 1..Len(<<>>) |-> i]
    OBVIOUS
  <2>4. DataOK'
    BY <1>1, <2>3 DEF DataOK
  <2> QED
    BY <2>2, <2>4
<1> QED
  BY <1>1, <1>2, <1>3

LEMMA WriteBegins ==
  ASSUME BaroInv, at = "top", NEW length \in Nat \ {0}, i2c_write(length)
  PROVE  /\ at' = "byte_sent" /\ left' = length /\ sent' = FALSE /\ SHORTS' = "none" /\ Starting
         /\ UNCHANGED <<read, data, answered, RXD, EVENTS, failed>>
         /\ ~failed => BusOK' /\ DataOK'
<1>1. /\ at' = "byte_sent" /\ left' = length /\ sent' = FALSE /\ SHORTS' = "none"
      /\ Started /\ clash' = (clash \/ ~Free)
      /\ UNCHANGED <<read, data, answered, RXD, EVENTS, failed>>
  BY DEF i2c_write, StartTx, Started
<1>2. Starting
  BY <1>1 DEF Starting, Started, BaroInv, TypeOK, FlagTypes
<1>3. ASSUME ~failed PROVE BusOK' /\ DataOK'
  <2>1. ~clash /\ Free /\ EVENTS = {}
    BY <1>3 DEF BaroInv, BusOK, Resting
  <2>2. BusOK'
    BY <1>1, <2>1 DEF BusOK, OnItsWay, NotStarted, Started, Free
  <2>3. DataOK'
    BY <1>1, <1>3 DEF BaroInv, DataOK
  <2> QED
    BY <2>2, <2>3
<1> QED
  BY <1>1, <1>2, <1>3

\* So does the command of a conversion.
LEMMA CommandBegins ==
  ASSUME BaroInv, at \in {"top", "done"}, ConvertCommand
  PROVE  /\ at' = "command" /\ SHORTS' = "stop" /\ Starting
         /\ UNCHANGED <<flagVars, callVars, answered, RXD, EVENTS, failed>>
         /\ ~failed => BusOK' /\ DataOK'
<1>1. /\ at' = "command" /\ SHORTS' = "stop" /\ Started /\ clash' = (clash \/ ~Free)
      /\ UNCHANGED <<flagVars, callVars, answered, RXD, EVENTS, failed>>
  BY DEF ConvertCommand, StartTx, Started
<1>2. Starting
  BY <1>1 DEF Starting, Started, BaroInv, TypeOK, FlagTypes
<1>3. ASSUME ~failed PROVE BusOK' /\ DataOK'
  <2>1. ~clash /\ Free /\ EVENTS = {}
    BY <1>3 DEF BaroInv, BusOK, Resting
  <2>2. BusOK'
    BY <1>1, <2>1 DEF BusOK, Started, Free
  <2>3. DataOK'
    BY <1>1, <1>3 DEF BaroInv, DataOK, callVars
  <2> QED
    BY <2>2, <2>3
<1> QED
  BY <1>1, <1>2, <1>3

-----------------------------------------------------------------------------
(* The steps of main in read_baro and between the transfers. *)

TwiStays == <<flagVars, callVars, busVars, clash, failed, lost>>

LEMMA MainStep ==
  ASSUME BaroInv, ReadBaro \/ UseMpu \/ MpuDone
  PROVE  BaroInv'
<1> USE DEF BaroInv
<1>t. FlagTypes /\ BusTypes /\ ClockTypes /\ CallOK
  BY DEF TypeOK
<1>a. /\ WAIT \in Nat \ {0} /\ MaxAge \in Nat /\ Word \in Nat \ {0} /\ Wrap \in Nat \ {0}
      /\ BaroLength \in Nat \ {0} /\ \A length \in MpuLengths : length \in Nat \ {0}
  BY TimeAssumption, LengthAssumption
<1>b. Time \in 0..Word - 1
  BY <1>t, <1>a DEF Time, ClockTypes
<1>1. CASE read_baro
  <2>0. at = "top" /\ caller' = "read_baro" /\ UNCHANGED <<timerVars, baroVars>>
    BY <1>1 DEF read_baro
  <2>1. CASE loop_count = 0
    <3>1. ConvertCommand /\ UNCHANGED timeVars
      BY <1>1, <2>1 DEF read_baro
    <3>2. /\ at' = "command" /\ SHORTS' = "stop" /\ Starting
          /\ UNCHANGED <<flagVars, callVars, answered, RXD, EVENTS, failed>>
          /\ ~failed => BusOK' /\ DataOK'
      BY <2>0, <3>1, CommandBegins
    <3>3. TypeOK'
      <4>1. FlagTypes'
        BY <1>t, <2>0, <3>1, <3>2
        DEF FlagTypes, Starting, timerVars, baroVars, timeVars, flagVars, callVars
      <4>2. BusTypes'
        BY <1>t, <2>0, <3>1, <3>2
        DEF BusTypes, Starting, timerVars, baroVars, timeVars, flagVars, callVars
      <4>3. ClockTypes'
        BY <1>t, <2>0, <3>1, <3>2
        DEF ClockTypes, timerVars, baroVars, timeVars, flagVars, callVars
      <4> QED
        BY <4>1, <4>2, <4>3 DEF TypeOK
    <3>4. CallOK'
      BY <2>0, <2>1, <3>2 DEF CallOK, baroVars
    <3> QED
      BY <3>2, <3>3, <3>4
  <2>2. CASE loop_count # 0
    <3>1. /\ CC' = counter /\ torn' = FALSE /\ waited' = age /\ at' = "test"
          /\ UNCHANGED <<TwiStays, age, tornStamp>>
      BY <1>1, <2>2 DEF read_baro, Capture, TwiStays, historyVars
    <3>2. TypeOK'
      <4>1. FlagTypes'
        BY <1>t, <1>a, <2>0, <3>1
        DEF FlagTypes, timerVars, baroVars, TwiStays, flagVars, callVars, busVars
      <4>2. BusTypes'
        BY <1>t, <1>a, <2>0, <3>1
        DEF BusTypes, timerVars, baroVars, TwiStays, flagVars, callVars, busVars
      <4>3. ClockTypes'
        BY <1>t, <1>a, <2>0, <3>1
        DEF ClockTypes, timerVars, baroVars, TwiStays, flagVars, callVars, busVars
      <4> QED
        BY <4>1, <4>2, <4>3 DEF TypeOK
    <3>3. CallOK'
      BY <1>t, <2>0, <2>2, <3>1 DEF CallOK, ClockTypes, baroVars
    <3>4. ~failed => BusOK' /\ DataOK'
      BY <2>0, <3>1 DEF BusOK, DataOK, Resting, Free, TwiStays, flagVars, callVars, busVars
    <3> QED
      BY <3>1, <3>2, <3>3, <3>4 DEF TwiStays
  <2> QED
    BY <2>1, <2>2
<1>2. CASE Test
  <2>0. /\ at = "test" /\ CC' = 0
        /\ UNCHANGED <<timerVars, baroVars, caller, age, waited, torn, tornStamp>>
    BY <1>2 DEF Test, Loaded
  <2>1. CASE at' = "delay" /\ UNCHANGED TwiStays
    <3>1. TypeOK'
      <4>1. FlagTypes'
        BY <1>t, <1>a, <2>0, <2>1
        DEF FlagTypes, CallOK, timerVars, baroVars, TwiStays, flagVars, callVars, busVars
      <4>2. BusTypes'
        BY <1>t, <1>a, <2>0, <2>1
        DEF BusTypes, CallOK, timerVars, baroVars, TwiStays, flagVars, callVars, busVars
      <4>3. ClockTypes'
        BY <1>t, <1>a, <2>0, <2>1
        DEF ClockTypes, CallOK, timerVars, baroVars, TwiStays, flagVars, callVars, busVars
      <4> QED
        BY <4>1, <4>2, <4>3 DEF TypeOK
    <3>2. CallOK'
      BY <1>t, <2>0, <2>1 DEF CallOK
    <3>3. ~failed => BusOK' /\ DataOK'
      BY <2>0, <2>1 DEF BusOK, DataOK, Resting, Free, TwiStays, flagVars, callVars, busVars
    <3> QED
      BY <2>1, <3>1, <3>2, <3>3 DEF TwiStays
  <2>2. CASE i2c_read(BaroLength)
    <3>1. /\ at' = "address_sent" /\ left' = BaroLength /\ data' = <<>> /\ read' = FALSE
          /\ sent' = FALSE /\ SHORTS' = "none" /\ Starting
          /\ UNCHANGED <<answered, RXD, EVENTS, failed>>
          /\ ~failed => BusOK' /\ DataOK'
      BY <1>a, <2>0, <2>2, ReadBegins
    <3>2. TypeOK'
      <4>1. FlagTypes'
        BY <1>t, <1>a, <2>0, <3>1 DEF FlagTypes, Starting, CallOK, timerVars, baroVars
      <4>2. BusTypes'
        BY <1>t, <1>a, <2>0, <3>1 DEF BusTypes, Starting, CallOK, timerVars, baroVars
      <4>3. ClockTypes'
        BY <1>t, <1>a, <2>0, <3>1 DEF ClockTypes, CallOK, timerVars, baroVars
      <4> QED
        BY <4>1, <4>2, <4>3 DEF TypeOK
    <3>3. CallOK'
      BY <1>t, <1>a, <2>0, <3>1 DEF CallOK, baroVars
    <3> QED
      BY <3>1, <3>2, <3>3
  <2> QED
    BY <1>2, <2>1, <2>2 DEF Test, TwiStays, historyVars
<1>3. CASE Converted
  <2>0. /\ at = "done" /\ caller = "read_baro" /\ waited' = -1
        /\ UNCHANGED <<timerVars, initTime, caller, CC, torn, tornStamp>>
    BY <1>3 DEF Converted
  <2>1. CASE loop_count = 1
    <3>1. ConvertCommand /\ UNCHANGED <<loop_count, age>>
      BY <1>3, <2>1 DEF Converted
    <3>2. /\ at' = "command" /\ SHORTS' = "stop" /\ Starting
          /\ UNCHANGED <<flagVars, callVars, answered, RXD, EVENTS, failed>>
          /\ ~failed => BusOK' /\ DataOK'
      BY <2>0, <3>1, CommandBegins
    <3>3. TypeOK'
      <4>1. FlagTypes'
        BY <1>t, <1>a, <2>0, <3>1, <3>2 DEF FlagTypes, Starting, timerVars, flagVars, callVars
      <4>2. BusTypes'
        BY <1>t, <1>a, <2>0, <3>1, <3>2 DEF BusTypes, Starting, timerVars, flagVars, callVars
      <4>3. ClockTypes'
        BY <1>t, <1>a, <2>0, <3>1, <3>2 DEF ClockTypes, timerVars, flagVars, callVars
      <4> QED
        BY <4>1, <4>2, <4>3 DEF TypeOK
    <3>4. CallOK'
      BY <2>0, <2>1, <3>1, <3>2 DEF CallOK
    <3> QED
      BY <3>2, <3>3, <3>4
  <2>2. CASE loop_count # 1
    <3>1. loop_count' = 0 /\ age' = 0 /\ at' = "delay" /\ UNCHANGED TwiStays
      BY <1>3, <2>2 DEF Converted, TwiStays, historyVars
    <3>2. TypeOK'
      <4>1. FlagTypes'
        BY <1>t, <1>a, <2>0, <3>1
        DEF FlagTypes, timerVars, TwiStays, flagVars, callVars, busVars
      <4>2. BusTypes'
        BY <1>t, <1>a, <2>0, <3>1 DEF BusTypes, timerVars, TwiStays, flagVars, callVars, busVars
      <4>3. ClockTypes'
        BY <1>t, <1>a, <2>0, <3>1
        DEF ClockTypes, timerVars, TwiStays, flagVars, callVars, busVars
      <4> QED
        BY <4>1, <4>2, <4>3 DEF TypeOK
    <3>3. CallOK'
      BY <2>0, <3>1 DEF CallOK
    <3>4. ~failed => BusOK' /\ DataOK'
      BY <2>0, <3>1 DEF BusOK, DataOK, Resting, Free, TwiStays, flagVars, callVars, busVars
    <3> QED
      BY <3>1, <3>2, <3>3, <3>4 DEF TwiStays
  <2> QED
    BY <2>1, <2>2
<1>4. CASE Command
  <2>1. /\ at = "command" /\ at' = "stamp" /\ loop_count' = loop_count + 1
        /\ CC' = counter /\ torn' = FALSE /\ age' = 0
        /\ UNCHANGED <<TwiStays, timerVars, initTime, caller, waited, tornStamp>>
    BY <1>4 DEF Command, Capture, TwiStays, historyVars
  <2>2. TypeOK'
    <3>1. FlagTypes'
      BY <1>t, <1>a, <2>1
      DEF FlagTypes, CallOK, timerVars, TwiStays, flagVars, callVars, busVars
    <3>2. BusTypes'
      BY <1>t, <1>a, <2>1 DEF BusTypes, CallOK, timerVars, TwiStays, flagVars, callVars, busVars
    <3>3. ClockTypes'
      BY <1>t, <1>a, <2>1
      DEF ClockTypes, CallOK, timerVars, TwiStays, flagVars, callVars, busVars
    <3> QED
      BY <3>1, <3>2, <3>3 DEF TypeOK
  <2>3. CallOK'
    BY <1>t, <2>1 DEF CallOK
  <2>4. ~failed => BusOK' /\ DataOK'
    BY <2>1 DEF BusOK, DataOK, Free, TwiStays, flagVars, callVars, busVars
  <2> QED
    BY <2>1, <2>2, <2>3, <2>4 DEF TwiStays
<1>5. CASE Stamp
  <2>1. /\ at = "stamp" /\ at' = "delay" /\ initTime' = Time /\ tornStamp' = torn /\ CC' = 0
        /\ UNCHANGED <<TwiStays, timerVars, loop_count, caller, age, waited, torn>>
    BY <1>5 DEF Stamp, Loaded, TwiStays, historyVars
  <2>2. TypeOK'
    <3>1. FlagTypes'
      BY <1>t, <1>a, <1>b, <2>1
      DEF FlagTypes, CallOK, timerVars, TwiStays, flagVars, callVars, busVars
    <3>2. BusTypes'
      BY <1>t, <1>a, <1>b, <2>1
      DEF BusTypes, CallOK, timerVars, TwiStays, flagVars, callVars, busVars
    <3>3. ClockTypes'
      BY <1>t, <1>a, <1>b, <2>1
      DEF ClockTypes, CallOK, timerVars, TwiStays, flagVars, callVars, busVars
    <3> QED
      BY <3>1, <3>2, <3>3 DEF TypeOK
  <2>3. CallOK'
    BY <1>t, <2>1 DEF CallOK
  <2>4. ~failed => BusOK' /\ DataOK'
    BY <2>1 DEF BusOK, DataOK, Free, TwiStays, flagVars, callVars, busVars
  <2> QED
    BY <2>1, <2>2, <2>3, <2>4 DEF TwiStays
<1>6. CASE Delay
  <2>1. /\ at = "delay" /\ at' = "top" /\ caller' = "none" /\ waited' = -1
        /\ bus = "idle" /\ EVENTS = {}
        /\ UNCHANGED <<TwiStays, timerVars, baroVars, CC, age, torn, tornStamp>>
    BY <1>6 DEF Delay, TwiStays, historyVars
  <2>2. TypeOK'
    <3>1. FlagTypes'
      BY <1>t, <1>a, <2>1
      DEF FlagTypes, timerVars, baroVars, TwiStays, flagVars, callVars, busVars
    <3>2. BusTypes'
      BY <1>t, <1>a, <2>1
      DEF BusTypes, timerVars, baroVars, TwiStays, flagVars, callVars, busVars
    <3>3. ClockTypes'
      BY <1>t, <1>a, <2>1
      DEF ClockTypes, timerVars, baroVars, TwiStays, flagVars, callVars, busVars
    <3> QED
      BY <3>1, <3>2, <3>3 DEF TypeOK
  <2>3. CallOK'
    BY <2>1 DEF CallOK
  <2>4. ~failed => BusOK' /\ DataOK'
    BY <2>1 DEF BusOK, DataOK, Resting, Free, TwiStays, flagVars, callVars, busVars
  <2> QED
    BY <2>1, <2>2, <2>3, <2>4 DEF TwiStays
<1>7. CASE UseMpu
  <2>0. at = "top" /\ caller' = "mpu" /\ UNCHANGED <<timerVars, baroVars, timeVars>>
    BY <1>7 DEF UseMpu
  <2>1. PICK length \in MpuLengths : i2c_read(length) \/ i2c_write(length)
    BY <1>7 DEF UseMpu
  <2>2. length \in Nat \ {0}
    BY <1>a, <2>1
  <2>3. CASE i2c_read(length)
    <3>1. /\ at' = "address_sent" /\ left' = length /\ data' = <<>> /\ read' = FALSE
          /\ sent' = FALSE /\ SHORTS' = "none" /\ Starting
          /\ UNCHANGED <<answered, RXD, EVENTS, failed>>
          /\ ~failed => BusOK' /\ DataOK'
      BY <2>0, <2>2, <2>3, ReadBegins
    <3>2. TypeOK'
      <4>1. FlagTypes'
        BY <1>t, <2>0, <2>2, <3>1 DEF FlagTypes, Starting, timerVars, baroVars, timeVars
      <4>2. BusTypes'
        BY <1>t, <2>0, <2>2, <3>1 DEF BusTypes, Starting, timerVars, baroVars, timeVars
      <4>3. ClockTypes'
        BY <1>t, <2>0, <2>2, <3>1 DEF ClockTypes, timerVars, baroVars, timeVars
      <4> QED
        BY <4>1, <4>2, <4>3 DEF TypeOK
    <3>3. CallOK'
      BY <2>0, <2>2, <3>1 DEF CallOK
    <3> QED
      BY <3>1, <3>2, <3>3
  <2>4. CASE i2c_write(length)
    <3>1. /\ at' = "byte_sent" /\ left' = length /\ sent' = FALSE /\ SHORTS' = "none" /\ Starting
          /\ UNCHANGED <<read, data, answered, RXD, EVENTS, failed>>
          /\ ~failed => BusOK' /\ DataOK'
      BY <2>0, <2>2, <2>4, WriteBegins
    <3>2. TypeOK'
      <4>1. FlagTypes'
        BY <1>t, <2>0, <2>2, <3>1 DEF FlagTypes, Starting, timerVars, baroVars, timeVars
      <4>2. BusTypes'
        BY <1>t, <2>0, <2>2, <3>1 DEF BusTypes, Starting, timerVars, baroVars, timeVars
      <4>3. ClockTypes'
        BY <1>t, <2>0, <2>2, <3>1 DEF ClockTypes, timerVars, baroVars, timeVars
      <4> QED
        BY <4>1, <4>2, <4>3 DEF TypeOK
    <3>3. CallOK'
      BY <2>0, <3>1 DEF CallOK
    <3> QED
      BY <3>1, <3>2, <3>3
  <2> QED
    BY <2>1, <2>3, <2>4
<1>8. CASE MpuDone
  <2>1. /\ at = "done" /\ at' = "top" /\ caller' = "none"
        /\ UNCHANGED <<TwiStays, timerVars, baroVars, timeVars>>
    BY <1>8 DEF MpuDone, TwiStays, historyVars
  <2>2. TypeOK'
    <3>1. FlagTypes'
      BY <1>t, <2>1
      DEF FlagTypes, timerVars, baroVars, timeVars, TwiStays, flagVars, callVars, busVars
    <3>2. BusTypes'
      BY <1>t, <2>1
      DEF BusTypes, timerVars, baroVars, timeVars, TwiStays, flagVars, callVars, busVars
    <3>3. ClockTypes'
      BY <1>t, <2>1
      DEF ClockTypes, timerVars, baroVars, timeVars, TwiStays, flagVars, callVars, busVars
    <3> QED
      BY <3>1, <3>2, <3>3 DEF TypeOK
  <2>3. CallOK'
    BY <2>1 DEF CallOK
  <2>4. ~failed => BusOK' /\ DataOK'
    BY <2>1 DEF BusOK, DataOK, Resting, Free, TwiStays, flagVars, callVars, busVars
  <2> QED
    BY <2>1, <2>2, <2>3, <2>4 DEF TwiStays
<1> QED
  BY <1>1, <1>2, <1>3, <1>4, <1>5, <1>6, <1>7, <1>8 DEF ReadBaro

-----------------------------------------------------------------------------
(* The steps of a transfer, of the peripheral and of the handlers. *)

ClockStays == <<timerVars, baroVars, caller, timeVars>>

LEMMA TransferStep ==
  ASSUME BaroInv, OnBus
  PROVE  BaroInv'
<1> USE DEF BaroInv
<1>t. FlagTypes /\ BusTypes /\ ClockTypes /\ CallOK
  BY DEF TypeOK
<1>0. Transfer /\ UNCHANGED ClockStays
  BY DEF OnBus, ClockStays
<1>1. CASE AddressSent
  <2>1. /\ at = "address_sent" /\ sent /\ sent' = FALSE /\ at' = "byte_read"
        /\ SHORTS' = (IF left = 1 THEN "stop" ELSE "suspend") /\ bus' = "rx" /\ answered' = 0
        /\ clash' = (clash \/ bus # "held")
        /\ UNCHANGED <<RXD, EVENTS, failed, lost, read, left, data>>
    BY <1>1 DEF AddressSent, StartRx, callVars
  <2>2. TypeOK'
    <3>1. FlagTypes'
      BY <1>t, <1>0, <2>1
      DEF FlagTypes, ClockStays, timerVars, baroVars, timeVars, CallOK
    <3>2. BusTypes'
      BY <1>t, <1>0, <2>1
      DEF BusTypes, ClockStays, timerVars, baroVars, timeVars, CallOK
    <3>3. ClockTypes'
      BY <1>t, <1>0, <2>1
      DEF ClockTypes, ClockStays, timerVars, baroVars, timeVars, CallOK
    <3> QED
      BY <3>1, <3>2, <3>3 DEF TypeOK
  <2>3. CallOK'
    BY <1>t, <1>0, <2>1 DEF CallOK, ClockStays, baroVars
  <2>4. ASSUME ~failed PROVE BusOK' /\ DataOK'
    <3>1. ~clash /\ bus = "held" /\ EVENTS = {} /\ ~read
      BY <2>1, <2>4 DEF BusOK, OnItsWay, Arrived, NotStarted
    <3>2. BusOK'
      BY <2>1, <3>1 DEF BusOK, OnItsWay
    <3>3. data = <<>> /\ Len(data) = 0
      BY <2>1, <2>4 DEF DataOK
    <3>4. DataOK'
      BY <2>1, <2>4, <3>3 DEF DataOK
    <3> QED
      BY <3>2, <3>4
  <2> QED
    BY <2>1, <2>2, <2>3, <2>4
<1>2. CASE ByteRead
  <2>1. /\ at = "byte_read" /\ read /\ read' = FALSE /\ data' = Append(data, RXD)
        /\ left' = left - 1 /\ SHORTS' = (IF left' = 1 THEN "stop" ELSE SHORTS)
        /\ bus' = (IF bus = "suspended" THEN "rx" ELSE bus)
        /\ clash' = (clash \/ bus \in {"tx", "rx"})
        /\ at' = (IF left' = 0 THEN "done" ELSE "byte_read")
        /\ UNCHANGED <<sent, answered, RXD, EVENTS, failed, lost>>
    BY <1>2 DEF ByteRead, Resume
  <2>2. left \in Nat /\ left > 0 /\ caller # "none"
    BY <1>t, <2>1 DEF CallOK, BusTypes, FlagTypes
  <2>3. TypeOK'
    <3>1. FlagTypes'
      BY <1>t, <1>0, <2>1, <2>2
      DEF FlagTypes, ClockStays, timerVars, baroVars, timeVars
    <3>2. BusTypes'
      BY <1>t, <1>0, <2>1, <2>2
      DEF BusTypes, ClockStays, timerVars, baroVars, timeVars
    <3>3. ClockTypes'
      BY <1>t, <1>0, <2>1, <2>2
      DEF ClockTypes, ClockStays, timerVars, baroVars, timeVars
    <3> QED
      BY <3>1, <3>2, <3>3 DEF TypeOK
  <2>4. CallOK'
    BY <1>t, <1>0, <2>1, <2>2 DEF CallOK, ClockStays, baroVars
  <2>5. ASSUME ~failed PROVE BusOK' /\ DataOK'
    <3>1. /\ ~clash /\ EVENTS = {} /\ SHORTS = (IF left = 1 THEN "stop" ELSE "suspend")
          /\ IF left = 1 THEN bus \in {"idle", "stopping"} ELSE bus = "suspended"
      BY <2>1, <2>5 DEF BusOK, OnItsWay, Arrived, Free
    <3>2. BusOK'
      <4>1. CASE left = 1
        <5>1. left' = 0
          BY <2>1, <4>1
        <5>2. at' = "done"
          BY <2>1, <5>1
        <5>3. bus' = bus /\ Free /\ ~clash' /\ EVENTS' = {}
          BY <2>1, <3>1, <4>1 DEF Free
        <5>4. Resting'
          BY <5>3 DEF Resting, Free
        <5> QED
          BY <5>2, <5>3, <5>4 DEF BusOK
      <4>2. CASE left # 1
        <5>1. left' # 0
          BY <2>1, <2>2, <4>2
        <5>2. at' = "byte_read" /\ bus' = "rx" /\ ~clash' /\ ~read' /\ EVENTS' = {}
          BY <2>1, <3>1, <4>2, <5>1
        <5>3. SHORTS' = (IF left' = 1 THEN "stop" ELSE "suspend")
          BY <2>1, <3>1, <4>2
        <5>4. OnItsWay("rx", read)'
          BY <5>2 DEF OnItsWay
        <5> QED
          BY <5>2, <5>3, <5>4 DEF BusOK
      <4> QED
        BY <4>1, <4>2
    <3>3. /\ data = [i \in 1..Len(data) |-> i] /\ answered = Len(data) + 1 /\ RXD = answered
      BY <2>1, <2>5, <3>1 DEF DataOK
    <3>4. /\ data \in Seq(Nat) /\ RXD \in Nat
      BY <1>t DEF BusTypes
    <3>5. /\ Len(data') = Len(data) + 1 /\ data' = [i \in 1..Len(data') |-> i]
      BY <2>1, <3>3, <3>4
    <3>6. answered' = Len(data') /\ bus' # "suspended" /\ at' # "address_sent"
      BY <2>1, <3>1, <3>3, <3>5
    <3>7. at' = "byte_read" => bus' = "rx"
      BY <2>1, <2>2, <3>1
    <3>8. DataOK'
      BY <3>5, <3>6, <3>7 DEF DataOK
    <3> QED
      BY <3>2, <3>8
  <2> QED
    BY <2>1, <2>3, <2>4, <2>5
<1>3. CASE ByteSent
  <2>1. /\ at = "byte_sent" /\ sent /\ sent' = FALSE
        /\ UNCHANGED <<read, data, SHORTS, answered, RXD, EVENTS, failed, lost>>
        /\ \/ /\ left > 0 /\ left' = left - 1 /\ at' = at /\ bus' = "tx"
              /\ clash' = (clash \/ bus # "held")
           \/ /\ at' = "done" /\ bus' = "stopping" /\ left' = left
              /\ clash' = (clash \/ bus # "held")
    BY <1>3 DEF ByteSent, NextTx, Stop
  <2>2. caller = "mpu" /\ caller' = "mpu"
    BY <1>t, <1>0, <2>1 DEF CallOK, ClockStays
  <2>3. TypeOK'
    <3>1. FlagTypes'
      BY <1>t, <1>0, <2>1, <2>2
      DEF FlagTypes, ClockStays, timerVars, baroVars, timeVars
    <3>2. BusTypes'
      BY <1>t, <1>0, <2>1, <2>2
      DEF BusTypes, ClockStays, timerVars, baroVars, timeVars
    <3>3. ClockTypes'
      BY <1>t, <1>0, <2>1, <2>2
      DEF ClockTypes, ClockStays, timerVars, baroVars, timeVars
    <3> QED
      BY <3>1, <3>2, <3>3 DEF TypeOK
  <2>4. CallOK'
    BY <2>1, <2>2 DEF CallOK
  <2>5. ASSUME ~failed PROVE BusOK' /\ DataOK'
    <3>1. ~clash /\ bus = "held" /\ EVENTS = {} /\ SHORTS = "none"
      BY <2>1, <2>5 DEF BusOK, OnItsWay, Arrived, NotStarted
    <3>2. DataOK'
      BY <2>1, <2>5 DEF DataOK
    <3>3. CASE at' = at /\ bus' = "tx" /\ clash' = (clash \/ bus # "held")
      <4>1. ~clash'
        BY <3>1, <3>3
      <4>2. ~sent'
        BY <2>1
      <4>3. EVENTS' = {} /\ SHORTS' = "none" /\ at' = "byte_sent"
        BY <2>1, <3>1, <3>3
      <4> QED
        BY <3>2, <3>3, <4>1, <4>2, <4>3 DEF BusOK, OnItsWay
    <3>4. CASE at' = "done" /\ bus' = "stopping" /\ clash' = (clash \/ bus # "held")
      BY <2>1, <3>1, <3>2, <3>4 DEF BusOK, Resting, Free
    <3> QED
      BY <2>1, <3>3, <3>4
  <2> QED
    BY <2>1, <2>3, <2>4, <2>5
<1> QED
  BY <1>0, <1>1, <1>2, <1>3 DEF Transfer

LEMMA WireStep ==
  ASSUME BaroInv, Wire \/ Silence \/ TwiIrq
  PROVE  BaroInv'
<1> USE DEF BaroInv
<1>t. FlagTypes /\ BusTypes /\ ClockTypes /\ CallOK
  BY DEF TypeOK
<1>0. UNCHANGED ClockStays
  BY DEF Wire, Silence, TwiIrq, ClockStays
<1>1. CASE Wire /\ SendByte
  <2>1. /\ bus = "tx" /\ bus' = (IF SHORTS = "stop" THEN "stopping" ELSE "held")
        /\ EVENTS' = EVENTS \cup {"TXDSENT"}
        /\ UNCHANGED <<flagVars, at, callVars, SHORTS, answered, RXD, clash, failed, lost>>
    BY <1>1 DEF SendByte, historyVars
  <2>2. TypeOK'
    <3>1. FlagTypes'
      BY <1>t, <1>0, <2>1
      DEF FlagTypes, ClockStays, timerVars, baroVars, timeVars, flagVars, callVars
    <3>2. BusTypes'
      BY <1>t, <1>0, <2>1
      DEF BusTypes, ClockStays, timerVars, baroVars, timeVars, flagVars, callVars
    <3>3. ClockTypes'
      BY <1>t, <1>0, <2>1
      DEF ClockTypes, ClockStays, timerVars, baroVars, timeVars, flagVars, callVars
    <3> QED
      BY <3>1, <3>2, <3>3 DEF TypeOK
  <2>3. CallOK'
    BY <1>t, <1>0, <2>1 DEF CallOK, ClockStays, baroVars, callVars
  <2>4. ASSUME ~failed PROVE BusOK' /\ DataOK'
    <3>1. /\ ~clash /\ at \notin {"top", "test", "done", "byte_read"}
          /\ at \in {"command", "stamp", "delay"} => SHORTS = "stop" /\ EVENTS \subseteq {"TXDSENT"}
          /\ at \in {"address_sent", "byte_sent"} => SHORTS = "none" /\ ~sent /\ EVENTS = {}
      BY <2>1, <2>4 DEF BusOK, Resting, OnItsWay, Arrived, NotStarted, Free
    <3>2. EVENTS = {} => EVENTS' = {"TXDSENT"}
      BY <2>1
    <3>3. EVENTS \subseteq {"TXDSENT"} => EVENTS' \subseteq {"TXDSENT"}
      BY <2>1
    <3>4. BusOK'
      BY <2>1, <2>4, <3>1, <3>2, <3>3 DEF BusOK, Arrived, Free, flagVars
    <3>5. DataOK'
      BY <2>1, <2>4, <3>1 DEF DataOK, callVars
    <3> QED
      BY <3>4, <3>5
  <2> QED
    BY <2>1, <2>2, <2>3, <2>4
<1>2. CASE Wire /\ ReceiveByte
  <2>1. /\ bus = "rx" /\ answered' = answered + 1 /\ RXD' = answered'
        /\ EVENTS' = EVENTS \cup {"RXDREADY"}
        /\ bus' \in {"stopping", "suspended", "rx"}
        /\ SHORTS = "stop" => bus' = "stopping"
        /\ SHORTS = "suspend" => bus' = "suspended"
        /\ UNCHANGED <<flagVars, at, callVars, SHORTS, clash, failed, lost>>
    BY <1>2 DEF ReceiveByte, historyVars
  <2>2. TypeOK'
    <3>1. FlagTypes'
      BY <1>t, <1>0, <2>1
      DEF FlagTypes, ClockStays, timerVars, baroVars, timeVars, flagVars, callVars
    <3>2. BusTypes'
      BY <1>t, <1>0, <2>1
      DEF BusTypes, ClockStays, timerVars, baroVars, timeVars, flagVars, callVars
    <3>3. ClockTypes'
      BY <1>t, <1>0, <2>1
      DEF ClockTypes, ClockStays, timerVars, baroVars, timeVars, flagVars, callVars
    <3> QED
      BY <3>1, <3>2, <3>3 DEF TypeOK
  <2>3. CallOK'
    BY <1>t, <1>0, <2>1 DEF CallOK, ClockStays, baroVars, callVars
  <2>4. ASSUME ~failed PROVE BusOK' /\ DataOK'
    <3>1. at \in {"top", "command", "stamp", "test", "delay", "done",
                  "address_sent", "byte_read", "byte_sent"}
      BY <1>t DEF FlagTypes
    <3>2. at = "byte_read"
      BY <2>1, <2>4, <3>1 DEF BusOK, Resting, OnItsWay, Arrived, NotStarted, Free
    <3>3. /\ ~clash /\ ~read /\ EVENTS = {}
          /\ SHORTS = (IF left = 1 THEN "stop" ELSE "suspend")
      BY <2>1, <2>4, <3>2 DEF BusOK, OnItsWay, Arrived, Free
    <3>4. EVENTS' = {"RXDREADY"}
      BY <2>1, <3>3
    <3>5. BusOK'
      BY <2>1, <3>2, <3>3, <3>4 DEF BusOK, Arrived, Free, flagVars, callVars
    <3>6. DataOK'
      BY <2>1, <2>4, <3>2, <3>3 DEF DataOK, callVars
    <3> QED
      BY <3>5, <3>6
  <2> QED
    BY <2>1, <2>2, <2>3, <2>4
<1>5. CASE Wire /\ Stopped
  <2>1. /\ bus = "stopping" /\ bus' = "idle"
        /\ UNCHANGED <<flagVars, at, callVars, SHORTS, answered, RXD, EVENTS, clash, failed, lost>>
    BY <1>5 DEF Stopped, historyVars
  <2>2. TypeOK'
    <3>1. FlagTypes'
      BY <1>t, <1>0, <2>1
      DEF FlagTypes, ClockStays, timerVars, baroVars, timeVars, flagVars, callVars
    <3>2. BusTypes'
      BY <1>t, <1>0, <2>1
      DEF BusTypes, ClockStays, timerVars, baroVars, timeVars, flagVars, callVars
    <3>3. ClockTypes'
      BY <1>t, <1>0, <2>1
      DEF ClockTypes, ClockStays, timerVars, baroVars, timeVars, flagVars, callVars
    <3> QED
      BY <3>1, <3>2, <3>3 DEF TypeOK
  <2>3. CallOK'
    BY <1>t, <1>0, <2>1 DEF CallOK, ClockStays, baroVars, callVars
  <2>4. ASSUME ~failed PROVE BusOK' /\ DataOK'
    <3>1. Free /\ Free'
      BY <2>1 DEF Free
    <3>2. BusOK'
      BY <2>1, <2>4, <3>1
      DEF BusOK, Resting, OnItsWay, Arrived, NotStarted, flagVars, callVars
    <3>3. DataOK'
      BY <2>1, <2>4 DEF DataOK, flagVars, callVars
    <3> QED
      BY <3>2, <3>3
  <2> QED
    BY <2>1, <2>2, <2>3, <2>4
<1>3. CASE Silence
  <2>1. /\ bus' = "idle" /\ failed' = TRUE
        /\ UNCHANGED <<flagVars, at, callVars, SHORTS, answered, RXD, EVENTS, clash, lost>>
    BY <1>3 DEF Silence, NoAnswer
  <2>2. TypeOK'
    <3>1. FlagTypes'
      BY <1>t, <1>0, <2>1
      DEF FlagTypes, ClockStays, timerVars, baroVars, timeVars, flagVars, callVars
    <3>2. BusTypes'
      BY <1>t, <1>0, <2>1
      DEF BusTypes, ClockStays, timerVars, baroVars, timeVars, flagVars, callVars
    <3>3. ClockTypes'
      BY <1>t, <1>0, <2>1
      DEF ClockTypes, ClockStays, timerVars, baroVars, timeVars, flagVars, callVars
    <3> QED
      BY <3>1, <3>2, <3>3 DEF TypeOK
  <2>3. CallOK'
    BY <1>t, <1>0, <2>1 DEF CallOK, ClockStays, baroVars, callVars
  <2> QED
    BY <2>1, <2>2, <2>3
<1>4. CASE TwiIrq
  <2>1. /\ EVENTS # {} /\ EVENTS' = {}
        /\ read' = (read \/ "RXDREADY" \in EVENTS)
        /\ sent' = (sent \/ "TXDSENT" \in EVENTS)
        /\ UNCHANGED <<at, callVars, SHORTS, bus, answered, RXD, clash, failed, lost>>
    BY <1>4 DEF TwiIrq, SPI0_TWI0_IRQHandler, historyVars
  <2>2. TypeOK'
    <3>1. FlagTypes'
      BY <1>t, <1>0, <2>1
      DEF FlagTypes, ClockStays, timerVars, baroVars, timeVars, callVars
    <3>2. BusTypes'
      BY <1>t, <1>0, <2>1
      DEF BusTypes, ClockStays, timerVars, baroVars, timeVars, callVars
    <3>3. ClockTypes'
      BY <1>t, <1>0, <2>1
      DEF ClockTypes, ClockStays, timerVars, baroVars, timeVars, callVars
    <3> QED
      BY <3>1, <3>2, <3>3 DEF TypeOK
  <2>3. CallOK'
    BY <1>t, <1>0, <2>1 DEF CallOK, ClockStays, baroVars, callVars
  <2> DEFINE ByteThere == IF left = 1 THEN Free ELSE bus = "suspended"
  <2>4. ASSUME ~failed PROVE BusOK' /\ DataOK'
    <3>1. /\ ~clash /\ at \notin {"top", "test", "done"}
          /\ at \in {"address_sent", "byte_sent"} =>
               bus = "held" /\ EVENTS = {"TXDSENT"} /\ SHORTS = "none"
          /\ at = "byte_read" => ByteThere /\ EVENTS = {"RXDREADY"}
      <4>1. ~clash /\ at \notin {"top", "test", "done"}
        BY <2>1, <2>4 DEF BusOK, Resting
      <4>2. ASSUME at \in {"address_sent", "byte_sent"}
            PROVE  bus = "held" /\ EVENTS = {"TXDSENT"} /\ SHORTS = "none"
        <5>1. SHORTS = "none" /\ bus = "held" /\ Arrived(sent, "TXDSENT")
          BY <2>1, <2>4, <4>2 DEF BusOK, OnItsWay, NotStarted
        <5> QED
          BY <2>1, <5>1 DEF Arrived
      <4>3. ASSUME at = "byte_read"
            PROVE  ByteThere /\ EVENTS = {"RXDREADY"}
        <5>1. ByteThere /\ Arrived(read, "RXDREADY")
          BY <2>1, <2>4, <4>3 DEF BusOK, OnItsWay
        <5> QED
          BY <2>1, <5>1 DEF Arrived
      <4> QED
        BY <4>1, <4>2, <4>3
    <3>2. ASSUME at = "address_sent" PROVE ~read'
      <4>1. ~read
        BY <2>4, <3>2 DEF BusOK
      <4>2. "RXDREADY" \notin EVENTS
        BY <3>1, <3>2
      <4> QED
        BY <2>1, <4>1, <4>2
    <3>3. at \in {"address_sent", "byte_sent"} => sent'
      BY <2>1, <3>1
    <3>4. at = "byte_read" => read'
      BY <2>1, <3>1
    <3>5. BusOK'
      BY <2>1, <2>4, <3>1, <3>2, <3>3, <3>4 DEF BusOK, Arrived, Free, callVars
    <3>6. DataOK'
      BY <2>1, <2>4 DEF DataOK, callVars
    <3> QED
      BY <3>5, <3>6
  <2> QED
    BY <2>1, <2>2, <2>3, <2>4
<1> QED
  BY <1>1, <1>2, <1>3, <1>4, <1>5 DEF Wire, Bus

\* The timer leaves the bus and main alone.
LEMMA TimerStep ==
  ASSUME BaroInv, Tick \/ Overflow \/ UNCHANGED vars
  PROVE  BaroInv'
<1> USE DEF BaroInv
<1>t. FlagTypes /\ BusTypes /\ ClockTypes /\ CallOK
  BY DEF TypeOK
<1>a. MaxAge \in Nat /\ Word \in Nat \ {0} /\ Wrap \in Nat \ {0}
  BY TimeAssumption
<1>1. /\ UNCHANGED <<twiVars, baroVars, caller, CC, waited, tornStamp>>
      /\ COMPARE' \in BOOLEAN /\ torn' \in BOOLEAN
  BY <1>t DEF Tick, Overflow, vars, timerVars, timeVars, FlagTypes
<1>2. counter' \in 0..Wrap - 1
  BY <1>t, <1>a DEF Tick, Overflow, vars, timerVars, ClockTypes
<1>3. global_time' \in 0..Word - 1
  BY <1>t, <1>a DEF Tick, Overflow, vars, timerVars, ClockTypes
<1>4. age' \in 0..MaxAge
  BY <1>t, <1>a DEF Tick, Overflow, vars, timeVars, ClockTypes
<1>5. TypeOK'
  <2>1. FlagTypes'
    BY <1>t, <1>1 DEF FlagTypes, twiVars, flagVars, historyVars
  <2>2. BusTypes'
    BY <1>t, <1>1 DEF BusTypes, twiVars, callVars, busVars
  <2>3. ClockTypes'
    BY <1>t, <1>1, <1>2, <1>3, <1>4 DEF ClockTypes, baroVars
  <2> QED
    BY <2>1, <2>2, <2>3 DEF TypeOK
<1>6. CallOK'
  BY <1>t, <1>1 DEF CallOK, twiVars, callVars, baroVars
<1>7. ~failed => BusOK' /\ DataOK'
  BY <1>1 DEF BusOK, DataOK, Resting, OnItsWay, Arrived, NotStarted, Free, twiVars, flagVars, callVars, busVars, historyVars
<1> QED
  BY <1>1, <1>5, <1>6, <1>7 DEF twiVars, historyVars

LEMMA NextBaro == BaroInv /\ [Next]_vars => BaroInv'
  BY MainStep, TransferStep, WireStep, TimerStep DEF Next

-----------------------------------------------------------------------------
(* The theorems. *)

\* The flags, the bus, the clock and the conversion keep their types, for any transfers and any
\* timer (drivers/twi.c, baro.c, timers.c): the cycle of a conversion closes.
THEOREM TypeCorrect == Spec => []TypeOK
<1>1. BaroInv => TypeOK
  BY DEF BaroInv
<1> QED
  BY InitBaro, NextBaro, <1>1, PTL DEF Spec

\* i2c_read (drivers/twi.c) returns the device's answer from its first byte to the last one asked
\* for, whatever its length and whenever the handler runs, and neither it nor read_baro's command
\* triggers a task while a byte is on the line, although the driver does not wait for the STOP
\* condition: if the peripheral loses a start that comes before it, the call does not return.
THEOREM TransfersAreWhole == Spec => []TransfersWhole
<1>1. BaroInv => TransfersWhole
  <2> SUFFICES ASSUME BaroInv, ~failed PROVE TransfersWhole
    BY DEF TransfersWhole
  <2>1. BusOK /\ DataOK
    BY DEF BaroInv
  <2> QED
    BY <2>1 DEF BusOK, DataOK, Resting, TransfersWhole
<1> QED
  BY InitBaro, NextBaro, <1>1, PTL DEF Spec

-----------------------------------------------------------------------------
(* The clock of get_time_us. *)

\* Ticks that the counter has come round for and TIMER2_IRQHandler has yet to add.
Unadded == IF COMPARE /\ counter # Wrap - 1 THEN Wrap - 1 ELSE 0
Clock   == global_time + counter + Unadded

\* The same time in a word.
SameTime(a, b) == a - b \in {-Word, 0, Word}

\* Most ticks the clock shows between a stamp and a test.
Shown == 0..MaxAge + Latency

\* What the clock shows of a conversion: every tick, all but the one it does not count when the
\* counter comes round, or a whole round and more.
ShowsAge(e) ==
  /\ e = age \/ (age = e + 1 /\ e >= counter) \/ e >= Wrap - 1
  /\ age < MaxAge => e <= age
  /\ COMPARE => e <= MaxAge + (IF counter = Wrap - 1 THEN 0 ELSE counter)

\* initTime, or at "stamp" what it will be; and whether it is a time the clock had.
StampTime  == IF at = "stamp" THEN global_time + CC ELSE initTime
StampWhole == IF at = "stamp" THEN ~torn ELSE ~tornStamp

TimerOK ==
  /\ COMPARE => counter = Wrap - 1 \/ counter <= Latency
  /\ counter = Wrap - 1 => COMPARE

\* The clock counts the ticks of a conversion.
AgeOK ==
  loop_count > 0 /\ ~Stuck /\ StampWhole =>
    \E e \in Shown : SameTime(Clock, StampTime + e) /\ ShowsAge(e)

\* The two reads of a test give what the clock showed at the first, or a round more.
ShowsWaited(e) ==
  /\ e = waited \/ waited = e + 1 \/ e >= Wrap - 1
  /\ waited < MaxAge => e <= waited

Extra == IF torn THEN Wrap - 1 ELSE 0

TestOK ==
  at = "test" /\ ~tornStamp =>
    \E e \in Shown : SameTime(global_time + CC, initTime + e + Extra) /\ ShowsWaited(e)

WaitedOK ==
  /\ at = "test" =>
       /\ waited \in 0..age
       /\ COMPARE \/ torn => waited < MaxAge
       /\ torn => ~COMPARE
  /\ waited >= 0 => caller = "read_baro" /\ at \in {"test", "delay", "address_sent", "byte_read",
                                                    "done"}

ClockInv == TimerOK /\ AgeOK /\ TestOK /\ WaitedOK /\ WaitsItsTime

\* Remainders of numbers that are at most a word off.
LEMMA Remainders ==
  ASSUME NEW width \in Nat \ {0}, NEW number \in Int
  PROVE  /\ number \in 0..width - 1 => number % width = number
         /\ number \in width..2 * width - 1 => number % width = number - width
         /\ number \in -width..-1 => number % width = number + width
<1>1. number \in 0..width - 1 => number % width = number
  OBVIOUS
<1>2. number \in width..2 * width - 1 => number % width = number - width
  OBVIOUS
<1>3. number \in -width..-1 => number % width = number + width
  OBVIOUS
<1> QED  BY <1>1, <1>2, <1>3

\* What the proofs need of the constants and the types.
LEMMA ClockSizes ==
  ASSUME BaroInv
  PROVE  /\ Wrap \in Nat /\ WAIT \in Nat \ {0} /\ Latency \in Nat /\ MaxAge \in Nat
         /\ Word \in Nat \ {0} /\ WAIT + 1 < Wrap /\ Latency + 1 < Wrap /\ Wrap + WAIT < MaxAge
         /\ Wrap + MaxAge < Word
         /\ counter \in 0..Wrap - 1 /\ CC \in 0..Wrap - 1
         /\ global_time \in 0..Word - 1 /\ initTime \in 0..Word - 1
         /\ loop_count \in 0..2
         /\ age \in 0..MaxAge /\ waited \in -1..MaxAge
         /\ COMPARE \in BOOLEAN /\ torn \in BOOLEAN /\ tornStamp \in BOOLEAN
  BY TimeAssumption DEF BaroInv, TypeOK, ClockTypes, FlagTypes

\* Main that waits for a flag no event sets any more stays there.
LEMMA StuckStays == BaroInv /\ Stuck /\ [Next]_vars => Stuck' /\ UNCHANGED <<at, caller>>
<1> SUFFICES ASSUME BaroInv, Stuck, [Next]_vars PROVE Stuck' /\ UNCHANGED <<at, caller>>
  OBVIOUS
<1> USE DEF Stuck
<1>0. at \in {"address_sent", "byte_sent", "byte_read"} /\ bus = "idle" /\ EVENTS = {}
  OBVIOUS
<1>1. ~ReadBaro
  BY <1>0 DEF ReadBaro, read_baro, Test, Converted, Command, Stamp, Delay
<1>2. ~UseMpu /\ ~MpuDone
  BY <1>0 DEF UseMpu, MpuDone
<1>3. ~OnBus
  BY DEF OnBus, Transfer, AddressSent, ByteRead, ByteSent
<1>4. ~Wire /\ ~Silence /\ ~TwiIrq
  BY <1>0 DEF Wire, Bus, SendByte, ReceiveByte, Stopped, Silence, NoAnswer, TwiIrq,
                SPI0_TWI0_IRQHandler
<1>5. CASE Tick \/ Overflow \/ UNCHANGED vars
  BY <1>5 DEF Tick, Overflow, vars, twiVars, busVars, flagVars
<1> QED  BY <1>1, <1>2, <1>3, <1>4, <1>5 DEF Next

\* A tick moves the clock by one, but for the one tick of each round that it does not count.
LEMMA TickClock ==
  ASSUME BaroInv, ClockInv, Tick
  PROVE  ClockInv'
<1> USE ClockSizes
<1>1. /\ UNCHANGED <<at, caller, global_time, initTime, loop_count, CC, waited, torn, tornStamp>>
      /\ UNCHANGED <<bus, EVENTS, sent, read>>
  BY DEF Tick, twiVars, busVars, flagVars, baroVars
<1>2. /\ COMPARE => counter # Latency
      /\ age < MaxAge \/ COMPARE \/ Stuck
      /\ counter' = IF counter = Wrap - 1 THEN 0 ELSE counter + 1
      /\ COMPARE' = (COMPARE \/ counter' = Wrap - 1)
  <2>1. counter' = (counter + 1) % Wrap
    BY DEF Tick
  <2>2. counter = Wrap - 1 => (counter + 1) % Wrap = 0
    <3>1. Wrap \in Nat \ {0} /\ Wrap \in Wrap..2 * Wrap - 1  OBVIOUS
    <3>2. Wrap % Wrap = 0  BY <3>1, Remainders
    <3> QED  BY <3>2
  <2>3. counter # Wrap - 1 => (counter + 1) % Wrap = counter + 1
    <3>1. counter # Wrap - 1 => counter + 1 \in 0..Wrap - 1  OBVIOUS
    <3> QED  BY <3>1, Remainders
  <2> QED  BY <2>1, <2>2, <2>3 DEF Tick
<1>3. loop_count > 0 => age' = IF age = MaxAge THEN age ELSE age + 1
  BY DEF Tick
<1>4. age' \in 0..MaxAge /\ age' >= age
  BY DEF Tick
<1>5. TimerOK /\ AgeOK /\ TestOK /\ WaitedOK /\ WaitsItsTime
  BY DEF ClockInv
<1>6. TimerOK'
  <2>1. COMPARE' => counter' = Wrap - 1 \/ counter' <= Latency
    <3>1. CASE COMPARE
      <4>1. counter = Wrap - 1 \/ counter <= Latency  BY <1>5, <3>1 DEF TimerOK
      <4> QED  BY <1>2, <3>1, <4>1
    <3>2. CASE ~COMPARE  BY <1>2, <3>2
    <3> QED  BY <3>1, <3>2
  <2>2. counter' = Wrap - 1 => COMPARE'  BY <1>2
  <2> QED  BY <2>1, <2>2 DEF TimerOK
<1>7. AgeOK'
  <2> SUFFICES ASSUME loop_count > 0, ~Stuck, StampWhole
               PROVE  \E e \in Shown : SameTime(Clock, StampTime + e)' /\ ShowsAge(e)'
    BY <1>1 DEF AgeOK, Stuck, StampWhole
  <2>1. PICK e \in Shown : SameTime(Clock, StampTime + e) /\ ShowsAge(e)
    BY <1>5 DEF AgeOK
  <2>2. StampTime' = StampTime
    BY <1>1 DEF StampTime
  <2>3. e \in 0..MaxAge + Latency  BY <2>1 DEF Shown
  <2>4. StampTime \in Int  BY DEF StampTime
  <2>5. CASE counter = Wrap - 1
    <3>1. counter' = 0 /\ COMPARE /\ COMPARE'
      BY <1>2, <1>5, <2>5 DEF TimerOK
    <3>2. Clock' = Clock
      BY <1>1, <2>5, <3>1 DEF Clock, Unadded
    <3>3. ShowsAge(e)'
      BY <1>3, <2>1, <2>3, <2>5, <3>1 DEF ShowsAge
    <3> QED  BY <2>1, <2>2, <3>2, <3>3 DEF SameTime
  <2>6. CASE counter # Wrap - 1
    <3>1. counter' = counter + 1
      BY <1>2, <2>6
    <3>2. COMPARE => counter < Latency
      BY <1>2, <1>5, <2>6 DEF TimerOK
    <3>3. Clock' = Clock + 1
      BY <1>1, <1>2, <2>6, <3>1, <3>2 DEF Clock, Unadded
    <3>4. ~COMPARE => age < MaxAge
      BY <1>2
    <3>5. e + 1 \in Shown
      BY <2>1, <2>3, <2>6, <3>2, <3>4 DEF Shown, ShowsAge
    <3>6. ShowsAge(e + 1)'
      <4>1. e + 1 = age' \/ (age' = (e + 1) + 1 /\ e + 1 >= counter') \/ e + 1 >= Wrap - 1
        BY <1>3, <2>1, <2>3, <3>1 DEF ShowsAge
      <4>2. age' < MaxAge => e + 1 <= age'
        BY <1>3, <2>1, <2>3 DEF ShowsAge
      <4>3. COMPARE' => e + 1 <= MaxAge + (IF counter' = Wrap - 1 THEN 0 ELSE counter')
        BY <1>2, <2>1, <2>3, <2>6, <3>1, <3>2, <3>4 DEF ShowsAge
      <4> QED  BY <4>1, <4>2, <4>3 DEF ShowsAge
    <3>7. SameTime(Clock, StampTime + (e + 1))'
      <4>1. Clock \in Int  BY DEF Clock, Unadded
      <4>2. Clock' - (StampTime + (e + 1)) = Clock - (StampTime + e)
        BY <2>3, <2>4, <3>3, <4>1
      <4> QED  BY <2>1, <2>2, <4>2 DEF SameTime
    <3> QED  BY <3>5, <3>6, <3>7
  <2> QED  BY <2>5, <2>6
<1>8. TestOK'
  BY <1>1, <1>5 DEF TestOK, SameTime, ShowsWaited, Extra
<1>9. WaitedOK'
  <2>1. at = "test" => waited' \in 0..age'
    BY <1>1, <1>4, <1>5 DEF WaitedOK
  <2>2. at = "test" /\ COMPARE' /\ ~COMPARE => waited < MaxAge
    <3>1. at = "test" => ~Stuck
      BY DEF Stuck
    <3> QED  BY <1>2, <1>5, <3>1 DEF WaitedOK
  <2>3. at = "test" /\ torn => ~COMPARE'
    <3>1. at = "test" /\ torn => ~COMPARE /\ counter # Wrap - 2
      BY <1>5 DEF WaitedOK, Tick
    <3>2. ~COMPARE => counter # Wrap - 1
      BY <1>5 DEF TimerOK
    <3> QED  BY <1>2, <3>1, <3>2
  <2> QED  BY <1>1, <1>5, <2>1, <2>2, <2>3 DEF WaitedOK
<1>10. WaitsItsTime'
  BY <1>1, <1>5 DEF WaitsItsTime
<1> QED  BY <1>6, <1>7, <1>8, <1>9, <1>10 DEF ClockInv

\* TIMER2_IRQHandler adds what the clock already counts, and tears a get_time_us that has begun.
LEMMA OverflowClock ==
  ASSUME BaroInv, ClockInv, Overflow
  PROVE  ClockInv'
<1> USE ClockSizes
<1>1. /\ UNCHANGED <<at, caller, counter, initTime, loop_count, CC, age, waited, tornStamp>>
      /\ UNCHANGED <<bus, EVENTS, sent, read>>
      /\ COMPARE /\ counter # Wrap - 1 /\ COMPARE' = FALSE
      /\ torn' = (torn \/ at \in {"stamp", "test"})
  BY DEF Overflow, twiVars, busVars, flagVars, baroVars
<1>2. \/ global_time' = global_time + (Wrap - 1)
      \/ global_time' = global_time + (Wrap - 1) - Word
  <2>1. global_time' = (global_time + (Wrap - 1)) % Word
    BY DEF Overflow
  <2> DEFINE sum == global_time + (Wrap - 1)
  <2>2. sum \in Int /\ sum \in 0..2 * Word - 1
    OBVIOUS
  <2> HIDE DEF sum
  <2>3. sum % Word = sum \/ sum % Word = sum - Word
    <3>1. sum \in 0..Word - 1 \/ sum \in Word..2 * Word - 1
      BY <2>2
    <3> QED  BY <2>2, <3>1, Remainders
  <2> QED  BY <2>1, <2>3 DEF sum
<1>3. global_time' \in 0..Word - 1
  BY DEF Overflow
<1>5. TimerOK /\ AgeOK /\ TestOK /\ WaitedOK /\ WaitsItsTime
  BY DEF ClockInv
<1>6. TimerOK'
  BY <1>1 DEF TimerOK
<1>7. AgeOK'
  <2> SUFFICES ASSUME loop_count > 0, ~Stuck, StampWhole'
               PROVE  \E e \in Shown : SameTime(Clock, StampTime + e)' /\ ShowsAge(e)'
    BY <1>1 DEF AgeOK, Stuck
  <2>1. at # "stamp" /\ StampWhole
    BY <1>1 DEF StampWhole
  <2>2. PICK e \in Shown : SameTime(Clock, StampTime + e) /\ ShowsAge(e)
    BY <1>5, <2>1 DEF AgeOK
  <2>3. StampTime = initTime /\ StampTime' = initTime
    BY <1>1, <2>1 DEF StampTime
  <2>4. e \in 0..MaxAge + Latency  BY <2>2 DEF Shown
  <2>5. Clock = global_time + counter + (Wrap - 1) /\ Clock' = global_time' + counter
    BY <1>1, <1>3 DEF Clock, Unadded
  <2>6. SameTime(Clock, StampTime + e)'
    <3>1. Clock - (initTime + e) \in {-Word, 0, Word}
      BY <2>2, <2>3 DEF SameTime
    <3>2. Clock' = Clock \/ Clock' = Clock - Word
      BY <1>2, <2>5
    <3>3. Clock' >= 0 /\ initTime + e < 2 * Word
      BY <1>3, <2>4, <2>5
    <3>4. Clock' - (initTime + e) \in {-Word, 0, Word}
      BY <1>3, <2>4, <2>5, <3>1, <3>2, <3>3
    <3> QED  BY <2>3, <3>4 DEF SameTime
  <2>7. ShowsAge(e)'
    BY <1>1, <2>2 DEF ShowsAge
  <2> QED  BY <2>2, <2>6, <2>7
<1>8. TestOK'
  <2> SUFFICES ASSUME at = "test", ~tornStamp
               PROVE  \E e \in Shown :
                        SameTime(global_time + CC, initTime + e + Extra)' /\ ShowsWaited(e)'
    BY <1>1 DEF TestOK
  <2>1. ~torn /\ torn' /\ waited < MaxAge
    BY <1>1, <1>5 DEF WaitedOK
  <2>2. PICK e \in Shown : SameTime(global_time + CC, initTime + e + 0) /\ ShowsWaited(e)
    BY <1>5, <2>1 DEF TestOK, Extra
  <2>3. e \in Int /\ e >= 0 /\ e <= waited
    BY <2>1, <2>2 DEF Shown, ShowsWaited
  <2>4. (global_time' + CC) - (initTime + e + (Wrap - 1)) \in {-Word, 0, Word}
    <3>1. (global_time + CC) - (initTime + e) \in {-Word, 0, Word}
      BY <2>2, <2>3 DEF SameTime
    <3>2. initTime + e + (Wrap - 1) < 2 * Word
      BY <2>1, <2>3
    <3> DEFINE new == (global_time' + CC) - (initTime + e + (Wrap - 1))
               old == (global_time + CC) - (initTime + e)
    <3>3. new = old \/ new = old - Word
      BY <1>2, <1>3, <2>3
    <3>4. new > -(2 * Word) /\ new \in Int
      BY <1>3, <2>3, <3>2
    <3> QED  BY <3>1, <3>3, <3>4
  <2>5. SameTime(global_time + CC, initTime + e + Extra)'
    <3>1. CC' = CC /\ initTime' = initTime  BY <1>1
    <3>2. Extra' = Wrap - 1  BY <2>1 DEF Extra
    <3> QED  BY <2>4, <3>1, <3>2 DEF SameTime
  <2>6. ShowsWaited(e)'
    BY <1>1, <2>2 DEF ShowsWaited
  <2> QED  BY <2>2, <2>5, <2>6
<1>9. WaitedOK'
  BY <1>1, <1>5 DEF WaitedOK
<1>10. WaitsItsTime'
  BY <1>1, <1>5 DEF WaitsItsTime
<1> QED  BY <1>6, <1>7, <1>8, <1>9, <1>10 DEF ClockInv

\* The steps that leave the clock, the conversion and the place of a test alone.
LEMMA OtherClock ==
  ASSUME BaroInv, ClockInv, [Next]_vars,
         UNCHANGED <<timerVars, baroVars, CC, age, torn, tornStamp>>,
         at # "stamp", at' \notin {"stamp", "test"},
         waited' = waited \/ waited' = -1,
         waited' >= 0 =>
           caller' = "read_baro" /\ at' \in {"delay", "address_sent", "byte_read", "done"},
         at' = "delay" /\ waited' >= 0 => at = "delay",
         at' = "address_sent" /\ caller' = "read_baro" =>
           UNCHANGED <<at, caller, waited>>
  PROVE  ClockInv'
<1>1. TimerOK /\ AgeOK /\ TestOK /\ WaitedOK /\ WaitsItsTime
  BY DEF ClockInv
<1>2. TimerOK'
  BY <1>1 DEF TimerOK, timerVars
<1>3. AgeOK'
  <2> SUFFICES ASSUME loop_count > 0, ~Stuck', StampWhole'
               PROVE  \E e \in Shown : SameTime(Clock, StampTime + e)' /\ ShowsAge(e)'
    BY DEF AgeOK, baroVars
  <2>1. ~Stuck
    BY StuckStays
  <2>2. StampWhole
    BY DEF StampWhole
  <2>3. PICK e \in Shown : SameTime(Clock, StampTime + e) /\ ShowsAge(e)
    BY <1>1, <2>1, <2>2 DEF AgeOK
  <2>4. Clock' = Clock /\ StampTime' = StampTime
    BY DEF Clock, Unadded, StampTime, timerVars, baroVars
  <2>5. SameTime(Clock, StampTime + e)'
    BY <2>3, <2>4 DEF SameTime
  <2>6. ShowsAge(e)'
    BY <2>3 DEF ShowsAge, timerVars
  <2> QED  BY <2>3, <2>5, <2>6
<1>4. TestOK'
  BY DEF TestOK
<1>5. WaitedOK'
  BY DEF WaitedOK
<1>6. WaitsItsTime'
  BY <1>1 DEF WaitsItsTime
<1> QED  BY <1>2, <1>3, <1>4, <1>5, <1>6 DEF ClockInv

\* So do the bus, its handler and the rest, where main stays.
LEMMA StillClock ==
  ASSUME BaroInv, ClockInv, [Next]_vars,
         UNCHANGED <<at, caller, timerVars, baroVars, timeVars>>
  PROVE  ClockInv'
<1>1. TimerOK /\ AgeOK /\ TestOK /\ WaitedOK /\ WaitsItsTime
  BY DEF ClockInv
<1>2. TimerOK' /\ TestOK' /\ WaitedOK' /\ WaitsItsTime'
  <2> USE DEF timerVars, baroVars, timeVars
  <2>1. TimerOK'  BY <1>1 DEF TimerOK
  <2>2. Extra' = Extra  BY DEF Extra
  <2>3. TestOK'  BY <1>1, <2>2 DEF TestOK, SameTime, ShowsWaited
  <2>4. WaitedOK'  BY <1>1 DEF WaitedOK
  <2>5. WaitsItsTime'  BY <1>1 DEF WaitsItsTime
  <2> QED  BY <2>1, <2>3, <2>4, <2>5
<1>3. AgeOK'
  <2> SUFFICES ASSUME loop_count > 0, ~Stuck', StampWhole'
               PROVE  \E e \in Shown : SameTime(Clock, StampTime + e)' /\ ShowsAge(e)'
    BY DEF AgeOK, baroVars
  <2>1. ~Stuck
    BY StuckStays
  <2>2. StampWhole
    BY DEF StampWhole, timeVars
  <2>3. PICK e \in Shown : SameTime(Clock, StampTime + e) /\ ShowsAge(e)
    BY <1>1, <2>1, <2>2 DEF AgeOK
  <2>4. Clock' = Clock /\ StampTime' = StampTime
    BY DEF Clock, Unadded, StampTime, timerVars, baroVars, timeVars
  <2>5. SameTime(Clock, StampTime + e)'
    BY <2>3, <2>4 DEF SameTime
  <2>6. ShowsAge(e)'
    BY <2>3 DEF ShowsAge, timerVars, timeVars
  <2> QED  BY <2>3, <2>5, <2>6
<1> QED  BY <1>2, <1>3 DEF ClockInv

\* The time of a get_time_us is what was captured, in a word.
LEMMA TimeIs ==
  ASSUME BaroInv
  PROVE  /\ Time = global_time + CC \/ Time = (global_time + CC) - Word
         /\ Time \in 0..Word - 1
<1> DEFINE sum == global_time + CC
<1>1. Word \in Nat \ {0} /\ sum \in Int /\ sum \in 0..2 * Word - 1
  BY ClockSizes
<1>2. Time = sum % Word
  BY DEF Time
<1> HIDE DEF sum
<1>3. CASE sum \in 0..Word - 1
  <2>1. sum % Word = sum  BY <1>1, <1>3, Remainders
  <2> QED  BY <1>2, <1>3, <2>1 DEF sum
<1>4. CASE sum \in Word..2 * Word - 1
  <2>1. sum % Word = sum - Word  BY <1>1, <1>4, Remainders
  <2>2. sum - Word \in 0..Word - 1  BY <1>1, <1>4
  <2> QED  BY <1>2, <2>1, <2>2 DEF sum
<1>5. sum \in 0..Word - 1 \/ sum \in Word..2 * Word - 1
  BY <1>1
<1> QED  BY <1>3, <1>4, <1>5

\* What main compares with WAIT: what the clock showed at the capture, or a round more.
LEMMA TestSees ==
  ASSUME BaroInv, TestOK, WaitedOK, at = "test", ~tornStamp
  PROVE  \E e \in Shown : (Time - initTime) % Word = e + Extra /\ ShowsWaited(e)
<1> USE ClockSizes
<1>1. PICK e \in Shown : SameTime(global_time + CC, initTime + e + Extra) /\ ShowsWaited(e)
  BY DEF TestOK
<1>2. e \in 0..MaxAge + Latency /\ (torn => e < MaxAge)
  BY <1>1 DEF Shown, ShowsWaited, WaitedOK
<1>3. e + Extra \in 0..Word - 1 /\ e + Extra \in Nat
  BY <1>2 DEF Extra
<1> DEFINE shown == e + Extra
           ticks == Time - initTime
<1>4. (global_time + CC) - (initTime + shown) \in {-Word, 0, Word}
  <2>1. Extra \in Int  BY DEF Extra
  <2>2. initTime + shown = initTime + e + Extra  BY <1>2, <2>1
  <2> QED  BY <1>1, <2>2 DEF SameTime
<1> HIDE DEF shown
<1>5. ticks = shown \/ ticks = shown - Word
  <2>1. shown \in 0..Word - 1  BY <1>3 DEF shown
  <2>2. (global_time + CC) \in Int  OBVIOUS
  <2>3. Time - (initTime + shown) \in {-2 * Word, -Word, 0, Word}
    BY <1>4, <2>1, <2>2, TimeIs
  <2>4. Time - (initTime + shown) > -(2 * Word) /\ Time - (initTime + shown) < Word
    BY <2>1, TimeIs
  <2>5. Time \in Int  BY TimeIs
  <2> QED  BY <2>1, <2>3, <2>4, <2>5
<1>6. ticks % Word = shown
  <2>1. shown \in 0..Word - 1 /\ ticks \in Int  BY <1>3, TimeIs DEF shown
  <2>2. CASE ticks = shown
    <3>1. ticks \in 0..Word - 1  BY <2>1, <2>2
    <3> QED  BY <2>1, <2>2, <3>1, Remainders
  <2>3. CASE ticks = shown - Word
    <3>1. ticks \in -Word..-1  BY <2>1, <2>3
    <3>2. ticks % Word = ticks + Word  BY <2>1, <3>1, Remainders
    <3> QED  BY <2>1, <2>3, <3>2
  <2> QED  BY <1>5, <2>2, <2>3
<1> QED  BY <1>1, <1>6 DEF shown

\* The steps of read_baro.
LEMMA ReadBaroClock ==
  ASSUME BaroInv, ClockInv, [Next]_vars, ReadBaro
  PROVE  ClockInv'
<1> USE ClockSizes
<1>0. TimerOK /\ AgeOK /\ TestOK /\ WaitedOK /\ WaitsItsTime /\ CallOK /\ ~COMPARE
  BY DEF ClockInv, BaroInv, ReadBaro, read_baro, Test, Converted, Command, Stamp, Delay, Main
<1>c. Clock = global_time + counter
  BY <1>0 DEF Clock, Unadded
<1>1. ASSUME read_baro PROVE ClockInv'
  <2>0. at = "top" /\ waited = -1 /\ ~Stuck
    BY <1>0, <1>1 DEF read_baro, WaitedOK, Stuck
  <2>1. CASE loop_count = 0
    <3>1. at' = "command" /\ UNCHANGED <<timerVars, baroVars, timeVars>>
      BY <1>1, <2>1 DEF read_baro, ConvertCommand
    <3> QED  BY <2>0, <3>1, OtherClock DEF timeVars
  <2>2. CASE loop_count # 0
    <3>1. /\ at' = "test" /\ caller' = "read_baro" /\ CC' = counter /\ torn' = FALSE
          /\ waited' = age
          /\ UNCHANGED <<timerVars, baroVars, age, tornStamp>>
      BY <1>1, <2>2 DEF read_baro, Capture
    <3>2. TimerOK'
      BY <1>0, <3>1 DEF TimerOK, timerVars
    <3>3. ASSUME ~tornStamp
          PROVE  \E e \in Shown : SameTime(global_time + counter, initTime + e) /\ ShowsAge(e)
      <4>1. StampWhole /\ StampTime = initTime
        BY <2>0, <3>3 DEF StampWhole, StampTime
      <4> QED  BY <1>0, <1>c, <2>0, <2>2, <4>1 DEF AgeOK
    <3>4. AgeOK'
      <4> SUFFICES ASSUME ~tornStamp
                   PROVE  \E e \in Shown : SameTime(Clock, StampTime + e)' /\ ShowsAge(e)'
        BY <3>1 DEF AgeOK, StampWhole
      <4>1. PICK e \in Shown : SameTime(global_time + counter, initTime + e) /\ ShowsAge(e)
        BY <3>3
      <4>2. Clock' = global_time + counter /\ StampTime' = initTime
        BY <1>0, <3>1 DEF Clock, Unadded, StampTime, timerVars, baroVars
      <4>3. SameTime(Clock, StampTime + e)'
        BY <4>1, <4>2 DEF SameTime
      <4>4. ShowsAge(e)'
        BY <3>1, <4>1 DEF ShowsAge, timerVars
      <4> QED  BY <4>1, <4>3, <4>4
    <3>5. TestOK'
      <4> SUFFICES ASSUME ~tornStamp
                   PROVE  \E e \in Shown :
                            SameTime(global_time + CC, initTime + e + Extra)' /\ ShowsWaited(e)'
        BY <3>1 DEF TestOK
      <4>1. PICK e \in Shown : SameTime(global_time + counter, initTime + e) /\ ShowsAge(e)
        BY <3>3
      <4>2. e \in Int /\ initTime + e + 0 = initTime + e
        BY <4>1 DEF Shown
      <4>3. CC' = counter /\ Extra' = 0 /\ global_time' = global_time /\ initTime' = initTime
        BY <3>1 DEF Extra, timerVars, baroVars
      <4>4. SameTime(global_time + CC, initTime + e + Extra)'
        BY <4>1, <4>2, <4>3 DEF SameTime
      <4>5. ShowsWaited(e)'
        BY <3>1, <4>1 DEF ShowsAge, ShowsWaited
      <4> QED  BY <4>1, <4>4, <4>5
    <3>6. WaitedOK'
      BY <1>0, <3>1 DEF WaitedOK, timerVars
    <3>7. WaitsItsTime'
      BY <3>1 DEF WaitsItsTime
    <3> QED  BY <3>2, <3>4, <3>5, <3>6, <3>7 DEF ClockInv
  <2> QED  BY <2>1, <2>2
<1>2. ASSUME Test PROVE ClockInv'
  <2>1. /\ at = "test" /\ caller = "read_baro"
        /\ UNCHANGED <<timerVars, baroVars, caller, age, waited, torn, tornStamp>>
        /\ IF (Time - initTime) % Word < WAIT THEN at' = "delay" ELSE at' = "address_sent"
    BY <1>0, <1>2 DEF Test, i2c_read, CallOK
  <2>2. TimerOK' /\ TestOK' /\ WaitedOK'
    BY <1>0, <2>1 DEF TimerOK, TestOK, WaitedOK, timerVars
  <2>3. AgeOK'
    <3> SUFFICES ASSUME loop_count > 0, ~tornStamp
                 PROVE  \E e \in Shown : SameTime(Clock, StampTime + e)' /\ ShowsAge(e)'
      BY <2>1 DEF AgeOK, StampWhole, baroVars
    <3>1. ~Stuck /\ StampWhole /\ StampTime = initTime
      BY <2>1 DEF Stuck, StampWhole, StampTime
    <3>2. PICK e \in Shown : SameTime(Clock, initTime + e) /\ ShowsAge(e)
      BY <1>0, <3>1 DEF AgeOK
    <3>3. Clock' = Clock /\ StampTime' = initTime
      BY <2>1 DEF Clock, Unadded, StampTime, timerVars, baroVars
    <3>4. SameTime(Clock, StampTime + e)'
      BY <3>2, <3>3 DEF SameTime
    <3>5. ShowsAge(e)'
      BY <2>1, <3>2 DEF ShowsAge, timerVars
    <3> QED  BY <3>2, <3>4, <3>5
  <2>4. WaitsItsTime'
    <3>1. CASE tornStamp
      BY <2>1, <3>1 DEF WaitsItsTime
    <3>2. CASE ~tornStamp
      <4>1. PICK e \in Shown : (Time - initTime) % Word = e + Extra /\ ShowsWaited(e)
        BY <1>0, <2>1, <3>2, TestSees
      <4>2. e \in Int  BY <4>1 DEF Shown
      <4>3. CASE at' = "address_sent"
        <5>1. ~torn => e >= WAIT  BY <2>1, <4>1, <4>2, <4>3 DEF Extra
        <5>2. waited < MaxAge => e <= waited  BY <4>1 DEF ShowsWaited
        <5>3. ~torn => waited >= WAIT  BY <4>2, <5>1, <5>2
        <5> QED  BY <2>1, <4>3, <5>3 DEF WaitsItsTime
      <4>4. CASE at' = "delay"
        <5>1. e + Extra < WAIT  BY <2>1, <4>1, <4>4
        <5>2. e \in Nat /\ Extra \in {0, Wrap - 1}  BY <4>1 DEF Shown, Extra
        <5>3. e < WAIT  BY <5>1, <5>2
        <5>4. waited <= WAIT  BY <4>1, <4>2, <5>3 DEF ShowsWaited
        <5> QED  BY <2>1, <4>4, <5>4 DEF WaitsItsTime
      <4> QED  BY <2>1, <4>3, <4>4
    <3> QED  BY <3>1, <3>2
  <2> QED  BY <2>2, <2>3, <2>4 DEF ClockInv
<1>3. ASSUME Converted PROVE ClockInv'
  <2>1. at = "done" /\ waited' = -1 /\ UNCHANGED <<timerVars, initTime, CC, torn, tornStamp>>
    BY <1>3 DEF Converted
  <2>2. CASE loop_count = 1
    <3>1. at' = "command" /\ UNCHANGED <<loop_count, age>>
      BY <1>3, <2>2 DEF Converted, ConvertCommand
    <3> QED  BY <2>1, <3>1, OtherClock DEF baroVars
  <2>3. CASE loop_count # 1
    <3>1. at' = "delay" /\ loop_count' = 0
      BY <1>3, <2>3 DEF Converted
    <3>2. TimerOK' /\ AgeOK' /\ TestOK' /\ WaitedOK' /\ WaitsItsTime'
      BY <1>0, <2>1, <3>1 DEF TimerOK, AgeOK, TestOK, WaitedOK, WaitsItsTime, timerVars
    <3> QED  BY <3>2 DEF ClockInv
  <2> QED  BY <2>2, <2>3
<1>4. ASSUME Command PROVE ClockInv'
  <2>1. /\ at = "command" /\ at' = "stamp" /\ CC' = counter /\ torn' = FALSE /\ age' = 0
        /\ UNCHANGED <<timerVars, initTime, caller, waited, tornStamp>>
    BY <1>4 DEF Command, Capture
  <2>2. waited = -1
    BY <1>0, <2>1 DEF WaitedOK
  <2>3. TimerOK' /\ TestOK' /\ WaitedOK' /\ WaitsItsTime'
    BY <1>0, <2>1, <2>2 DEF TimerOK, TestOK, WaitedOK, WaitsItsTime, timerVars
  <2>4. AgeOK'
    <3>1. Clock' = global_time + counter /\ StampTime' = global_time + counter
      BY <1>0, <2>1 DEF Clock, Unadded, StampTime, timerVars
    <3>2. SameTime(Clock, StampTime + 0)'
      BY <3>1 DEF SameTime
    <3>3. ShowsAge(0)'
      BY <1>0, <2>1 DEF ShowsAge, timerVars
    <3>4. 0 \in Shown
      BY DEF Shown
    <3> QED  BY <3>2, <3>3, <3>4 DEF AgeOK
  <2> QED  BY <2>3, <2>4 DEF ClockInv
<1>5. ASSUME Stamp PROVE ClockInv'
  <2>1. /\ at = "stamp" /\ at' = "delay" /\ initTime' = Time /\ tornStamp' = torn
        /\ UNCHANGED <<timerVars, loop_count, caller, age, waited, torn>>
    BY <1>5 DEF Stamp
  <2>2. waited = -1
    BY <1>0, <2>1 DEF WaitedOK
  <2>3. TimerOK' /\ TestOK' /\ WaitedOK' /\ WaitsItsTime'
    BY <1>0, <2>1, <2>2 DEF TimerOK, TestOK, WaitedOK, WaitsItsTime, timerVars
  <2>4. AgeOK'
    <3> SUFFICES ASSUME loop_count > 0, ~torn
                 PROVE  \E e \in Shown : SameTime(Clock, StampTime + e)' /\ ShowsAge(e)'
      BY <2>1 DEF AgeOK, StampWhole
    <3>1. ~Stuck /\ StampWhole /\ StampTime = global_time + CC
      BY <2>1 DEF Stuck, StampWhole, StampTime
    <3>2. PICK e \in Shown : SameTime(Clock, global_time + CC + e) /\ ShowsAge(e)
      BY <1>0, <3>1 DEF AgeOK
    <3>3. Clock' = global_time + counter /\ StampTime' = Time
      BY <1>0, <2>1 DEF Clock, Unadded, StampTime, timerVars
    <3>4. e \in 0..MaxAge + Latency
      BY <3>2 DEF Shown
    <3>5. (global_time + counter) - (global_time + CC + e) \in {-Word, 0, Word}
      BY <1>c, <3>2 DEF SameTime
    <3>6. (global_time + counter) - (Time + e) \in {-Word, 0, Word}
      <4> DEFINE new == (global_time + counter) - (Time + e)
                 old == (global_time + counter) - (global_time + CC + e)
      <4>1. new = old \/ new = old + Word
        BY <3>4, TimeIs
      <4>2. new < 2 * Word /\ new \in Int
        BY <3>4, TimeIs
      <4> QED  BY <3>5, <4>1, <4>2
    <3>7. SameTime(Clock, StampTime + e)'
      BY <3>3, <3>6 DEF SameTime
    <3>8. ShowsAge(e)'
      BY <2>1, <3>2 DEF ShowsAge, timerVars
    <3> QED  BY <3>2, <3>7, <3>8
  <2> QED  BY <2>3, <2>4 DEF ClockInv
<1>6. ASSUME Delay PROVE ClockInv'
  <2>1. /\ at = "delay" /\ at' = "top" /\ waited' = -1
        /\ UNCHANGED <<timerVars, baroVars, CC, age, torn, tornStamp>>
    BY <1>6 DEF Delay
  <2> QED  BY <2>1, OtherClock
<1> QED  BY <1>1, <1>2, <1>3, <1>4, <1>5, <1>6 DEF ReadBaro

\* The other steps: the MPU's transfers and the bus.
LEMMA BusClock ==
  ASSUME BaroInv, ClockInv, [Next]_vars,
         UseMpu \/ MpuDone \/ OnBus \/ Wire \/ Silence \/ TwiIrq
  PROVE  ClockInv'
<1>1. UNCHANGED <<timerVars, baroVars, timeVars>>
  BY DEF UseMpu, MpuDone, OnBus, Wire, Silence, TwiIrq
<1>2. UNCHANGED <<timerVars, baroVars, CC, age, waited, torn, tornStamp>>
  BY <1>1 DEF timeVars
<1>3. WaitedOK /\ CallOK
  BY DEF ClockInv, BaroInv
<1>4. waited \in Int
  BY ClockSizes
<1>5. CASE UseMpu
  BY <1>2, <1>3, <1>5, OtherClock DEF UseMpu, i2c_read, i2c_write, WaitedOK
<1>6. CASE MpuDone
  BY <1>2, <1>3, <1>6, OtherClock DEF MpuDone, WaitedOK
<1>7. CASE OnBus
  <2>1. /\ caller' = caller
        /\ \/ at = "address_sent" /\ at' = "byte_read"
           \/ at = "byte_read" /\ at' \in {"byte_read", "done"}
           \/ at = "byte_sent" /\ at' \in {"byte_sent", "done"}
    BY <1>7 DEF OnBus, Transfer, AddressSent, ByteRead, ByteSent
  <2>2. waited' >= 0 => caller = "read_baro" /\ at # "byte_sent"
    BY <1>2, <1>3 DEF WaitedOK
  <2> QED  BY <1>2, <2>1, <2>2, OtherClock
<1>8. CASE Wire \/ Silence \/ TwiIrq
  <2>1. UNCHANGED <<at, caller>>
    BY <1>8
    DEF Wire, Bus, SendByte, ReceiveByte, Stopped, Silence, NoAnswer, TwiIrq, SPI0_TWI0_IRQHandler
  <2> QED  BY <1>1, <2>1, StillClock
<1> QED  BY <1>5, <1>6, <1>7, <1>8

\* Every step keeps the clock's invariant.
LEMMA NextClock == BaroInv /\ ClockInv /\ [Next]_vars => ClockInv'
<1> SUFFICES ASSUME BaroInv, ClockInv, [Next]_vars PROVE ClockInv'
  OBVIOUS
<1>1. CASE UNCHANGED vars
  BY <1>1, StillClock DEF vars, twiVars
<1>2. CASE Next
  BY <1>2, TickClock, OverflowClock, ReadBaroClock, BusClock DEF Next
<1> QED  BY <1>1, <1>2

\* It holds before the first conversion.
LEMMA InitClock == Init => ClockInv
  BY TimeAssumption
  DEF Init, TwiInit, ClockInv, TimerOK, AgeOK, TestOK, WaitedOK, WaitsItsTime

\* read_baro (baro.c:48, 62) reads a conversion before its time only when an overflow was added
\* between the two reads of a get_time_us, and keeps main waiting at most a tick too long, for
\* any period and width of the clock, any conversion time below the period and any latency of
\* TIMER2_IRQHandler.
THEOREM WaitsEnough == Spec => []WaitsItsTime
<1>1. Init => BaroInv /\ ClockInv
  BY InitBaro, InitClock
<1>2. BaroInv /\ ClockInv /\ [Next]_vars => (BaroInv /\ ClockInv)'
  BY NextBaro, NextClock
<1>3. ClockInv => WaitsItsTime
  BY DEF ClockInv
<1> QED  BY <1>1, <1>2, <1>3, PTL DEF Spec

=============================================================================
