# A TLA+ verification project for the Quadrupel firmware

The repository is the TU Delft IN4073 quadcopter of one team: the firmware that
runs on the drone's nRF51 (`src/in4073/`) and the PC terminal that flies it
(`src/in4073/pc_terminal/`).  Everything else under `src/` is the Nordic SDK
(`components`), a compiler (`gcc-arm-none-eabi`) or build output.

This directory holds TLA+ modules that model that program, TLC configurations
that check them on small instances, and proofs that TLAPS checks for every value
of the constants.

    tlc -workers 2 -config MCDrone_safety.cfg MCDrone     # one run
    tlapm DroneProofs.tla                                 # the proofs of one module

## 1. Inventory

| Component | State | Operations | Interacts with |
|---|---|---|---|
| Main program (`in4073.c`, `process_drone.c`, `mode_*.c`, `control.c`) | `drone` (mode, `change_mode`, `stop`, `ae[]`, sticks, trims, gains), `batt_low_flag`, motor compare registers | `reset_drone`, dispatch loop, seven mode functions, battery check, telemetry and log pacing, `update_motors` | polls flags set by TIMER2; `drone` is written by the packet handler; `uart_put`, flash |
| TIMER2 ticks (`drivers/timers.c`) | `control_loop_flag(_raw)`, `telemetry_flag`, `log_flag`, counters, `cable_disconnect_flag`, `global_time` | compare 0 (2.5 ms), 1 (2 ms), 2 (overflow), `get_time_us` | main, packet handler (cable flag) |
| Packet reception (`drivers/uart.c`) | `rcv_byte_count`, `nack_flag`, the partial packet, `rx_queue` | one byte: START, STOP, command, value, CRC | `process_packet`, cable flag |
| Packet commands (`drivers/process_packet.c`) | none of its own | `process_packet`, `set_mode_type`, key and joystick setters, LOG, RAW, height | `drone`, `abort_flag`, `log_*_flag`, `raw_mode_flag`, `imu_init_flag` |
| Transmission (`uart_put`, `drivers/queue.c`) | `tx_queue`, `txd_available` | `uart_put`, TXDRDY | everything that prints |
| CRC (`crc.c`) | none | `compute_crc`, `check_crc` | both ends of the line |
| Flight log (`log.c`, `drivers/spi_flash.c`) | `new_addr`, `new_addr_write`, the flash | `update_log`, `log_upload`, erase | main, `uart_put` |
| Control laws and mix (`mode_manual.c`, `mode_yawcontrol.c`, `mode_fullcontrol.c`, `calculate_rotor_speeds`) | sticks, trims, gains, height reference; main's copies of them; `ae[]` | a pass of each flying loop, `calculate_rotor_speeds` | packet handler, sensors, motors |
| Filters (`filters.c`, `fixed.c`) | filter state, sensor averages | moving average, Butterworth, Kalman | main |
| I2C bus and sensors (`twi.c`, `baro.c`, `invensense/`, `adc.c`) | `sent`, `read`, the peripheral; `loop_count`, `initTime`; MPU configuration, sample globals | `i2c_read`, `i2c_write`, the TWI handler, `read_baro`, `imu_init`, `get_dmp_data`, `get_raw_sensor_data`, ADC sample | main, `get_time_us` |
| PC sender (`pc_terminal.c`, `packet.c`, `queue.c`, `joystick_read.c`) | a queue of 100 packets under a mutex | key, joystick, dequeue thread | the line |
| PC receiver (`queue.c`, `receive_telemetry.c`, `get_log.c`) | three byte automata, `telemetry_rcv_flag`, `log_start_flag` | one byte | the line, the log file |

What is hard in this system:

* **Interleaving.** Main and the handlers share plain globals.  All interrupts
  have the same priority, so handlers do not nest, but main is preempted between
  any two accesses: mode, announcement and emergency flags are separate stores.
* **Ordering and stale tests.** A permission is computed by a handler from data
  main is about to overwrite (`ae[]`), or a request is cleared after the work it
  asked for (`imu_init_flag`).
* **Time-outs.** Loss of the line is a two-tick counter racing bytes, timer and
  main's own reset of it.  A pressure conversion is read when a clock says so whose two
  halves are read one after the other; an I2C transfer has no time-out at all, and its end is
  not awaited.
* **Numbers.** Sticks, trims and the throttle are bytes that one place reads as signed and
  another as unsigned.
* **Liveness.** ABORT, low battery and log upload are requests that main honours
  later, behind other flags.
* **A lossy line** with unescaped framing bytes, a four-bit check per byte, and no
  working acknowledgement.
* **Bounded buffers without checks**: the transmit ring, the flash log; with a silent
  drop: the PC queue.

What makes each component correct:

* Main and handlers: the mode protocol (only SAFE_MODE leads to flight; panic is never
  revoked and lands), no mode change lost, emergencies end in a reset, rotors at
  rest in SAFE_MODE.
* Control: rotors stop with the throttle and turn at a speed they can keep otherwise, the
  feedback has the right sign in every mode, height control ends when the pilot takes over.
* Sensors: a transfer returns whole answers in order and meets no other, a conversion is
  given its time and ends if main keeps asking for it.
* Ticks: a flag raised is served; the cable check is neither eager nor deaf.
* Reception: what is executed was sent; loss costs a bounded number of packets.
* Transmission: bytes leave once and in order; the handshake never stalls.
* Log: what is uploaded is what was written since the last erase, in order.
* PC: packets are sent in order of enqueueing; reception resynchronises.

## 2. Plan

| # | Modules | Contents | State |
|---|---|---|---|
| 1 | `FlightModes`, `Drone`, `MCDrone`, `DroneProofs` | the flight core: main, packet commands, ticks; the abstract mode protocol; proofs | done |
| 2 | `LossyFifo`, `PcQueue`, `PacketReceiver`, `Uplink`, `MCUplink`, `UplinkProofs` | the way of a packet from the PC's queue to `process_packet` over a line that loses bytes; refinement of a lossy FIFO; proofs | done |
| 3 | `Crc`, `NoisyPacket`, `NoisyPacketProofs` | the check byte against division of polynomials, and what it detects; proofs | done |
| 4 | `FlashLog`, `FlashLogProofs` | `update_log`, wrap, `log_upload`, restart; proofs | done |
| 5 | `PcReceiver`, `Downlink`, `MCDownlink`, `DownlinkProofs` | the PC's three automata on one stream; what the drone sends; what an undamaged message shows; proofs of its types and of `Resync` | done |
| 6 | `TxLine`, `TxQueue`, `TxQueueProofs` | `uart_put`, TXDRDY, the ring: handshake, and refinement of a sequence, overfill included; proofs | done |
| 7 | `ControlLoop`, `MCControlLoop`, `ControlLoopProofs` | from sticks, trims, gains, height control and sensors to rotor speeds, in all four flying loops; proofs | done |
| 8 | `Twi`, `Baro`, `BaroProofs` | the blocking I2C driver; a pressure conversion in the time of `get_time_us`; proofs | done |
| 9 | `Filters` | fixed-point filters against reference definitions | left |
| 10 | `DownlinkProofs` | `ShownAsSent` for all records | left |

`Uplink` extends `PcQueue` and `PacketReceiver` and implements `LossyFifo`; `Downlink`
extends `PcReceiver` and does not: it may show what was never sent.  `TxQueue` implements
`TxLine`; that it keeps the order of bytes is what `Downlink` builds on.  `Baro` extends
`Twi`.  `ControlLoop` takes from `Drone` which modes may follow each other, and gives it
what it abstracts: `Drone`'s set points are any within the clamps, and
`RotorsFollowThrottle` says that those of the code are.

Theorems wanted: type correctness and the safety invariants of `Drone`, and that it
implements `FlightModes` (done); that `Uplink` resynchronises and implements `LossyFifo`
(done); that `FlashLog` keeps and uploads the records intact (done); that `TxQueue` implements
`TxLine` for every ring size (done); that the rotors follow the throttle, and that the feedback has the right sign, for all
inputs and constants (done); that a transfer of any length is whole and a conversion gets its
time (done); that the check byte is a polynomial remainder and what it detects, for all
packets (done); that the PC
resynchronises, for all records (done); that an undamaged message is shown as it was sent, for
all records (left).

## 3. Modules

### `Drone` - the flight core

`fn` and `at` say which function main executes and where; an action of `Main` is one
access to a global that a handler shares, with the code around it.  `Uart` and
`Timer` are whole handlers, since nothing interrupts them.

| Code | Actions |
|---|---|
| `main`, `reset_drone`, `NVIC_SystemReset` | `Init`, `ResetDrone`, `SystemReset` |
| `process_drone` loop | `StopTest`, `ClearChange`, `ThrottleGuard`, `ThrottleToSafe`, `Switch` |
| flying loops | `LoopTest`, `CableTest`, `CableFlag`, `CableChange`, `CableMode`, `ControlFlag`, `Mix`, `WriteSpeeds`, `UpdateMotors` |
| `read_battery_level`, `read_sensor` | `Battery`, `BatteryMode`, `BatteryFlag` |
| `check_log_tele_flags` | `Telemetry` |
| `safe_mode` | `SafeEnter`, `LoopTest`, `ControlFlag`, `SafeAbort`, `SafeBatteryLow`, `ImuInit`, `ImuInitDone`, `SafeUpload` |
| `panic_mode` | `PanicHover`, `PanicDescend`, `UpdateMotors`, `Telemetry`, `BackToSafe` |
| `calibration_mode` | `Calibrate`, `BackToSafe`, `BackToSafeChange` |
| `UART0_IRQHandler`, `process_packet` | `ReceiveByte`, `SetModeType`, `SetJoyLift`, `LogCommand`, `ToggleRaw` |
| `TIMER2_IRQHandler` | `Compare0`, `Compare1` |

The order of the calls inside an iteration differs between the modes and is data:
`ManualOrder`, `SensorOrder`, `SafeOrder`, `PanicOrder`.

Abstractions:

* The set points a mix writes are any values within the clamps (`Speeds`); a battery
  sample is any of `BatterySamples`.  The 1 ms delay after the request outlasts the
  conversion, so the ADC interrupt is part of the sample.
* Packets without effect on this state (trims, gains, other sticks, height) and bytes
  inside packets are `ReceiveByte`: they only tell that the line is alive.
* `process_drone.c:323` reads `joy_lift` and the mode in one step: a handler between
  the two reads gives an outcome that also results when it comes before or after.
  `ae[]` is written in one step: a handler only asks whether all of it is 0.
  The test of a tick flag and its reset are one step: the handler only sets it, and a
  second tick between the two is absorbed as it would be just before the test.
* The globals are not `volatile`; the model assumes that each loop test loads them
  from memory, as the build in `_build` does.
* `quiet` is a history variable: telemetry ticks since the last byte, up to 2.
* `current_mode` is 0 until `reset_drone` runs, which is none of the modes
  (`SAFE_MODE` is 0x20): `NO_MODE`.

### `FlightModes` - what the core promises

Three variables (`mode`, `serving`, `powered`), no flags and no interrupts: who may
change the mode when, what may start rotors, and how panic ends.  `Drone` implements
it with `mode <- AbstractMode`, `serving <- Served`, `powered <- ~AllStill`.
Note the action `Drop`: the code does lose a call for panic that arrives between the
throttle guard and its write, or during a calibration; it cannot lose one once panic
is being served.

### `Uplink` - from the PC's queue to the drone

`PcQueue` is the ring of `pc_terminal/queue.c`; its two operations hold the mutex, so each
is one action.  `PacketReceiver` is the receiving half of `UART0_IRQHandler`, byte by
byte.  `Uplink` composes them: `Offer` is a key or a stick value being queued, `Take` is
the dequeue thread taking a packet, and `SendByte` and `LoseByte` are its five writes,
during which it holds the mutex.  The line keeps the order of bytes and may lose any of
them.

| Code | Definitions |
|---|---|
| `createQueue`, `enqueue`, `dequeue`, `process_dequeue` | `createQueue`, `enqueue`/`Insert`, `dequeue`, `Take`, `SendByte` |
| `UART0_IRQHandler` | `Receive`: `ReceiveStart`, `ReceiveStop`, `ReceiveData` |
| `process_packet` (check only) | `Executes` |

Framing values are not escaped.  A packet whose value is `0xFA` or `0xF5` is never
executed, and it may cost the packet after it.  Which packets a mode accepts is `Drone`'s
matter; `Uplink` counts a packet as executed when its check is right.

### `LossyFifo` - what a line promises

`pending` and `executed`: packets leave in order of arrival, each once or not at all.
`Settles` is the fairness under which nothing waits for ever.  `Uplink` implements it
with the queue and the packet being sent as `pending`.  `Downlink`, with the message being sent,
does not.

### `Crc`, `NoisyPacket` - the check byte

A byte is the set of its one bits.  `Remainder` is the loop of `compute_crc`, its eight
turns written out; `RemainderOf` is the reference, division of polynomials by x^4 + x^3 + 1 (`crc.c:15`
speaks of the fifth degree, counting coefficients).  `NoisyPacket` inverts bits of a packet between
`compute_crc` and `check_crc`.

### `FlashLog` - the log on the flash chip

| Code | Actions |
|---|---|
| `update_log`, `flash_write_bytes`, `flash_chip_erase` | `UpdateLog` |
| LOG packets | `LogCommand` |
| `log_upload`, its caller in `safe_mode` | `StartUpload`, `SendLine` |
| `spi_flash_init`, `reset_drone` | `Restart` |

Only main touches the chip, so one call is one action; an upload is one action per line,
between which packets arrive.  A cell holds `Erased` or the name of a byte of a record,
so that a torn or overwritten record shows.  An upload always ends in a restart
(`mode_safe.c:73`), which erases the chip: there is at most one upload per boot.  With an empty
log the upload sends one line of erased cells; `UploadFaithful` excludes that case.
`FlashLogProofs` proves it (section 5).

### `Downlink` - telemetry and log lines to the PC

`PcReceiver` is the receive thread: one stream of bytes handed to `ReceivePacket`,
`ReceiveTelemetry` or `GetLog` by two flags.  `Store` puts a byte into its field, at the
place and with the sign that the 31 and 25 cases of the two switches give it.
`Downlink` sends what `send_telemetry_data` and `log_upload` send, field by field, in
their order (`TeleData`, `LogData`: the calls of `uart_put`, `uart_put_16bit` and
`uart_put_32bit`), over a line that loses bytes (`LoseByte`) and into
which a handler may print a whole text before any byte (`Report`; `"uart error: %lu\n"`,
`uart.c:74`, has 14 characters or more).  `Gap` is a byte between messages: the `0xFF` for which
the receive loop takes an idle line, or text of main, such as `"Error reading sensor fifo"`
(`mpu_wrapper.c:67`), whose first character is `TELE_STOP`.  The report of the TWI handler
(`twi.c:94`) comes in main's transfers only, between messages.

`Resync` says what a fault may cost.  Its history variables are `intact` (nothing was lost from
this message or put into it), `due` (it found the receiver in step, and in the mode that
shows or files it) and `done` (its record was output).  A whole telemetry message puts the
receiver in step whatever it was doing, if no data byte looks like the start of a packet or of a
line; a log line does so in `get_log`.  The announcement of an upload has 5 bytes, which
is too short to end a frame left open, but it keeps a receiver in step that was.  That a
damaged message costs at most the next one is therefore not true of this program, only of
the case without those: a damaged frame may swallow the announcement, and with it the whole log.

`ShownAsSent` says what is output: in an undamaged message that is `due`, its own record, field by
field with its sign, once, and nothing else until the next message begins, whatever main
prints.  It claims nothing of a damaged message, and cannot: frames have no check sum.  That
nothing is ever shown that was not sent (refinement of `LossyFifo`) is false of this program; TLC
refutes it with one telemetry frame, one lost byte and one `E` of text, which closes the frame
(`receive_telemetry.c:235`) with every later field shifted by a byte.

Facts that the model keeps: the value of a telemetry packet is uninitialised
(`Leftovers`); `log_start_flag` is never reset, so after an upload telemetry goes to
`get_log`; if the one packet that announces an upload is lost, all lines are ignored.

### `TxQueue`, `TxLine` - transmission

Main's `uart_put` is `Call`, `Test`, `StoreByte`, `Return`: the interrupt is masked from
the first to the last, and between the test of `txd_available` and what follows from it the
hardware may finish a byte.  `TxReady` is the TXDRDY half of the handler; `Error` and
`ReportByte` are a handler that prints.  All interrupts have one priority, so a
handler's `uart_put` is one step.  The TWI handler is not masked by `uart_put`, but it
runs during main's I2C transfers only.

The ring does not test for being full and its count is a `uint8_t`.  `TxLine` says what
remains true: the bytes waiting stay in order and of the right number, the newest
`capacity` of them untouched; only if `limit` (256) bytes wait, all are lost.

### `ControlLoop` - from sticks and sensors to rotors

One pass of a flying loop, cut at main's reads of what packets change: `read_sensor`,
`ReadSticks`, `HeightControl`, `ControlLaw`, `ThrottleGuard`, `calculate_rotor_speeds`.
Packets come between any two of them.  `RollMoment`, `PitchMoment` and `YawMoment` are the
laws of the three loops with sensors; `manual_mode` takes the sticks for the moments.  The
arithmetic is the code's: the casts (`Signed`, `Applied`), divisions that cut off
(`Quotient`), the integer root, the clamps.

| Code | Definitions |
|---|---|
| `process_packet`: trims, gains, sticks, height control | `set_key`, `set_key_control`, `set_joy_lift`, `set_joy`, `ToggleHeight`, `Step` |
| `mode_manual.c`, `mode_yawcontrol.c`, `mode_fullcontrol.c` | `read_sensor`, `ReadSticks`, `HeightControl`, `ControlLaw`, `ThrottleGuard` |
| `calculate_rotor_speeds` | `calculate_rotor_speeds`, `Thrust`, `Trim`, `Clamp`, `Root` |
| `process_drone`, start of `safe_mode`, panic as a whole | `process_drone`, `Enter`, `panic_mode` |

The properties speak of a pass that no packet disturbed (`Settled`): with one in between,
the rotors mix the old sticks and the new, until the next pass.
`steady` is a history variable for it.  What the MPU and the barometer give, filtered, is
any value of `Samples` and `Pressures`.

Facts that the model keeps: height control exists in the yaw loop only, and its flag
survives a change of mode; a roll, pitch or yaw trim of 128 (`MAX_TRIM`) reads back as -128;
the gains survive `safe_mode`, the trims do not; `manual_mode` alone casts the throttle in
its guard.

### `Twi`, `Baro` - the sensor bus and its clock

`Twi` is `i2c_read` and `i2c_write`: main starts the peripheral, then spins on a flag that
`SPI0_TWI0_IRQHandler` sets (`AddressSent`, `ByteRead`, `ByteSent`). The peripheral is
external and modelled from its use: `SendByte`, `ReceiveByte`, `Stopped` and, when no device
answers, `NoAnswer`. After the last byte, or `Stop`, it is `"stopping"` until the STOP
condition is out, which nothing in the driver waits for; `i2c_read` and `i2c_write` have
returned by then. A task triggered meanwhile starts a transfer after the STOP or is lost,
either of the two (`StartTx`, `lost`); one triggered while a byte is on the line, or while the
peripheral waits for another task, is a `clash`. A byte is its place in the device's answer,
so that a lost, doubled or shifted byte shows.

`Baro` is `read_baro` and everything main does on the bus besides: `read_baro`, `Test`,
`Converted`, `Command`, `Stamp`, `Delay` are its steps, `UseMpu` a transfer with the MPU.
The clock is TIMER2: `Tick` is the counter, `Overflow` the compare 2 branch of its handler.
`get_time_us` is two steps, the capture (in `read_baro` and `Command`) and the sum (in
`Test` and `Stamp`), and the overflow may come between them.  `age` and `waited` are the
true time since the conversion began; `torn` and `tornStamp` tell whether an overflow
was added between the two halves.

Facts that the model keeps: the handler adds 0xffff per round, one tick less than a round
has; the conversion command is sent without waiting for its byte, for which the delay
after it makes up; a device that does not answer, or a start lost to a STOP, keeps main in a
transfer for ever, panic or not (`CHECK_DEADLOCK FALSE`: there the system really stops).

## 4. Runs

| Run | Checks | Instance |
|---|---|---|
| `drone_safety` | `TypeOK`, `ModeCoherence`, `PanicHeld`, `PanicLands`, `WatchdogSound`, `LowBatteryGrounded`, `ImplementsFlightModes` | 2 rotors, two speeds of which one is not a multiple of the step, all kinds of modes, both battery outcomes, RAW toggles; about 1.6 million states |
| `drone_liveness` | `PanicEnds`, `WatchdogFires`, `AbortStops`, `BatteryStops` | 1 rotor, two flying modes, ABORT, log upload; fairness |
| `drone_safe_motors` | `SafeMotorsOff` is violated | |
| `drone_log_upload` | `UploadHappens` is violated | fairness |
| `uplink` | `TypeOK`, `Resync`, `ImplementsFifo`, `PendingSettles` | a queue of 2, four packets offered, three kinds of packet of which one looks like a START, one byte lost per frame; fairness |
| `crc` | `LoopDivides`, `AlteredIsRejected` | 3 commands, 8 values with the framing bytes, up to 3 inverted bits anywhere |
| `flash_log` | `TypeOK`, `RecordsIntact`, `UploadFaithful` | a chip of 12 cells, records of 3, two values; wraps, uploads and restarts |
| `downlink` | `TypeOK`, `Resync`, `ShownAsSent` | six messages, two telemetry records (one with bytes that look like a START), one log line, one byte lost or one whole report of the UART handler, text with `@` and `E` between messages, an uninitialised value that may be `START_BYTE`; 3.3 million states |
| `tx_queue` | `TypeOK`, `Handshake`, `ImplementsLine`, `AllLeave` | a ring of 2 whose count wraps at 4, up to 7 bytes sent or waiting; fairness |
| `control_loop` | `TypeOK`, `RotorsFollowThrottle`, `HeightHandsBack`, `NegativeFeedback`, `HeightOpposesDrift`, `TrimTilts` | the drone's constants; throttle down, below and above the middle; two postures, two pressures; three packets; about 2.2 million states |
| `rotor_mix` | `ControlWhenThrottleUp` is violated | as `control_loop`, two packets |
| `sensors` | `TypeOK`, `WaitsItsTime`, `TransfersWhole`, `ConversionsFinish` | a counter of 5 values, an overflow handled up to 1 tick late, conversions of 2 ticks and 2 bytes, an MPU read or write of 1; fairness; about 1.5 million states |

**Bounds.** In `Drone` no counter is cut: every variable is finite in the code or by its clamp.
The thresholds that decide (throttle 5 and 10, cable flag 2) are the code's.  Scaled
down: a telemetry period is 2 control ticks instead of 200, so that it still differs
from one tick, and speeds are tens instead of hundreds, so that hovering takes three
descents.  `MANUAL_MODE` and `FULL_CONTROL_MODE` cover the two call orders of the
flying loops and `YAW_CONTROL_MODE` (same order as full control) appears in
`drone_liveness`.  Two rotors tell "some rotor" from "all rotors".

In `Uplink`, `MaxOffered` = 4 is above the capacity 2: the ring wraps and drops.  `MaxLost`
counts the bytes lost in the frame the receiver has open; the value 1 is tight, since with two lost
bytes and an unescaped framing byte the receiver can put a packet together from two.
Without such bytes up to four may be lost (`FewLost`), which the proof covers.  In
`FlashLog` the size is a multiple of the record size: then the tests of `log.c:31` and
`spi_flash.c:341` differ in what they leave at the end of the chip.  In the code 5461 records of 24
bytes fit.

In `Downlink`, `MaxFaults` = 1 is one lost byte or one whole report in a behaviour, anywhere;
besides, an uninitialised value damages any telemetry message. `MaxTelemetry` = 4 is a damaged
message, the one that brings the PC back into step, one that must be shown, and one more; with
`MaxMessages` = 6 the same happens to an announcement and the lines after it. For `TypeOK` and
`Resync` `DownlinkProofs` covers any number of faults. Texts are ASCII (`TextAssumption`),
with no other restriction. An upload has no gaps of 100 ms.

In `TxQueue` seven bytes fill the ring, overfill it and wrap its count (in the code the
count wraps at twice the ring's size as well).

In `ControlLoop`, `MaxPackets` = 3 counts the packets that change anything in the whole
behaviour: three suffice to raise the throttle, trim or tilt, and change the throttle again or
switch height control on, and for a trim to reach its limit.  The trims run from -1 to 2, a
character of four values, so that the cast at `process_drone.c:267` bites at the maximum
as it does at 128; gains are 0 or 1; sticks are centred or at 100; the samples lean and turn
far to either side.  `Root` covers numbers below 1024 squared,
more than the instance reaches.

In `Baro` the counter has 5 values, the word 16 and a conversion takes 2 ticks: a round
is longer than a conversion, overflows fall before, in and after it, and the word comes
round within a few conversions.  `MaxAge` = 8 bounds how late main comes back to a
conversion (more than a round and a conversion), and by `TimeAssumption` the word does not
come round meanwhile, which would take over an hour.

**Fairness.** `Drone`: `FairSpec` asks that main keeps taking steps and that both timer compares
keep occurring.  Main: a handler lasts microseconds and a byte takes 87 us at 115200
baud, so handlers cannot starve it; the assumption does include that the I2C busy waits
end (`twi.c` has no time-out).  Timers: each handler re-arms its compare register.
Nothing is assumed of the PC; hence the properties speak of a silent PC
(`quiet = 2`) or allow it to talk again (`quiet < 2`).  `Uplink`: the dequeue thread keeps
running; it sleeps 10 ms between two packets and the terminal's thread holds the mutex for
microseconds (`queue.c:124`).  `TxQueue`: `uart_put` returns, a report is finite, the
hardware transmits, and a pending TXDRDY is served (strongly fair, since main masks it again
and and again).  `Baro`: main goes on wherever it is in a call, the timer runs, the peripheral sends,
receives and stops, and interrupts are served.  Nothing is assumed of when main calls `read_baro`: only
`read_sensor` and the calibration do, so in safe, manual and panic mode a conversion waits for as
long as the mode lasts.  `ConversionsFinish` therefore speaks of a main that calls it
again and again.  Nor is it assumed that a device answers or that a start during a STOP
is honoured: it excepts both.

**The three violations** are disagreements between a comment of the code and what it does:

* `SafeMotorsOff`: a SAFE_MODE packet is accepted when `ae[]` is all 0, between the loop
  test and the write of new set points; the rotors then run in SAFE_MODE.
* `UploadHappens`: a telemetry tick between LOG_UPLOAD and the upload block leaves
  `telemetry_flag` and `log_upload_flag` blocking each other for ever.
* `ControlWhenThrottleUp`: `mode_manual.c:60` reads `joy_lift` (0..255) as a signed char:
  in the upper half of the throttle it counts as down and roll, pitch and yaw are ignored.

## 5. Proofs

`DroneProofs` proves, for any non-empty set of rotors, any speeds within the clamps, any
telemetry period below 256 and any packets:

| Theorem | States |
|---|---|
| `TypeCorrect` | `Spec => []TypeOK` |
| `Safe` | `Spec => []SafetyInv` |
| `CoherentModes`, `PanicIsHeld`, `PanicHasLanded`, `WatchdogIsSound`, `LowBatteryIsGrounded` | the five safety invariants |
| `Refinement` | `Spec => ImplementsFlightModes` |

Assumptions: those named in `Drone` (`RotorsAssumption`, `SpeedAssumption`,
`TickAssumption`, `PacketAssumption`), which TLC evaluates on the instances.

*Argument.* `TypeOK` is inductive by itself once main's position is tied to its
function (`Positions`).  Four of the five safety invariants are not:

* `PanicLands` speaks of the motors at the end of panic; it needs `MotorsFollow`, that
  between two descents `cc` equals `ae`.
* `WatchdogSound` speaks of flag value 2; it needs `CableBehind`, that the flag never
  exceeds the ticks of silence, in a flying loop or when one has been chosen -
  also from SAFE_MODE, where the flag may run ahead until the packet that chooses a
  flying mode clears it.
* `LowBatteryGrounded` speaks of a flag and a flying mode that meet long after the battery
  was read; it needs `LowBatteryHeld`: the flag is set in panic, every way out of panic is
  on the ground, and a flying loop that finds the flag set never gets to its mix.
* `ModeCoherence` and `PanicHeld` need `Booted` (a mode is in force once main runs) and
  each other's exceptions, the windows between two stores.

Their conjunction is `SafetyInv`.  `SafetyNext` shows it inductive; the labels are
treated through `Labels` and `AfterPosition`, which say what each position implies, and
the five handlers' actions separately, since they keep main's position.  `Refinement`
uses `SafetyInv` and `TypeOK` in every step and maps each action to one of
`FlightModes` or to a stutter (`MainRefines`, `HandlersRefine`).

`UplinkProofs` proves, for any capacity, any packets and any check function:

| Theorem | States |
|---|---|
| `UplinkTypes` | `Spec => []TypeOK`, the ring's shape among it |
| `UplinkSafe` | `Spec => []LinkInv` |
| `Resynchronises` | `Spec => []Resync` |
| `UplinkIsFifo` | `FewLost => (Spec => ImplementsFifo)` |

Assumptions: `CapacityAssumption`, `PacketsAssumption`, `LostAssumption`,
`OfferedAssumption`; for the refinement `FewLost`.

*Argument.*  The ring: `InsertRing` and `DequeueRing` say that `Insert` appends to
`Contents` and `dequeue` takes its head, around the end of the ring.  The receiver:
`Resync` and the refinement need to know where the receiver's open frame began.
`FrameInv` says that it began in the packet being sent, and then what was collected and
what was lost make up what was sent (`SameFrame`), or in an earlier one, and then that
one's STOP and the START of each since are among the lost bytes (`OldFrame`).
`InStep` adds that after an undamaged packet the receiver is in step with the sender.  From `FrameInv`,
`Genuine` follows: with few bytes lost, a frame that completes with a right check
has collected exactly the packet being sent; so each step is a step of `LossyFifo` or a stutter.

`FlashLogProofs` proves, for any size of the chip and of a record
(`SizeAssumption`, `ErasedAssumption`):

| Theorem | States |
|---|---|
| `LogTypeCorrect` | `Spec => []TypeOK`: the addresses stay on the chip |
| `LogSafe` | `Spec => []LogInv` |
| `RecordsAreIntact` | `Spec => []RecordsIntact` |
| `UploadIsFaithful` | `Spec => []UploadFaithful` |

*Argument.*  `WholeWrite`: a write that `update_log` lets through ends before the last
address, so `flash_write_bytes` never gives up, and it changes only erased cells.
`RecordCells`: the cells of a record lie before `new_addr`, so the next write leaves them
alone and reading them does not wrap.  `UploadFaithful` speaks of contents and is not
inductive: `UploadInv` adds that the address is `RecordSize` times the lines sent and
that a running upload has records left, from which the test `LastLine` stops it
after the last record and not before.

`TxQueueProofs` proves, for any size of the ring (`SizeAssumption`, `NothingAssumption`):

| Theorem | States |
|---|---|
| `TxTypeCorrect` | `Spec => []TypeOK` |
| `TxSafe` | `Spec => []TxInv` |
| `HandshakeHolds` | `Spec => []Handshake` |
| `TxRefinement` | `Spec => ImplementsLine` |

*Argument.*  The ring is a place modulo its size; `Around` carries the remainder through the
at most four rounds that any index makes, and `EnqueueRing` and `DequeueRing` say which of
the waiting bytes survive, the overfilled ring included.  `Handshake` is not inductive:
between the test of `txd_available` and what follows from it the hardware goes on, and what makes
that harmless is `Masking`, that no handler runs there, so that the flag main tested
is still true to its value.  A step of main or of a handler that stores a byte is then
`TxLine`'s `Put`, or its `Overflow` when the count comes round; the end of a
transmission is `Leave`.

`ControlLoopProofs` proves, for any drone constants, trims, gains, sticks, samples and
pressures within the assumptions of `ControlLoop`:

| Theorem | States |
|---|---|
| `TypeCorrect` | `Spec => []TypeOK` |
| `RotorsFollow` | `Spec => []RotorsFollowThrottle` |
| `HeightFollows` | `Spec => []HeightHandsBack` |
| `FeedbackOpposes` | `Spec => []NegativeFeedback` |
| `HeightHolds` | `Spec => []HeightOpposesDrift` |
| `TrimsTilt` | `Spec => []TrimTilts` |

Assumptions: `TrimAssumption`, `SpeedAssumption`, `InputAssumption`, and for `HeightHolds`
`HoverAssumption`: the rotors can keep the hover speed, which is 400 in the program.

*Argument.*  `Step` and the casts keep trims, gains and sticks in range; every moment and
speed is a number (`SpeedInt`), which `Clamp` brings within the limits (`ClampWithin`).
`RotorsFollowThrottle` is inductive with `TypeOK`, since a packet ends `steady`.  `HeightHandsBack` is not: the
flag is decided in the middle of a pass, so `HeightMatches` says the same at each later
position of it.

The last three are statements about the end of a pass, and their invariant `TiltInv` says at
each position what the pass has made so far of the sensors: `MomentsOppose` the signs of
the moments, `LiftHolds` the lift with height control on.  The laws keep the signs
(`LawsOppose`: `ProductSign`, and a `Quotient` of a number has its sign or is 0).  The
mix adds moments to lifts and takes roots: `RootIs` says that `Root` is the integer root, for
any number, up to 1023, so `RootGrows` (the greater number has no smaller root), and `SpeedGrows` carries
that through the negative numbers and `Clamp`.  From there `MixOpposes`, `MixHolds` and
`MixTilts` compare two rotors each.  A trim is added after the roots, to equal speeds: it separates them
unless `Clamp` brings both to one limit, which is why `TrimTilts` says "unless both are at the
same limit" and nothing weaker.

`BaroProofs` proves, for any lengths of the transfers and any period, width and latency of
the clock (`TimeAssumption`, `LengthAssumption`):

| Theorem | States |
|---|---|
| `TypeCorrect` | `Spec => []TypeOK` |
| `TransfersAreWhole` | `Spec => []TransfersWhole` |
| `WaitsEnough` | `Spec => []WaitsItsTime` |

*Argument.*  `BusOK` says for each position of main what the peripheral is doing: a byte
main waits for is on its way (`OnItsWay`), or it has arrived and either the handler has
told main or it still has to (`Arrived`), or the start was lost to a STOP and main waits for ever
(`NotStarted`).  Between transfers the peripheral may still be stopping (`Resting`), so
`TransfersWhole` does not say that it is idle, only that nothing is triggered while a byte is on the
line.  `DataOK` says that the bytes read are the first of the
answer, and that the one at hand is the next.  Both hold until a device fails to answer,
after which nothing is promised.  The main steps, the transfers, the wire and the timer
are a lemma each.

`WaitsItsTime` compares true time with a difference of two clock readings modulo the word.
Its invariant `ClockInv` keeps, for a conversion under way, some number `e` of ticks that the clock shows since
the stamp (`AgeOK`, modulo the word): `e` is the true age, or one less once the counter has come
round (the tick that `Overflow` does not add), or more than a round.  `TestOK` says the
same of the two halves of a reading in progress, with `Extra` for an overflow that was added
between them, and `WaitedOK` that such an overflow leaves no second one pending.  Since the word is
longer than anything a conversion shows (`TimeAssumption`), the difference that the code takes
modulo the word is `e` itself (`Remainders`), and the comparison with the waiting time can only
go wrong as the property allows.

`NoisyPacketProofs` proves, for any commands and values (`PacketAssumption`: they are bytes) and
any number of inverted bits:

| Theorem | States |
|---|---|
| `LoopAlwaysDivides` | `Spec => []LoopDivides` |
| `AlterationsFound` | `Spec => []AlteredIsRejected` |

*Argument.*  Bits are added modulo two (`Add`).  Each of the four bits that the loop leaves
is a sum of bits of the byte (`Sum4` to `Sum7`): `TurnBits` says what one turn does, and
`RemainderBits` follows the eight.  The reference gives the same sums: `PowersOfX` computes
the powers of x modulo the generator and `OddByte` counts the bits of a byte one by one
(`RemainderOfBits`); so `LoopIsDivision`.  For detection, the sums are linear (`SumsAdd`): a
changed packet passes the check only if the inverted bits of a byte sum to the inverted bits of its half of the
check (`RemaindersChange`).  The byte and its half are twelve places of a code word, and no one or two
places sum to zero (`TwoAreFound`), so three were inverted (`ThreeAreNeeded`).  The invariant
`NoisyInv` says that what was sent and what was received differ in the inverted bits and
nowhere else.

`DownlinkProofs` proves, for any records, any ASCII texts of main and the handlers and any
number of faults and messages:

| Theorem | States |
|---|---|
| `DownlinkTypes` | `Spec => []TypeOK`: no count of the three automata leaves its cases |
| `PcResynchronises` | `Spec => []Resync` |

Assumptions: `TextAssumption`, `BoundsAssumption`, `RecordsAssumption` (a record has the fields of
the cases and is of one kind), and `CheckAssumption`, that the check of a packet the drone
sends does not look like a start or stop; the program's is in 192..207 for telemetry
and 176 for the announcement, whatever the uninitialised value.

*Argument.*  The invariant `IInv` has four parts besides `TypeOK`.  `OutInv`: the bytes still to be
sent of an undamaged message are its end.  `OneAtWork`: at most one automaton has a frame open.
`FlushInv`: in an undamaged message without start bytes in its data, a frame left open by what came before
ends with the message at the latest, because each byte brings it nearer to its end and the message is the
longer.  `InStepInv`: in a message that found the receiver in step, the number of bytes left
determines the position of each automaton.  `LogStep`, `TelemetryStep` and `PacketStep` say what one
byte does to each automaton; `TelemetryFlushes` and `LineFlushes` keep `FlushInv`;
`TelemetryIsShown`, `LineIsFiled` and `AnnouncementKeepsStep` keep `InStepInv`; `Settled` joins the two at
the end of a message, where both say that nothing is left open.  Each action has a lemma of its own.
The tables of cases and the messages have fixed lengths (30 and 23 data bytes), so they are
written out (`TeleCasesAre`, `TeleBytes`, ...) and no induction is needed.

Only model-checked: the liveness properties (liveness under fairness is out of the
prover's reach), and `ShownAsSent`, for which, beyond `Resync`, storing the 30 bytes of any record
would have to be shown to give the record back.

## 6. Not modelled

See `PROJECT.json` for every component.  Planned ones are in section 2.  The program is
`src/in4073`; the rest of `src/`, nearly all of its lines, is the SDK, the compiler and
build output as their vendors deliver them, and is not modelled.  Left out for good of
`src/in4073`: register-level drivers (SPI, GPIO, ADC), the arithmetic between samples and
angles (`filters.c`, the compensation of the pressure, the Euler angles), the pulse of
TIMER1, the InvenSense code, the BLE UART (never initialised), terminal and serial I/O, DFU
scripts.

What reading the code showed and no run does:

* `twi.c:2` says that the I2C driver is blocking, but its transfers return with the STOP
  condition still to come (`twi.c:71` and, by a short, `twi.c:32`, `43`), and no one waits for
  it: the vendor's driver does (`twi_hw_master.c:74-80`, `157-162` in `src/components`). `Twi`
  models it; what a real peripheral makes of a start in that state is not known here.
* `moving_average` (`filters.c:115`) is not an average over a window: its last loop copies
  upwards, so that every cell takes the newest input and the result is a tenth of
  the new value and nine tenths of the one before.
* `kalman` computes `sq` and `sr` from `q14sp` (`filters.c:98`).
* `process_drone.c:323` tests `joy_lift`, which `safe_mode` has zeroed and SAFE_MODE keeps
  from being updated: a flying mode may be entered with the stick up.
* A RAW toggle while SAFE_MODE initialises the MPU, or leaving SAFE_MODE before that, lets one
  full-control function fly on the other's sensor set-up (`mode_safe.c:59`,
  `process_drone.c:344`).
* `read_sensor` clears `sensor_int_flag` after it has read (`process_drone.c:72`): an
  interrupt in between is lost, and with it one sample.
* The PC initialises its mutex after it has started a thread that locks it
  (`pc_terminal.c:71`).
