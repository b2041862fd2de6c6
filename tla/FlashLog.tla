------------------------------ MODULE FlashLog ------------------------------
(***************************************************************************)
(* The flight log (log.c) on the flash chip (drivers/spi_flash.c): records *)
(* are written one after the other, the whole chip is erased when the next *)
(* one might not fit, and an upload sends the records to the PC and is     *)
(* followed by a restart.                                                  *)
(*                                                                         *)
(* A cell of the flash holds Erased or one byte of a record, named by the  *)
(* record and the byte's place.  Only main touches the flash; a packet     *)
(* handler may set the request flags between any two steps.                *)
(***************************************************************************)
EXTENDS Integers, Sequences, SequencesExt

CONSTANTS
  FlashSize,      \* 0x20000
  RecordSize,     \* sizeof(struct log)
  Records,        \* the values a record may have
  Erased          \* the content of an erased cell (0xFF)

ASSUME SizeAssumption ==
  /\ RecordSize \in Nat /\ RecordSize >= 2
  /\ FlashSize \in Nat /\ FlashSize > RecordSize

LastAddress == FlashSize - 1
Addresses   == 0..LastAddress
Places      == 0..(RecordSize - 1)

ASSUME ErasedAssumption == Erased \notin Records \X Places

VARIABLES
  flash,                          \* the cells
  new_addr, new_addr_write,       \* next address to write, next to upload
  log_active_flag, log_upload_flag,
  at,                             \* main: in the mode loops, uploading, or stopping
  logged,                         \* history: the records since the last erase, in order
  uploaded                        \* history: the lines sent since boot

flags == <<log_active_flag, log_upload_flag>>
vars  == <<flash, new_addr, new_addr_write, flags, at, logged, uploaded>>

Bytes(record) == [place \in Places |-> <<record, place>>]

AllErased == [address \in Addresses |-> Erased]

Init ==
  /\ flash = AllErased
  /\ new_addr = 0 /\ new_addr_write = 0
  /\ log_active_flag = FALSE /\ log_upload_flag = FALSE
  /\ at = "loop"
  /\ logged = <<>> /\ uploaded = <<>>

-----------------------------------------------------------------------------
\* The chip (no code of the repository): a cell keeps what was programmed into it first,
\* and reading goes on at address 0 after the last one.
Program(cell, byte) == IF cell = Erased THEN byte ELSE cell

ReadBytes(address) == [place \in Places |-> flash[(address + place) % FlashSize]]

\* flash_write_bytes.  The first byte goes out with its address, each further one with an
\* AAI command; a byte at the last address makes the function give up, whatever is left.
Written(address) == {place \in Places : place = 0 \/ address + place <= LastAddress}

flash_write_bytes(chip, address, bytes) ==
  [a \in Addresses |->
     IF a - address \in Written(address) THEN Program(chip[a], bytes[a - address]) ELSE chip[a]]

WriteSucceeds(address) == \A place \in Places \ {0} : address + place < LastAddress

-----------------------------------------------------------------------------
\* Mutant of Full: the bound is the size of the chip.
FullAtSize(address) == address + RecordSize > FlashSize

\* The next record might not fit.
Full(address) == address + RecordSize > LastAddress

\* Mutant of Wrapped: only the addresses start again.
WrappedUnerased == flash

\* The chip when the log wraps around: flash_chip_erase.
Wrapped == AllErased

\* update_log, when a log tick is served.
UpdateLog(record) ==
  LET address == IF Full(new_addr) THEN 0 ELSE new_addr IN
  /\ at = "loop" /\ log_active_flag
  /\ flash' = flash_write_bytes(IF Full(new_addr) THEN Wrapped ELSE flash, address, Bytes(record))
  /\ new_addr' = IF WriteSucceeds(address) THEN address + RecordSize ELSE address
  /\ new_addr_write' = IF Full(new_addr) THEN 0 ELSE new_addr_write
  /\ logged' = IF Full(new_addr) THEN <<record>> ELSE Append(logged, record)
  /\ UNCHANGED <<flags, at, uploaded>>

-----------------------------------------------------------------------------
\* LOG packets: start, stop, and an upload, which only SAFE_MODE accepts.
LogCommand ==
  /\ \/ log_active_flag' \in BOOLEAN /\ UNCHANGED log_upload_flag
     \/ log_upload_flag' = TRUE /\ UNCHANGED log_active_flag
  /\ UNCHANGED <<flash, new_addr, new_addr_write, at, logged, uploaded>>

\* safe_mode honours the request.  If a packet has changed the mode since the loop test,
\* log_upload refuses; main stops in either case.
StartUpload ==
  /\ at = "loop" /\ log_upload_flag
  /\ at' \in {"upload", "stop"}
  /\ UNCHANGED <<flash, new_addr, new_addr_write, flags, logged, uploaded>>

\* Mutant of LastLine: the test is strict.
LastLineStrict(address) == address > new_addr

\* Mutant of LastLine: the test is for equality.
LastLineExact(address) == address = new_addr

LastLine(address) == address >= new_addr

\* One turn of the loop of log_upload.
SendLine ==
  /\ at = "upload"
  /\ uploaded' = Append(uploaded, ReadBytes(new_addr_write))
  /\ new_addr_write' = new_addr_write + RecordSize
  /\ IF LastLine(new_addr_write')
       THEN log_upload_flag' = FALSE /\ at' = "stop"
       ELSE UNCHANGED <<log_upload_flag, at>>
  /\ UNCHANGED <<flash, new_addr, log_active_flag, logged>>

\* The restart, after an upload or for any other reason (ABORT, battery): spi_flash_init
\* and reset_drone erase the chip.
Restart ==
  /\ at \in {"loop", "stop"}
  /\ flash' = AllErased
  /\ new_addr' = 0 /\ new_addr_write' = 0
  /\ log_active_flag' = FALSE /\ log_upload_flag' = FALSE
  /\ at' = "loop"
  /\ logged' = <<>> /\ uploaded' = <<>>

Next ==
  \/ \E record \in Records : UpdateLog(record)
  \/ LogCommand \/ StartUpload \/ SendLine \/ Restart

Spec == Init /\ [][Next]_vars

-----------------------------------------------------------------------------
(***************************************************************************)
(* Correctness.                                                            *)
(***************************************************************************)

TypeOK ==
  /\ flash \in [Addresses -> (Records \X Places) \cup {Erased}]
  /\ new_addr \in Addresses
  /\ new_addr_write \in 0..(LastAddress + RecordSize)
  /\ log_active_flag \in BOOLEAN /\ log_upload_flag \in BOOLEAN
  /\ at \in {"loop", "upload", "stop"}
  /\ logged \in Seq(Records)

\* The chip holds exactly the records logged since the last erase, complete, in order and
\* from address 0; no write is cut short by the end of the chip, which flash_write_bytes
\* and update_log guard with two different tests (spi_flash.c:341, log.c:31).
RecordsIntact ==
  /\ new_addr = RecordSize * Len(logged)
  /\ \A i \in 1..Len(logged), place \in Places :
       flash[RecordSize * (i - 1) + place] = <<logged[i], place>>
  /\ \A address \in Addresses : address >= new_addr => flash[address] = Erased

\* An upload sends the logged records in order, each once, and all of them when it has
\* ended (log.c:75-98); it sends a line that was never logged only if there is no record.
UploadFaithful ==
  logged # <<>> =>
    LET lines == [i \in 1..Len(logged) |-> Bytes(logged[i])] IN
    /\ IsPrefix(uploaded, lines)
    /\ at = "stop" /\ uploaded # <<>> => uploaded = lines

\* What makes UploadFaithful inductive.  The upload is line by line in step with the
\* records: the next address to upload is behind the lines sent, all of them are records,
\* and it goes on as long as there are more.
Lines == [Places -> (Records \X Places) \cup {Erased}]

UploadInv ==
  /\ uploaded \in Seq(Lines)
  /\ new_addr_write = RecordSize * Len(uploaded)
  /\ at = "loop" => uploaded = <<>>
  /\ at = "upload" => uploaded = <<>> \/ Len(uploaded) < Len(logged)
  /\ logged # <<>> =>
       /\ Len(uploaded) <= Len(logged)
       /\ \A i \in 1..Len(uploaded) : uploaded[i] = Bytes(logged[i])
       /\ at = "stop" /\ uploaded # <<>> => Len(uploaded) = Len(logged)

LogInv == TypeOK /\ RecordsIntact /\ UploadInv

=============================================================================
