--------------------------- MODULE FlashLogProofs ---------------------------
(***************************************************************************)
(* Proofs about FlashLog, for any size of the chip and of a record.        *)
(***************************************************************************)
EXTENDS FlashLog, SequenceTheorems, TLAPS

-----------------------------------------------------------------------------
(* The layout: record i occupies RecordSize cells from RecordSize * (i - 1). *)

LEMMA Rows ==
  ASSUME NEW k \in Nat, NEW n \in Nat, k < n
  PROVE  RecordSize * k + RecordSize <= RecordSize * n
<1>1. RecordSize \in Nat
  BY SizeAssumption
<1>2. PICK d \in Nat : n = k + 1 + d
  <2>1. n - k - 1 \in Nat /\ n = k + 1 + (n - k - 1)
    OBVIOUS
  <2> QED
    BY <2>1
<1>3. RecordSize * n = RecordSize * k + RecordSize + RecordSize * d
  BY <1>1, <1>2
<1>4. RecordSize * d \in Nat /\ RecordSize * k \in Nat
  BY <1>1, <1>2
<1> QED
  BY <1>1, <1>3, <1>4

LEMMA RowsNext ==
  ASSUME NEW n \in Nat
  PROVE  /\ RecordSize * n \in Nat
         /\ RecordSize * (n + 1) = RecordSize * n + RecordSize
BY SizeAssumption

\* The cells of a logged record lie before new_addr.
LEMMA RecordCells ==
  ASSUME LogInv, NEW i \in 1..Len(logged), NEW place \in Places
  PROVE  /\ RecordSize * (i - 1) \in Nat
         /\ RecordSize * (i - 1) + place \in Addresses
         /\ RecordSize * (i - 1) + place < new_addr
<1>1. Len(logged) \in Nat /\ i - 1 \in Nat /\ i - 1 < Len(logged)
  BY LenProperties DEF LogInv, TypeOK
<1>2. RecordSize * (i - 1) + RecordSize <= RecordSize * Len(logged)
  BY <1>1, Rows
<1>3. RecordSize * (i - 1) \in Nat
  BY <1>1, RowsNext
<1> QED
  BY <1>2, <1>3, SizeAssumption
     DEF LogInv, TypeOK, RecordsIntact, Places, Addresses, LastAddress

\* A write into erased cells that ends before the last address is complete.
LEMMA WholeWrite ==
  ASSUME NEW chip \in [Addresses -> (Records \X Places) \cup {Erased}],
         NEW address \in Nat, address + RecordSize <= LastAddress,
         \A a \in Addresses : a >= address => chip[a] = Erased,
         NEW record \in Records
  PROVE  LET after == flash_write_bytes(chip, address, Bytes(record)) IN
         /\ WriteSucceeds(address)
         /\ after \in [Addresses -> (Records \X Places) \cup {Erased}]
         /\ \A place \in Places : after[address + place] = <<record, place>>
         /\ \A a \in Addresses : a < address \/ a >= address + RecordSize => after[a] = chip[a]
<1> DEFINE after == flash_write_bytes(chip, address, Bytes(record))
<1>1. WriteSucceeds(address)
  BY SizeAssumption DEF WriteSucceeds, Places, LastAddress
<1>2. Written(address) = Places
  BY SizeAssumption DEF Written, Places, LastAddress
<1>3. ASSUME NEW a \in Addresses
      PROVE  after[a] = IF a - address \in Places THEN Program(chip[a], <<record, a - address>>)
                                                  ELSE chip[a]
  BY <1>2 DEF flash_write_bytes, Bytes
<1>4. ASSUME NEW a \in Addresses, a - address \in Places
      PROVE  after[a] = <<record, a - address>>
  <2>1. chip[a] = Erased
    BY <1>4 DEF Places, Addresses
  <2> QED
    BY <1>3, <1>4, <2>1 DEF Program
<1>5. ASSUME NEW a \in Addresses, a - address \notin Places
      PROVE  after[a] = chip[a]
  BY <1>3, <1>5
<1>6. after \in [Addresses -> (Records \X Places) \cup {Erased}]
  <2>1. \A a \in Addresses : after[a] \in (Records \X Places) \cup {Erased}
    BY <1>4, <1>5
  <2>2. after = [a \in Addresses |-> after[a]]
    BY DEF flash_write_bytes
  <2> HIDE DEF after
  <2> QED
    BY <2>1, <2>2
<1>7. ASSUME NEW place \in Places
      PROVE  after[address + place] = <<record, place>>
  <2>1. address + place \in Addresses /\ (address + place) - address = place
    BY SizeAssumption DEF Places, Addresses, LastAddress
  <2> QED
    BY <1>4, <2>1
<1>8. ASSUME NEW a \in Addresses, a < address \/ a >= address + RecordSize
      PROVE  after[a] = chip[a]
  <2>1. a - address \notin Places
    BY <1>8, SizeAssumption DEF Places, Addresses
  <2> QED
    BY <1>5, <2>1
<1> QED
  BY <1>1, <1>6, <1>7, <1>8

-----------------------------------------------------------------------------
(* LogInv is inductive. *)

LEMMA InitLog == Init => LogInv
<1> SUFFICES ASSUME Init PROVE LogInv
  OBVIOUS
<1>1. logged = <<>> /\ uploaded = <<>> /\ Len(logged) = 0 /\ Len(uploaded) = 0
  BY DEF Init
<1>2. TypeOK
  <2>1. 0 \in Addresses /\ 0 \in 0..(LastAddress + RecordSize)
    BY SizeAssumption DEF Addresses, LastAddress
  <2>2. logged \in Seq(Records)
    BY <1>1, EmptySeq
  <2> QED
    BY <2>1, <2>2 DEF TypeOK, Init, AllErased
<1>3. RecordsIntact
  BY <1>1, SizeAssumption DEF RecordsIntact, Init, AllErased
<1>4. UploadInv
  BY <1>1, SizeAssumption DEF UploadInv, Init
<1> QED
  BY <1>2, <1>3, <1>4 DEF LogInv

LEMMA UpdateLogStep ==
  ASSUME LogInv, NEW record \in Records, UpdateLog(record)
  PROVE  LogInv'
<1> DEFINE address == IF Full(new_addr) THEN 0 ELSE new_addr
           chip    == IF Full(new_addr) THEN AllErased ELSE flash
           kept    == IF Full(new_addr) THEN <<>> ELSE logged
<1>1. address \in Nat /\ address + RecordSize <= LastAddress
  BY SizeAssumption DEF LogInv, TypeOK, Full, Addresses, LastAddress
<1>2. /\ chip \in [Addresses -> (Records \X Places) \cup {Erased}]
      /\ \A a \in Addresses : a >= address => chip[a] = Erased
  BY DEF LogInv, TypeOK, RecordsIntact, AllErased
<1>3. /\ kept \in Seq(Records) /\ Len(kept) \in Nat
      /\ address = RecordSize * Len(kept)
  BY SizeAssumption, LenProperties DEF LogInv, TypeOK, RecordsIntact
<1>4. logged' = Append(kept, record)
  <2>1. <<record>> = Append(<<>>, record)
    <3>1. /\ <<record>> \in Seq(Records) /\ Append(<<>>, record) \in Seq(Records)
          /\ Len(<<record>>) = 1 /\ Len(Append(<<>>, record)) = 1
      OBVIOUS
    <3>2. <<record>>[1] = record /\ Append(<<>>, record)[1] = record
      OBVIOUS
    <3> QED
      BY <3>1, <3>2, SeqEqual
  <2>2. CASE Full(new_addr)
    BY <2>1, <2>2 DEF UpdateLog
  <2>3. CASE ~Full(new_addr)
    BY <2>3 DEF UpdateLog
  <2> QED
    BY <2>2, <2>3
<1>5. /\ logged' \in Seq(Records)
      /\ logged' # <<>>
      /\ Len(logged') = Len(kept) + 1
      /\ logged'[Len(kept) + 1] = record
      /\ \A i \in 1..Len(kept) : logged'[i] = kept[i]
  BY <1>3, <1>4, AppendProperties
<1>6. flash' = flash_write_bytes(chip, address, Bytes(record))
  BY DEF UpdateLog, Wrapped
<1>7. /\ WriteSucceeds(address)
      /\ flash' \in [Addresses -> (Records \X Places) \cup {Erased}]
      /\ \A place \in Places : flash'[address + place] = <<record, place>>
      /\ \A a \in Addresses : a < address \/ a >= address + RecordSize => flash'[a] = chip[a]
  <2> HIDE DEF address, chip
  <2> QED
    BY <1>1, <1>2, <1>6, WholeWrite
<1>8. /\ new_addr' = address + RecordSize
      /\ new_addr' = RecordSize * Len(logged')
      /\ new_addr' \in Addresses
  <2>1. new_addr' = address + RecordSize
    BY <1>7 DEF UpdateLog
  <2>2. RecordSize * (Len(kept) + 1) = RecordSize * Len(kept) + RecordSize
    BY <1>3, RowsNext
  <2>3. new_addr' \in Addresses
    BY <2>1, <1>1, SizeAssumption DEF Addresses, LastAddress
  <2> HIDE DEF address, kept
  <2> QED
    BY <2>1, <2>2, <2>3, <1>3, <1>5
<1>9. at = "loop" /\ uploaded = <<>> /\ Len(uploaded) = 0 /\ new_addr_write = 0
  BY SizeAssumption DEF LogInv, UploadInv, UpdateLog
<1>10. UNCHANGED <<log_active_flag, log_upload_flag, at, uploaded>> /\ new_addr_write' = 0
  BY <1>9 DEF UpdateLog, flags
<1>11. TypeOK'
  BY <1>5, <1>7, <1>8, <1>10, SizeAssumption DEF LogInv, TypeOK, LastAddress
<1>12. RecordsIntact'
  <2>1. ASSUME NEW i \in 1..Len(logged'), NEW place \in Places
        PROVE  flash'[RecordSize * (i - 1) + place] = <<logged'[i], place>>
    <3>1. CASE i = Len(kept) + 1
      <4>1. RecordSize * (i - 1) = address
        BY <1>3, <3>1
      <4> HIDE DEF address, kept
      <4> QED
        BY <1>5, <1>7, <3>1, <4>1
    <3>2. CASE i \in 1..Len(kept)
      <4>1. ~Full(new_addr) /\ i \in 1..Len(logged) /\ kept = logged /\ chip = flash
            /\ address = new_addr
        BY <3>2
      <4>2. /\ RecordSize * (i - 1) + place \in Addresses
            /\ RecordSize * (i - 1) + place < address
        BY <4>1, RecordCells
      <4>3. flash'[RecordSize * (i - 1) + place] = flash[RecordSize * (i - 1) + place]
        BY <1>7, <4>1, <4>2
      <4>4. flash[RecordSize * (i - 1) + place] = <<logged[i], place>>
        BY <4>1 DEF LogInv, RecordsIntact
      <4> QED
        BY <1>5, <3>2, <4>1, <4>3, <4>4
    <3> HIDE DEF kept
    <3>3. i = Len(kept) + 1 \/ i \in 1..Len(kept)
      BY <1>3, <1>5
    <3> QED
      BY <3>1, <3>2, <3>3
  <2>2. ASSUME NEW a \in Addresses, a >= new_addr'
        PROVE  flash'[a] = Erased
    <3>1. a >= address + RecordSize /\ a >= address
      BY <2>2, <1>1, <1>8, SizeAssumption DEF Addresses, LastAddress
    <3> HIDE DEF address, chip
    <3> QED
      BY <1>2, <1>7, <3>1
  <2> HIDE DEF address, kept, chip
  <2> QED
    BY <1>8, <2>1, <2>2 DEF RecordsIntact
<1>13. UploadInv'
  <2>1. Len(uploaded') = 0 /\ Len(logged') \in Nat /\ uploaded' = <<>> /\ at' = "loop"
    BY <1>5, <1>9, <1>10, LenProperties
  <2>2. 0 = RecordSize * 0
    BY SizeAssumption
  <2>3. uploaded' \in Seq(Lines')
    BY <2>1
  <2> QED
    BY <1>10, <2>1, <2>2, <2>3 DEF UploadInv
<1> QED
  BY <1>11, <1>12, <1>13 DEF LogInv

LEMMA LogCommandStep ==
  ASSUME LogInv, LogCommand
  PROVE  LogInv'
<1>1. UNCHANGED <<flash, new_addr, new_addr_write, at, logged, uploaded>>
  BY DEF LogCommand
<1>2. TypeOK'
  BY <1>1 DEF LogInv, TypeOK, LogCommand
<1>3. RecordsIntact' /\ UploadInv'
  BY <1>1 DEF LogInv, RecordsIntact, UploadInv, Lines
<1> QED
  BY <1>2, <1>3 DEF LogInv

LEMMA StartUploadStep ==
  ASSUME LogInv, StartUpload
  PROVE  LogInv'
<1>1. UNCHANGED <<flash, new_addr, new_addr_write, log_active_flag, log_upload_flag, logged, uploaded>>
  BY DEF StartUpload, flags
<1>2. at = "loop" /\ uploaded = <<>> /\ at' \in {"upload", "stop"}
  BY DEF StartUpload, LogInv, UploadInv
<1>3. TypeOK'
  BY <1>1, <1>2 DEF LogInv, TypeOK
<1>4. RecordsIntact'
  BY <1>1 DEF LogInv, RecordsIntact
<1>5. UploadInv'
  BY <1>1, <1>2 DEF LogInv, UploadInv, Lines
<1> QED
  BY <1>3, <1>4, <1>5 DEF LogInv

\* A line read where a record begins is that record: reading does not go past the chip.
LEMMA ReadRecord ==
  ASSUME LogInv, NEW i \in 1..Len(logged)
  PROVE  ReadBytes(RecordSize * (i - 1)) = Bytes(logged[i])
<1>1. ASSUME NEW place \in Places
      PROVE  flash[(RecordSize * (i - 1) + place) % FlashSize] = <<logged[i], place>>
  <2>1. RecordSize * (i - 1) + place \in Addresses
    BY RecordCells
  <2>2. (RecordSize * (i - 1) + place) % FlashSize = RecordSize * (i - 1) + place
    <3> DEFINE a == RecordSize * (i - 1) + place
    <3>1. a \in 0..(FlashSize - 1)
      BY <2>1 DEF Addresses, LastAddress
    <3> HIDE DEF a
    <3>2. a % FlashSize = a
      BY <3>1, SizeAssumption
    <3> QED
      BY <3>2 DEF a
  <2> QED
    BY <2>2 DEF LogInv, RecordsIntact
<1> QED
  BY <1>1 DEF ReadBytes, Bytes

LEMMA SendLineStep ==
  ASSUME LogInv, SendLine
  PROVE  LogInv'
<1> DEFINE line == ReadBytes(new_addr_write)
           n    == Len(uploaded)
<1>1. /\ UNCHANGED <<flash, new_addr, log_active_flag, logged>>
      /\ at = "upload" /\ uploaded' = Append(uploaded, line)
      /\ new_addr_write' = new_addr_write + RecordSize
  BY DEF SendLine
<1>2. line \in Lines
  <2>1. \A place \in Places : (new_addr_write + place) % FlashSize \in Addresses
    BY SizeAssumption DEF LogInv, TypeOK, Places, Addresses, LastAddress
  <2> QED
    BY <2>1 DEF ReadBytes, Lines, LogInv, TypeOK
<1>3. /\ n \in Nat /\ Len(logged) \in Nat
      /\ new_addr_write = RecordSize * n
      /\ uploaded \in Seq(Lines)
      /\ uploaded = <<>> \/ n < Len(logged)
  BY <1>1, LenProperties DEF LogInv, TypeOK, UploadInv
<1>4. /\ uploaded' \in Seq(Lines) /\ uploaded' # <<>>
      /\ Len(uploaded') = n + 1
      /\ uploaded'[n + 1] = line
      /\ \A i \in 1..n : uploaded'[i] = uploaded[i]
  BY <1>1, <1>2, <1>3, AppendProperties
<1>5. new_addr_write' = RecordSize * (n + 1)
  BY <1>1, <1>3, RowsNext
<1>6. logged # <<>> => n < Len(logged)
  <2>1. logged # <<>> => Len(logged) > 0
    BY EmptySeq DEF LogInv, TypeOK
  <2>2. uploaded = <<>> => n = 0
    OBVIOUS
  <2> HIDE DEF n
  <2> QED
    BY <1>3, <2>1, <2>2
<1>7. new_addr = RecordSize * Len(logged)
  BY DEF LogInv, RecordsIntact
\* The upload goes on just when there are more records.
<1>8. LastLine(new_addr_write') <=> n + 1 >= Len(logged)
  <2> HIDE DEF n
  <2>1. ASSUME n + 1 < Len(logged)
        PROVE  new_addr_write' < new_addr
    <3>1. RecordSize * (n + 1) + RecordSize <= RecordSize * Len(logged)
      BY <1>3, <2>1, Rows
    <3>2. RecordSize * (n + 1) \in Nat /\ RecordSize * Len(logged) \in Nat
      BY <1>3, RowsNext
    <3> QED
      BY <1>5, <1>7, <3>1, <3>2, SizeAssumption
  <2>2. ASSUME n + 1 >= Len(logged)
        PROVE  new_addr_write' >= new_addr
    <3>1. CASE n + 1 = Len(logged)
      <4>1. new_addr_write' = new_addr
        BY <1>5, <1>7, <3>1
      <4>2. new_addr \in Nat
        BY <1>3, <1>7, RowsNext
      <4> QED
        BY <4>1, <4>2
    <3>2. CASE Len(logged) < n + 1
      <4>1. RecordSize * Len(logged) + RecordSize <= RecordSize * (n + 1)
        BY <1>3, <3>2, Rows
      <4>2. RecordSize * (n + 1) \in Nat /\ RecordSize * Len(logged) \in Nat
        BY <1>3, RowsNext
      <4> QED
        BY <1>5, <1>7, <4>1, <4>2, SizeAssumption
    <3> QED
      BY <1>3, <2>2, <3>1, <3>2
  <2>3. new_addr_write' \in Nat /\ new_addr \in Nat
    BY <1>3, <1>5, <1>7, RowsNext
  <2> QED
    BY <1>3, <2>1, <2>2, <2>3 DEF LastLine
<1>9. /\ at' \in {"upload", "stop"}
      /\ at' = "stop" <=> n + 1 >= Len(logged)
      /\ log_upload_flag' \in BOOLEAN
  BY <1>1, <1>8 DEF SendLine, LogInv, TypeOK
<1>10. TypeOK'
  <2>1. new_addr_write' \in 0..(LastAddress + RecordSize)
    <3>1. new_addr_write <= new_addr
      <4> HIDE DEF n
      <4>1. CASE n = 0
        BY <1>3, <4>1, SizeAssumption DEF LogInv, TypeOK, Addresses
      <4>2. CASE n < Len(logged)
        <5>1. RecordSize * n + RecordSize <= RecordSize * Len(logged)
          BY <1>3, <4>2, Rows
        <5>2. RecordSize * n \in Nat /\ RecordSize * Len(logged) \in Nat
          BY <1>3, RowsNext
        <5> QED
          BY <1>3, <1>7, <5>1, <5>2, SizeAssumption
      <4>3. uploaded = <<>> => n = 0
        BY DEF n
      <4> QED
        BY <1>3, <4>1, <4>2, <4>3
    <3> QED
      BY <1>1, <3>1, SizeAssumption DEF LogInv, TypeOK, Addresses, LastAddress
  <2> QED
    BY <1>1, <1>9, <2>1 DEF LogInv, TypeOK
<1>11. RecordsIntact'
  BY <1>1 DEF LogInv, RecordsIntact
<1>12. UploadInv'
  <2>1. ASSUME logged # <<>>, NEW i \in 1..(n + 1)
        PROVE  uploaded'[i] = Bytes(logged[i])
    <3>1. CASE i \in 1..n
      BY <1>4, <2>1, <3>1 DEF LogInv, UploadInv
    <3>2. CASE i = n + 1
      <4>1. n + 1 \in 1..Len(logged)
        BY <1>3, <1>6, <2>1
      <4>2. ReadBytes(RecordSize * ((n + 1) - 1)) = Bytes(logged[n + 1])
        BY <4>1, ReadRecord
      <4>3. (n + 1) - 1 = n
        BY <1>3
      <4> QED
        BY <1>3, <1>4, <3>2, <4>2, <4>3
    <3> QED
      BY <1>3, <3>1, <3>2
  <2>2. Lines' = Lines
    BY DEF Lines
  <2> HIDE DEF n, line
  <2> QED
    BY <1>1, <1>3, <1>4, <1>5, <1>6, <1>9, <2>1, <2>2 DEF UploadInv
<1> QED
  BY <1>10, <1>11, <1>12 DEF LogInv

LEMMA RestartStep ==
  ASSUME Restart
  PROVE  LogInv'
<1>1. Init'
  BY DEF Restart, Init
<1>2. Init' => LogInv'
  BY InitLog, PTL
<1> QED
  BY <1>1, <1>2

LEMMA NextLog == LogInv /\ [Next]_vars => LogInv'
<1> SUFFICES ASSUME LogInv, [Next]_vars PROVE LogInv'
  OBVIOUS
<1>1. ASSUME NEW record \in Records, UpdateLog(record) PROVE LogInv'
  BY <1>1, UpdateLogStep
<1>2. CASE LogCommand
  BY <1>2, LogCommandStep
<1>3. CASE StartUpload
  BY <1>3, StartUploadStep
<1>4. CASE SendLine
  BY <1>4, SendLineStep
<1>5. CASE Restart
  BY <1>5, RestartStep
<1>6. CASE UNCHANGED vars
  BY <1>6 DEF vars, flags, LogInv, TypeOK, RecordsIntact, UploadInv, Lines
<1> QED
  BY <1>1, <1>2, <1>3, <1>4, <1>5, <1>6 DEF Next

-----------------------------------------------------------------------------
(* What the runs check, for every size of the chip. *)

\* LogInv implies UploadFaithful.
LEMMA LogFaithful == LogInv => UploadFaithful
<1> SUFFICES ASSUME LogInv, logged # <<>>
             PROVE  LET lines == [i \in 1..Len(logged) |-> Bytes(logged[i])] IN
                    /\ IsPrefix(uploaded, lines)
                    /\ at = "stop" /\ uploaded # <<>> => uploaded = lines
  BY DEF UploadFaithful
<1> DEFINE lines == [i \in 1..Len(logged) |-> Bytes(logged[i])]
<1>1. Len(logged) \in Nat /\ Len(uploaded) \in Nat /\ Len(uploaded) <= Len(logged)
  BY LenProperties DEF LogInv, TypeOK, UploadInv
<1>2. Len(lines) = Len(logged) /\ \A i \in 1..Len(logged) : lines[i] = Bytes(logged[i])
  BY <1>1
<1>3. lines \in Seq(Lines)
  <2>1. \A i \in 1..Len(logged) : Bytes(logged[i]) \in Lines
    <3>1. \A i \in 1..Len(logged) : logged[i] \in Records
      BY ElementOfSeq DEF LogInv, TypeOK
    <3> QED
      BY <3>1 DEF Bytes, Lines
  <2> QED
    BY <1>1, <2>1
<1>4. uploaded \in Seq(Lines) /\ \A i \in 1..Len(uploaded) : uploaded[i] = lines[i]
  BY <1>1, <1>2 DEF LogInv, UploadInv
<1> HIDE DEF lines
<1>5. IsPrefix(uploaded, lines)
  <2> DEFINE prefix == SubSeq(lines, 1, Len(uploaded))
  <2>1. \A i \in 1..Len(uploaded) : lines[i] \in Lines
    BY <1>1, <1>2, <1>3, ElementOfSeq
  <2>2. /\ prefix \in Seq(Lines)
        /\ Len(prefix) = Len(uploaded)
        /\ \A i \in 1..Len(uploaded) : prefix[i] = lines[i]
    <3>1. /\ prefix \in Seq(Lines)
          /\ Len(prefix) = IF 1 <= Len(uploaded) THEN Len(uploaded) - 1 + 1 ELSE 0
          /\ \A i \in 1..Len(uploaded) - 1 + 1 : prefix[i] = lines[1 + i - 1]
      BY <1>1, <2>1, SubSeqProperties
    <3> HIDE DEF prefix
    <3> QED
      BY <1>1, <3>1
  <2>3. uploaded = prefix
    <3> HIDE DEF prefix
    <3> QED
      BY <1>4, <2>2, SeqEqual
  <2>4. SubSeq(uploaded, 1, Len(uploaded)) = uploaded
    BY <1>4, SubSeqFull
  <2> QED
    BY <1>1, <1>2, <2>3, <2>4 DEF IsPrefix
<1>6. at = "stop" /\ uploaded # <<>> => uploaded = lines
  <2>1. at = "stop" /\ uploaded # <<>> => Len(uploaded) = Len(lines)
    BY <1>2 DEF LogInv, UploadInv
  <2> QED
    BY <1>3, <1>4, <2>1, SeqEqual
<1> QED
  BY <1>5, <1>6 DEF lines

\* The strengthened invariant of the flight log (log.c, spi_flash.c).
THEOREM LogSafe == Spec => []LogInv
<1> QED
  BY InitLog, NextLog, PTL DEF Spec

\* The addresses of update_log and log_upload stay on the chip (log.c:21-98).
THEOREM LogTypeCorrect == Spec => []TypeOK
<1>1. LogInv => TypeOK
  BY DEF LogInv
<1> QED
  BY <1>1, LogSafe, PTL

\* The chip holds the records since the last erase, complete and in order, whatever the
\* sizes: the two tests for a full chip (log.c:31, spi_flash.c:341) agree.
THEOREM RecordsAreIntact == Spec => []RecordsIntact
<1>1. LogInv => RecordsIntact
  BY DEF LogInv
<1> QED
  BY <1>1, LogSafe, PTL

\* An upload sends exactly the logged records, in order (log.c:75-98).
THEOREM UploadIsFaithful == Spec => []UploadFaithful
<1> QED
  BY LogFaithful, LogSafe, PTL

=============================================================================
