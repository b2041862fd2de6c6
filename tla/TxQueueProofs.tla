--------------------------- MODULE TxQueueProofs ---------------------------
(***************************************************************************)
(* Proofs about TxQueue, for any size of the ring, any bytes and any       *)
(* number of them.                                                         *)
(***************************************************************************)
EXTENDS TxQueue, SequenceTheorems, TLAPS

-----------------------------------------------------------------------------
(* The ring.  No position is more than four rounds away. *)

At(a) == a % QUEUE_SIZE

LEMMA Around ==
  ASSUME NEW a \in 0..(4 * QUEUE_SIZE - 1)
  PROVE  /\ At(a) \in Slots
         /\ a < QUEUE_SIZE => At(a) = a
         /\ a \in QUEUE_SIZE..(2 * QUEUE_SIZE - 1) => At(a) = a - QUEUE_SIZE
         /\ a \in (2 * QUEUE_SIZE)..(3 * QUEUE_SIZE - 1) => At(a) = a - 2 * QUEUE_SIZE
         /\ a >= 3 * QUEUE_SIZE => At(a) = a - 3 * QUEUE_SIZE
<1>1. QUEUE_SIZE \in Nat \ {0}
  BY SizeAssumption
<1>2. At(a) \in Slots
  BY <1>1 DEF Slots, At
<1>3. a < QUEUE_SIZE => At(a) = a
  BY <1>1 DEF At
<1>4. a \in QUEUE_SIZE..(2 * QUEUE_SIZE - 1) => At(a) = a - QUEUE_SIZE
  BY <1>1 DEF At
<1>5. a \in (2 * QUEUE_SIZE)..(3 * QUEUE_SIZE - 1) => At(a) = a - 2 * QUEUE_SIZE
  BY <1>1 DEF At
<1>6. a >= 3 * QUEUE_SIZE => At(a) = a - 3 * QUEUE_SIZE
  BY <1>1 DEF At
<1> QED
  BY <1>2, <1>3, <1>4, <1>5, <1>6

\* The ring's part of TypeOK.
RingOK ==
  /\ Data \in [Slots -> Bytes] /\ first \in Slots /\ last \in Slots
  /\ count \in 0..(COUNT_SIZE - 1)
  /\ last = At(first + count + QUEUE_SIZE - 1)

LEMMA Cell ==
  ASSUME NEW d \in [Slots -> Bytes], NEW f \in Slots, NEW i \in 1..(COUNT_SIZE - 1)
  PROVE  d[At(f + i - 1)] \in Bytes
<1>1. f + i - 1 \in 0..(4 * QUEUE_SIZE - 1)
  BY SizeAssumption DEF Slots
<1> QED
  BY <1>1, Around

\* A byte queued comes after the others.  All but the last QUEUE_SIZE - 1 of them may be
\* overwritten, and if the count wraps all are forgotten.
LEMMA EnqueueRing ==
  ASSUME RingOK, NEW b \in Bytes, enqueue(b)
  PROVE  /\ RingOK'
         /\ count + 1 = COUNT_SIZE => count' = 0
         /\ count + 1 < COUNT_SIZE =>
              /\ count' = count + 1
              /\ Contents'[count + 1] = b
              /\ \A i \in 1..count : i > count + 1 - QUEUE_SIZE => Contents'[i] = Contents[i]
<1>1. /\ QUEUE_SIZE \in Nat \ {0} /\ COUNT_SIZE = 2 * QUEUE_SIZE
      /\ count \in 0..(2 * QUEUE_SIZE - 1) /\ first \in 0..(QUEUE_SIZE - 1)
      /\ last \in 0..(QUEUE_SIZE - 1)
  BY SizeAssumption DEF RingOK, Slots
<1>2. first' = first /\ Data' = [Data EXCEPT ![last'] = b]
      /\ last' = At(last + 1) /\ count' = (count + 1) % COUNT_SIZE
  BY DEF enqueue, At
<1>3. count + 1 = COUNT_SIZE => count' = 0
  BY <1>1, <1>2
<1>4. count + 1 < COUNT_SIZE => count' = count + 1
  BY <1>1, <1>2
<1>5. first + count \in 0..(4 * QUEUE_SIZE - 1) /\ first + count < 3 * QUEUE_SIZE
  BY <1>1
<1>6. last' = At(first + count) /\ last' \in Slots
  <2>1. first + count + QUEUE_SIZE - 1 \in 0..(4 * QUEUE_SIZE - 1)
    BY <1>1
  <2>2. last + 1 \in 0..(4 * QUEUE_SIZE - 1)
    BY <1>1
  <2>3. last = At(first + count + QUEUE_SIZE - 1)
    BY DEF RingOK
  <2>4. /\ first + count + QUEUE_SIZE - 1 < QUEUE_SIZE => last = first + count + QUEUE_SIZE - 1
        /\ first + count + QUEUE_SIZE - 1 \in QUEUE_SIZE..(2 * QUEUE_SIZE - 1)
             => last = first + count - 1
        /\ first + count + QUEUE_SIZE - 1 \in (2 * QUEUE_SIZE)..(3 * QUEUE_SIZE - 1)
             => last = first + count - 1 - QUEUE_SIZE
        /\ first + count + QUEUE_SIZE - 1 >= 3 * QUEUE_SIZE
             => last = first + count - 1 - 2 * QUEUE_SIZE
    BY <2>1, <2>3, Around, <1>1
  <2>5. /\ last + 1 < QUEUE_SIZE => last' = last + 1
        /\ last + 1 = QUEUE_SIZE => last' = 0
    BY <2>2, <1>1, <1>2, Around
  <2>6. /\ first + count < QUEUE_SIZE => At(first + count) = first + count
        /\ first + count \in QUEUE_SIZE..(2 * QUEUE_SIZE - 1)
             => At(first + count) = first + count - QUEUE_SIZE
        /\ first + count \in (2 * QUEUE_SIZE)..(3 * QUEUE_SIZE - 1)
             => At(first + count) = first + count - 2 * QUEUE_SIZE
    BY <1>1, <1>5, Around
  <2>7. At(first + count) \in Slots
    BY <1>5, Around
  <2>8. last' = At(first + count)
    BY <2>4, <2>5, <2>6, <1>1
  <2> QED
    BY <2>7, <2>8
<1>7. RingOK'
  <2>1. Data' \in [Slots -> Bytes] /\ first' \in Slots
    BY <1>2, <1>6 DEF RingOK
  <2>2. count' \in 0..(COUNT_SIZE - 1)
    BY <1>1, <1>3, <1>4
  <2>3. last' = At(first' + count' + QUEUE_SIZE - 1)
    <3>1. CASE count + 1 < COUNT_SIZE
      <4>1. first' + count' + QUEUE_SIZE - 1 = first + count + QUEUE_SIZE
        BY <3>1, <1>1, <1>2, <1>4
      <4>2. first + count + QUEUE_SIZE \in 0..(4 * QUEUE_SIZE - 1)
        BY <3>1, <1>1
      <4>3. At(first + count + QUEUE_SIZE) = At(first + count)
        BY <4>2, <1>1, <1>5, Around
      <4> QED
        BY <4>1, <4>3, <1>6
    <3>2. CASE count + 1 = COUNT_SIZE
      <4>0. first' = first /\ count' = 0 /\ count = 2 * QUEUE_SIZE - 1
        BY <3>2, <1>1, <1>2, <1>3
      <4>1. first' + count' + QUEUE_SIZE - 1 = first + QUEUE_SIZE - 1
            /\ first + count = first + 2 * QUEUE_SIZE - 1
        BY <4>0, <1>1
      <4>2. first + QUEUE_SIZE - 1 \in 0..(4 * QUEUE_SIZE - 1)
        BY <1>1
      <4>3. At(first + QUEUE_SIZE - 1) = At(first + count)
        BY <4>1, <4>2, <1>1, <1>5, Around
      <4> QED
        BY <4>1, <4>3, <1>6
    <3> QED
      BY <3>1, <3>2, <1>1
  <2> QED
    BY <1>6, <2>1, <2>2, <2>3 DEF RingOK
<1>8. ASSUME count + 1 < COUNT_SIZE
      PROVE  Contents'[count + 1] = b
  <2>1. Contents'[count + 1] = Data'[At(first' + (count + 1) - 1)]
    BY <1>1, <1>4, <1>8 DEF Contents, At
  <2>2. first' + (count + 1) - 1 = first + count
    BY <1>1, <1>2
  <2> QED
    BY <2>1, <2>2, <1>2, <1>6 DEF RingOK
<1>9. ASSUME count + 1 < COUNT_SIZE, NEW i \in 1..count, i > count + 1 - QUEUE_SIZE
      PROVE  Contents'[i] = Contents[i]
  <2>1. Contents'[i] = Data'[At(first' + i - 1)]
    BY <1>1, <1>4, <1>9 DEF Contents, At
  <2>2. Contents[i] = Data[At(first + i - 1)]
    BY <1>1 DEF Contents, At
  <2>3. first + i - 1 \in 0..(4 * QUEUE_SIZE - 1)
    BY <1>1
  <2>4. At(first + i - 1) # At(first + count)
    BY <2>3, <1>1, <1>5, <1>9, Around
  <2>5. At(first + i - 1) \in Slots
    BY <2>3, Around
  <2> QED
    BY <2>1, <2>2, <2>4, <2>5, <1>2, <1>6 DEF RingOK
<1> QED
  BY <1>3, <1>4, <1>7, <1>8, <1>9

\* Taking a byte takes the first.
LEMMA DequeueRing ==
  ASSUME RingOK, count > 0, dequeue
  PROVE  /\ RingOK'
         /\ Data[first] \in Bytes /\ count' = count - 1
         /\ Contents = <<Data[first]>> \o Contents'
<1>1. /\ QUEUE_SIZE \in Nat \ {0} /\ COUNT_SIZE = 2 * QUEUE_SIZE
      /\ count \in 1..(2 * QUEUE_SIZE - 1) /\ first \in 0..(QUEUE_SIZE - 1)
  BY SizeAssumption DEF RingOK, Slots
<1>2. /\ first' = At(first + 1) /\ count' = count - 1
      /\ Data' = Data /\ last' = last
  BY DEF dequeue, At
<1>3. /\ first + 1 < QUEUE_SIZE => first' = first + 1
      /\ first + 1 = QUEUE_SIZE => first' = 0
      /\ first' \in Slots
  <2>1. first + 1 \in 0..(4 * QUEUE_SIZE - 1)
    BY <1>1
  <2> QED
    BY <2>1, <1>1, <1>2, Around
<1>4. ASSUME NEW n \in 0..(3 * QUEUE_SIZE - 2)
      PROVE  At(first' + n) = At(first + 1 + n)
  <2>1. first + 1 + n \in 0..(4 * QUEUE_SIZE - 1)
    BY <1>1
  <2>2. CASE first + 1 < QUEUE_SIZE
    BY <2>2, <1>3
  <2>3. CASE first + 1 = QUEUE_SIZE
    <3>1. first' + n = n /\ first + 1 + n = n + QUEUE_SIZE /\ n \in 0..(4 * QUEUE_SIZE - 1)
      BY <2>3, <1>1, <1>3
    <3>2. At(n + QUEUE_SIZE) = At(n)
      BY <2>1, <3>1, <1>1, Around
    <3> QED
      BY <3>1, <3>2
  <2> QED
    BY <2>2, <2>3, <1>1
<1>5. RingOK'
  <2>1. count' + QUEUE_SIZE - 1 \in 0..(3 * QUEUE_SIZE - 2)
    BY <1>1, <1>2
  <2>2. At(first' + (count' + QUEUE_SIZE - 1))
          = At(first + 1 + (count' + QUEUE_SIZE - 1))
    BY <2>1, <1>4
  <2>3. first' + (count' + QUEUE_SIZE - 1) = first' + count' + QUEUE_SIZE - 1
        /\ first + 1 + (count' + QUEUE_SIZE - 1) = first + count + QUEUE_SIZE - 1
    BY <1>1, <1>2, <1>3 DEF Slots
  <2> QED
    BY <2>2, <2>3, <1>1, <1>2, <1>3 DEF RingOK
<1>6. Data[first] \in Bytes
  BY DEF RingOK
<1>7. /\ Contents \in Seq(Bytes) /\ Len(Contents) = count
      /\ \A i \in 1..count : Contents[i] = Data[At(first + i - 1)]
  <2>1. Contents = [i \in 1..count |-> Data[At(first + i - 1)]]
    BY DEF Contents, At
  <2>2. \A i \in 1..count : Data[At(first + i - 1)] \in Bytes
    BY <1>1, Cell DEF RingOK
  <2> QED
    BY <2>1, <2>2, <1>1
<1>8. /\ Contents' \in Seq(Bytes) /\ Len(Contents') = count - 1
      /\ \A i \in 1..(count - 1) : Contents'[i] = Data[At(first' + i - 1)]
  <2>1. Contents' = [i \in 1..(count - 1) |-> Data[At(first' + i - 1)]]
    BY <1>2 DEF Contents, At
  <2>2. \A i \in 1..(count - 1) : Data[At(first' + i - 1)] \in Bytes
    BY <1>1, <1>3, Cell DEF RingOK
  <2> QED
    BY <2>1, <2>2, <1>1
<1>9. Contents = <<Data[first]>> \o Contents'
  <2>1. /\ <<Data[first]>> \o Contents' \in Seq(Bytes)
        /\ Len(<<Data[first]>> \o Contents') = count
        /\ (<<Data[first]>> \o Contents')[1] = Data[first]
        /\ \A i \in 2..count : (<<Data[first]>> \o Contents')[i] = Contents'[i - 1]
    BY <1>1, <1>6, <1>8
  <2>2. ASSUME NEW i \in 1..count
        PROVE  Contents[i] = (<<Data[first]>> \o Contents')[i]
    <3>1. CASE i = 1
      <4>1. first + 1 - 1 = first /\ first \in 0..(4 * QUEUE_SIZE - 1)
        BY <1>1
      <4>2. At(first) = first
        BY <4>1, <1>1, Around
      <4> QED
        BY <3>1, <4>1, <4>2, <1>7, <2>1
    <3>2. CASE i # 1
      <4>1. i \in 2..count /\ i - 1 \in 1..(count - 1) /\ i - 2 \in 0..(3 * QUEUE_SIZE - 2)
        BY <3>2, <1>1
      <4>2. Contents'[i - 1] = Data[At(first' + (i - 1) - 1)]
        BY <4>1, <1>8
      <4>3. first' + (i - 1) - 1 = first' + (i - 2) /\ first + 1 + (i - 2) = first + i - 1
        BY <4>1, <1>1, <1>3 DEF Slots
      <4>4. At(first' + (i - 2)) = At(first + 1 + (i - 2))
        BY <4>1, <1>4
      <4> QED
        BY <4>1, <4>2, <4>3, <4>4, <1>7, <2>1
    <3> QED
      BY <3>1, <3>2
  <2> QED
    BY <1>7, <2>1, <2>2, SeqEqual
<1> QED
  BY <1>2, <1>5, <1>6, <1>9

-----------------------------------------------------------------------------
(* What is preserved: types, the handshake, and the mask around uart_put. *)

\* While main is in uart_put no handler runs, and what it read of txd_available is still so.
Masking ==
  /\ at # "out" => ~irq_enabled /\ ~reporting
  /\ at = "store" => direct = txd_available

LineTypes ==
  /\ txd_available \in BOOLEAN /\ TXD \in Bytes \cup {Nothing} /\ EVENTS_TXDRDY \in BOOLEAN

MainTypes ==
  /\ irq_enabled \in BOOLEAN
  /\ at \in {"out", "test", "store", "return"} /\ byte \in Bytes /\ direct \in BOOLEAN
  /\ reporting \in BOOLEAN
  /\ sent \in Seq(Bytes)

TxInv == RingOK /\ LineTypes /\ MainTypes /\ Handshake /\ Masking

\* The bytes waiting: the one in TXD, then those in the ring.
LEMMA WaitingIs ==
  ASSUME RingOK, LineTypes
  PROVE  /\ Contents \in Seq(Bytes) /\ Len(Contents) = count
         /\ TXD = Nothing => Waiting = Contents
         /\ TXD # Nothing => Waiting = <<TXD>> \o Contents
<1>1. \A i \in 1..count : Data[At(first + i - 1)] \in Bytes
  BY SizeAssumption, Cell DEF RingOK
<1>2. count \in Nat
  BY SizeAssumption DEF RingOK
<1>3. Contents \in Seq(Bytes) /\ Len(Contents) = count
  BY <1>1, <1>2 DEF Contents, At
<1>4. <<>> \o Contents = Contents
  BY <1>3
<1> QED
  BY <1>3, <1>4 DEF Waiting

\* A byte put on the free line or into the ring.
LEMMA StoreByteStep ==
  ASSUME RingOK, LineTypes, Handshake, NEW b \in Bytes, Store(b, txd_available),
         UNCHANGED <<EVENTS_TXDRDY, sent>>
  PROVE  /\ RingOK' /\ LineTypes' /\ Handshake'
         /\ Line!Put(b) \/ Line!Overflow
<1>1. b # Nothing
  BY NothingAssumption
<1>2. CASE txd_available
  <2>1. txd_available' = FALSE /\ TXD' = b /\ UNCHANGED queueVars
    BY <1>2 DEF Store
  <2>2. TXD = Nothing /\ ~EVENTS_TXDRDY /\ count = 0
    BY <1>2, SizeAssumption DEF Handshake, RingOK
  <2>3. RingOK' /\ LineTypes' /\ Handshake'
    BY <1>1, <2>1, <2>2 DEF RingOK, LineTypes, Handshake, queueVars
  <2>4. Waiting = <<>> /\ Waiting' = <<b>>
    <3>1. Contents = <<>> /\ Contents' = <<>>
      BY <2>1, <2>2 DEF Contents, queueVars
    <3> QED
      BY <3>1, <2>1, <2>2, <1>1 DEF Waiting
  <2>5. Line!Put(b)
    BY <2>4 DEF Line!Put
  <2> QED
    BY <2>3, <2>5
<1>3. CASE ~txd_available
  <2>1. enqueue(b) /\ UNCHANGED <<txd_available, TXD>>
    BY <1>3 DEF Store
  <2>2. /\ RingOK'
        /\ count + 1 = COUNT_SIZE => count' = 0
        /\ count + 1 < COUNT_SIZE =>
             /\ count' = count + 1
             /\ Contents'[count + 1] = b
             /\ \A i \in 1..count : i > count + 1 - QUEUE_SIZE => Contents'[i] = Contents[i]
    BY <2>1, EnqueueRing
  <2>3. LineTypes' /\ Handshake'
    BY <1>3, <2>1 DEF LineTypes, Handshake
  <2>4. /\ Contents \in Seq(Bytes) /\ Len(Contents) = count
        /\ TXD = Nothing => Waiting = Contents
        /\ TXD # Nothing => Waiting = <<TXD>> \o Contents
    BY WaitingIs
  <2>5. /\ Contents' \in Seq(Bytes) /\ Len(Contents') = count'
        /\ TXD = Nothing => Waiting' = Contents'
        /\ TXD # Nothing => Waiting' = <<TXD>> \o Contents'
    <3>1. \A i \in 1..count' : Data'[At(first' + i - 1)] \in Bytes
      BY <2>2, SizeAssumption, Cell DEF RingOK
    <3>2. count' \in Nat
      BY <2>2, SizeAssumption DEF RingOK
    <3>3. Contents' \in Seq(Bytes) /\ Len(Contents') = count'
      BY <3>1, <3>2 DEF Contents, At
    <3>4. <<>> \o Contents' = Contents'
      BY <3>3
    <3> QED
      BY <2>1, <3>3, <3>4 DEF Waiting
  <2>6. /\ QUEUE_SIZE \in Nat \ {0} /\ COUNT_SIZE = 2 * QUEUE_SIZE /\ count \in 0..(COUNT_SIZE - 1)
        /\ TXD \in Bytes \/ TXD = Nothing
    BY SizeAssumption DEF RingOK, LineTypes
  <2>7. CASE count + 1 = COUNT_SIZE
    <3>1. Len(Waiting) + 1 >= COUNT_SIZE
      BY <2>4, <2>6, <2>7
    <3>2. Contents' = <<>>
      BY <2>2, <2>5, <2>7
    <3>3. Waiting' \in {<<>>, <<Head(Waiting)>>}
      <4>1. CASE TXD = Nothing
        BY <4>1, <2>5, <3>2
      <4>2. CASE TXD # Nothing
        <5>1. Waiting' = <<TXD>>
          BY <4>2, <2>5, <2>6, <3>2
        <5>2. Head(Waiting) = TXD
          BY <4>2, <2>4, <2>6
        <5> QED
          BY <5>1, <5>2
      <4> QED
        BY <4>1, <4>2
    <3>4. Line!Overflow
      BY <3>1, <3>3 DEF Line!Overflow
    <3> QED
      BY <2>2, <2>3, <3>4
  <2>8. CASE count + 1 < COUNT_SIZE
    <3>1. CASE TXD = Nothing
      <4>1. /\ Len(Waiting) = count /\ Len(Waiting') = count + 1 /\ Waiting'[count + 1] = b
            /\ \A i \in 1..count : i > count + 1 - QUEUE_SIZE => Waiting'[i] = Waiting[i]
        BY <3>1, <2>2, <2>4, <2>5, <2>8
      <4>2. /\ Len(Waiting') = Len(Waiting) + 1 /\ Waiting'[Len(Waiting) + 1] = b
            /\ \A i \in 1..Len(Waiting) :
                 i > (Len(Waiting) + 1) - QUEUE_SIZE => Waiting'[i] = Waiting[i]
        BY <4>1, <2>6
      <4>3. Line!Put(b)
        BY <4>2 DEF Line!Put
      <4> QED
        BY <4>3, <2>2, <2>3
    <3>2. CASE TXD # Nothing
      <4>1. /\ Len(Waiting) = count + 1 /\ Len(Waiting') = count + 2
            /\ Waiting[1] = TXD /\ Waiting'[1] = TXD
            /\ \A i \in 2..(count + 1) : Waiting[i] = Contents[i - 1]
            /\ \A i \in 2..(count + 2) : Waiting'[i] = Contents'[i - 1]
        BY <3>2, <2>2, <2>4, <2>5, <2>6, <2>8
      <4>2. Waiting'[count + 2] = b
        BY <4>1, <2>2, <2>6, <2>8
      <4>3. ASSUME NEW i \in 1..(count + 1), i > count + 2 - QUEUE_SIZE
            PROVE  Waiting'[i] = Waiting[i]
        <5>1. CASE i = 1
          BY <5>1, <4>1
        <5>2. CASE i # 1
          <6>1. i \in 2..(count + 1) /\ i - 1 \in 1..count /\ i - 1 > count + 1 - QUEUE_SIZE
            BY <5>2, <4>3, <2>6
          <6>2. i \in 2..(count + 2)
            BY <6>1, <2>6
          <6> QED
            BY <6>1, <6>2, <4>1, <2>2, <2>8
        <5> QED
          BY <5>1, <5>2
      <4>4. Len(Waiting') = Len(Waiting) + 1 /\ Waiting'[Len(Waiting) + 1] = b
        BY <4>1, <4>2, <2>6
      <4>5. \A i \in 1..Len(Waiting) :
              i > (Len(Waiting) + 1) - QUEUE_SIZE => Waiting'[i] = Waiting[i]
        BY <4>1, <4>3, <2>6
      <4>6. Line!Put(b)
        BY <4>4, <4>5 DEF Line!Put
      <4> QED
        BY <4>6, <2>2, <2>3
    <3> QED
      BY <3>1, <3>2
  <2> QED
    BY <2>6, <2>7, <2>8
<1> QED
  BY <1>2, <1>3 DEF LineTypes

\* The interrupt moves a byte from the ring to TXD, or frees the line: nothing leaves.
LEMMA NextByteStep ==
  ASSUME RingOK, LineTypes, Handshake, EVENTS_TXDRDY, EVENTS_TXDRDY' = FALSE, NextByte
  PROVE  /\ RingOK' /\ LineTypes' /\ Handshake'
         /\ Waiting' = Waiting
<1>1. TXD = Nothing /\ ~txd_available
  BY DEF Handshake, LineTypes
<1>2. Waiting = Contents
  BY <1>1, WaitingIs
<1>3. CASE count > 0
  <2>1. TXD' = Data[first] /\ dequeue /\ UNCHANGED txd_available
    BY <1>3 DEF NextByte
  <2>2. RingOK' /\ Data[first] \in Bytes /\ Contents = <<Data[first]>> \o Contents'
    BY <1>3, <2>1, DequeueRing
  <2>3. TXD' \in Bytes /\ TXD' # Nothing
    BY <2>1, <2>2, NothingAssumption
  <2>4. LineTypes' /\ Handshake'
    BY <1>1, <2>1, <2>3 DEF LineTypes, Handshake
  <2>5. Waiting' = <<Data[first]>> \o Contents'
    BY <2>1, <2>3 DEF Waiting
  <2> QED
    BY <2>2, <2>4, <2>5, <1>2
<1>4. CASE ~(count > 0)
  <2>1. txd_available' = TRUE /\ UNCHANGED <<queueVars, TXD>>
    BY <1>4 DEF NextByte
  <2>2. RingOK' /\ LineTypes' /\ Handshake'
    BY <1>1, <1>4, <2>1 DEF RingOK, LineTypes, Handshake, queueVars
  <2>3. Waiting' = Waiting
    BY <2>1 DEF Waiting, Contents, queueVars
  <2> QED
    BY <2>2, <2>3
<1> QED
  BY <1>3, <1>4

\* What a step that leaves ring and line alone keeps.
LEMMA LineStays ==
  ASSUME RingOK, LineTypes, Handshake, UNCHANGED <<queueVars, txd_available, TXD, EVENTS_TXDRDY>>
  PROVE  RingOK' /\ LineTypes' /\ Handshake' /\ Waiting' = Waiting
BY DEF RingOK, LineTypes, Handshake, Waiting, Contents, queueVars

-----------------------------------------------------------------------------
LEMMA InitTx == Init => TxInv /\ Line!Init
<1> SUFFICES ASSUME Init PROVE TxInv /\ Line!Init
  OBVIOUS
<1>1. QUEUE_SIZE \in Nat \ {0} /\ COUNT_SIZE = 2 * QUEUE_SIZE
  BY SizeAssumption
<1>2. RingOK
  <2>1. QUEUE_SIZE - 1 \in 0..(4 * QUEUE_SIZE - 1)
    BY <1>1
  <2>2. At(QUEUE_SIZE - 1) = QUEUE_SIZE - 1
    BY <2>1, <1>1, Around
  <2>3. first = 0 /\ count = 0 /\ last = QUEUE_SIZE - 1 /\ Data \in [Slots -> Bytes]
    BY DEF Init
  <2>4. first + count + QUEUE_SIZE - 1 = QUEUE_SIZE - 1
    BY <2>3, <1>1
  <2> QED
    BY <1>1, <2>2, <2>3, <2>4 DEF RingOK, Slots
<1>3. LineTypes /\ MainTypes
  <2>1. <<>> \in Seq(Bytes)
    OBVIOUS
  <2> QED
    BY <2>1 DEF Init, LineTypes, MainTypes
<1>4. Handshake /\ Masking
  BY DEF Init, Handshake, Masking
<1>5. Line!Init
  <2>1. Contents = <<>>
    BY DEF Init, Contents
  <2> QED
    BY <2>1 DEF Init, Waiting, Line!Init
<1> QED
  BY <1>2, <1>3, <1>4, <1>5 DEF TxInv

\* Every step keeps the invariant, and is a step of TxLine or leaves its state alone.
LEMMA NextTx ==
  TxInv /\ [Next]_vars => TxInv' /\ [Line!Next]_Line!vars
<1> SUFFICES ASSUME TxInv, [Next]_vars PROVE TxInv' /\ [Line!Next]_Line!vars
  OBVIOUS
<1> USE DEF TxInv, MainTypes, Masking, Line!vars, mainVars
<1>0. /\ RingOK /\ LineTypes /\ Handshake
      /\ irq_enabled \in BOOLEAN
      /\ at \in {"out", "test", "store", "return"} /\ byte \in Bytes /\ direct \in BOOLEAN
      /\ reporting \in BOOLEAN /\ sent \in Seq(Bytes)
  OBVIOUS
<1>1. ASSUME NEW b \in Bytes, Call(b)
      PROVE  TxInv' /\ [Line!Next]_Line!vars
  <2>1. RingOK' /\ LineTypes' /\ Handshake' /\ Waiting' = Waiting
    BY <1>0, <1>1, LineStays DEF Call
  <2> QED
    BY <1>0, <1>1, <2>1 DEF Call, Main, Masked
<1>2. CASE Test
  <2>1. RingOK' /\ LineTypes' /\ Handshake' /\ Waiting' = Waiting
    BY <1>0, <1>2, LineStays DEF Test
  <2> QED
    BY <1>0, <1>2, <2>1 DEF Test, Main, LineTypes
<1>3. CASE StoreByte
  <2>1. direct = txd_available /\ Store(byte, direct) /\ UNCHANGED <<EVENTS_TXDRDY, sent>>
    BY <1>3 DEF StoreByte, Main
  <2>2. Store(byte, txd_available)
    BY <2>1
  <2>3. RingOK' /\ LineTypes' /\ Handshake' /\ (Line!Put(byte) \/ Line!Overflow)
    BY <1>0, <2>1, <2>2, StoreByteStep
  <2>4. Line!Next
    BY <1>0, <2>3 DEF Line!Next
  <2> QED
    BY <1>0, <1>3, <2>3, <2>4 DEF StoreByte, Main
<1>4. CASE Return
  <2>1. RingOK' /\ LineTypes' /\ Handshake' /\ Waiting' = Waiting
    BY <1>0, <1>4, LineStays DEF Return
  <2> QED
    BY <1>0, <1>4, <2>1 DEF Return, Main
<1>5. CASE TxReady
  <2>1. RingOK' /\ LineTypes' /\ Handshake' /\ Waiting' = Waiting
    BY <1>0, <1>5, NextByteStep DEF TxReady
  <2> QED
    BY <1>0, <1>5, <2>1 DEF TxReady
<1>6. CASE Error
  <2>1. RingOK' /\ LineTypes' /\ Handshake' /\ Waiting' = Waiting
    BY <1>0, <1>6, LineStays DEF Error
  <2> QED
    BY <1>0, <1>6, <2>1 DEF Error
<1>7. ASSUME NEW b \in Bytes, ReportByte(b)
      PROVE  TxInv' /\ [Line!Next]_Line!vars
  <2>1. Store(b, txd_available) /\ UNCHANGED <<EVENTS_TXDRDY, sent>>
    BY <1>7 DEF ReportByte
  <2>2. RingOK' /\ LineTypes' /\ Handshake' /\ (Line!Put(b) \/ Line!Overflow)
    BY <1>0, <2>1, StoreByteStep
  <2>3. Line!Next
    BY <2>2 DEF Line!Next
  <2> QED
    BY <1>0, <1>7, <2>2, <2>3 DEF ReportByte
<1>8. CASE ReportEnd
  <2>1. RingOK' /\ LineTypes' /\ Handshake' /\ Waiting' = Waiting
    BY <1>0, <1>8, LineStays DEF ReportEnd
  <2> QED
    BY <1>0, <1>8, <2>1 DEF ReportEnd
<1>9. CASE Transmitted
  <2>1. /\ TXD # Nothing /\ TXD \in Bytes /\ TXD' = Nothing
        /\ sent' = Append(sent, TXD) /\ UNCHANGED queueVars
    BY <1>0, <1>9 DEF Transmitted, LineTypes
  <2>2. RingOK' /\ LineTypes' /\ Handshake'
    BY <1>0, <1>9, <2>1 DEF Transmitted, RingOK, LineTypes, Handshake, queueVars
  <2>3. Contents \in Seq(Bytes) /\ Waiting = <<TXD>> \o Contents
    BY <1>0, <2>1, WaitingIs
  <2>4. Waiting' = Contents
    <3>1. Contents' = Contents
      BY <2>1 DEF Contents, queueVars
    <3>2. <<>> \o Contents = Contents
      BY <2>3
    <3> QED
      BY <3>1, <3>2, <2>1 DEF Waiting
  <2>5. Waiting # <<>> /\ Head(Waiting) = TXD /\ Tail(Waiting) = Contents
    <3>1. /\ Waiting \in Seq(Bytes) /\ Len(Waiting) = Len(Contents) + 1
          /\ Waiting[1] = TXD
          /\ \A i \in 1..Len(Contents) : Waiting[i + 1] = Contents[i]
      BY <2>1, <2>3
    <3>2. Waiting # <<>> /\ Head(Waiting) = TXD
      BY <3>1, <2>3
    <3>3. /\ Tail(Waiting) \in Seq(Bytes) /\ Len(Tail(Waiting)) = Len(Contents)
          /\ \A i \in 1..Len(Contents) : Tail(Waiting)[i] = Contents[i]
      BY <3>1, <3>2, <2>3
    <3> QED
      BY <3>2, <3>3, <2>3, SeqEqual
  <2>6. Line!Next
    BY <2>1, <2>4, <2>5 DEF Line!Next, Line!Leave
  <2>7. sent' \in Seq(Bytes)
    BY <1>0, <2>1
  <2> QED
    BY <1>0, <1>9, <2>2, <2>6, <2>7 DEF Transmitted
<1>10. CASE UNCHANGED vars
  <2>1. RingOK' /\ LineTypes' /\ Handshake' /\ Waiting' = Waiting
    BY <1>0, <1>10, LineStays DEF vars
  <2> QED
    BY <1>0, <1>10, <2>1 DEF vars
<1> QED
  BY <1>1, <1>2, <1>3, <1>4, <1>5, <1>6, <1>7, <1>8, <1>9, <1>10 DEF Next, UartPut

-----------------------------------------------------------------------------
(* The theorems. *)

\* The inductive invariant of transmission: ring, line and mask.
THEOREM TxSafe == Spec => []TxInv
BY InitTx, NextTx, PTL DEF Spec

\* The ring stays a ring although nothing tests for its being full and its count wraps
\* (drivers/queue.c:20-33), for every size whose double is the range of the count.
THEOREM TxTypeCorrect == Spec => []TypeOK
<1>1. TxInv => TypeOK
  BY DEF TxInv, RingOK, LineTypes, MainTypes, TypeOK, At
<1> QED
  BY <1>1, TxSafe, PTL

\* No byte is put into the ring of a line that is free, and the line is never freed twice
\* (uart.c:28, uart.c:64).
THEOREM HandshakeHolds == Spec => []Handshake
<1>1. TxInv => Handshake
  BY DEF TxInv
<1> QED
  BY <1>1, TxSafe, PTL

\* uart_put, the interrupt and the ring implement a line that keeps the order of bytes and
\* sends each once, whatever an overfilled ring does to those waiting longest.
THEOREM TxRefinement == Spec => ImplementsLine
<1>1. Init => Line!Init
  BY InitTx
<1>2. TxInv /\ [Next]_vars => [Line!Next]_Line!vars
  BY NextTx
<1> QED
  BY <1>1, <1>2, TxSafe, PTL DEF Spec, ImplementsLine, Line!Spec

=============================================================================
