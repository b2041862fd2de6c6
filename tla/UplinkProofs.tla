---------------------------- MODULE UplinkProofs ----------------------------
(***************************************************************************)
(* Proofs about Uplink, for any capacity of the queue, any packets and any *)
(* check function.                                                         *)
(***************************************************************************)
EXTENDS Uplink, SequenceTheorems, TLAPS

-----------------------------------------------------------------------------
(* The ring is a sequence: queueing appends to it, taking removes its head. *)

LEMMA InsertRing ==
  ASSUME RingOK, NEW pkt \in Packets, size < capacity, Insert(pkt)
  PROVE  RingOK' /\ Contents' = Append(Contents, pkt)
<1>1. last' \in Slots /\ last' = Slot(size + 1)
  BY CapacityAssumption DEF RingOK, LastOK, Insert, Wrap, Slot, Slots
<1>2. first' = first /\ size' = size + 1 /\ size' \in 0..capacity
      /\ elements' = [elements EXCEPT ![last'] = pkt]
  BY CapacityAssumption DEF Insert, RingOK
<1>3. elements' \in [Slots -> Packets \cup {Blank}]
  BY <1>1, <1>2 DEF RingOK
<1>4. LastOK'
  BY <1>2, CapacityAssumption DEF RingOK, LastOK, Insert, Wrap, Slots
<1>5. \A i \in 1..(size + 1) : Slot(i)' = Slot(i)
  BY <1>2 DEF Slot
<1>6. \A i \in 1..size : Slot(i) # Slot(size + 1) /\ Slot(i) \in Slots
  BY CapacityAssumption DEF RingOK, Slot, Slots
<1>7. \A i \in 1..size : elements'[Slot(i)'] = elements[Slot(i)]
  BY <1>1, <1>2, <1>5, <1>6 DEF RingOK
<1>8. \A i \in 1..(size + 1) : i = size + 1 => elements'[Slot(i)'] = pkt
  BY <1>1, <1>2, <1>5 DEF RingOK
<1>9. RingOK'
  <2>1. ASSUME NEW i \in 1..size'
        PROVE  elements'[Slot(i)'] \in Packets
    <3>1. i \in 1..size \/ i = size + 1
      BY <1>2 DEF RingOK
    <3> QED
      BY <3>1, <1>7, <1>8 DEF RingOK
  <2> QED
    BY <1>2, <1>3, <1>4, <2>1 DEF RingOK
<1>10. Contents' = Append(Contents, pkt)
  <2>1. Contents \in Seq(Packets) /\ Len(Contents) = size
    BY DEF RingOK, Contents
  <2>2. Contents' \in Seq(Packets) /\ Len(Contents') = size + 1
    BY <1>2, <1>9 DEF RingOK, Contents
  <2>3. Append(Contents, pkt) \in Seq(Packets) /\ Len(Append(Contents, pkt)) = size + 1
    BY <2>1, AppendProperties
  <2>4. ASSUME NEW i \in 1..(size + 1)
        PROVE  Contents'[i] = Append(Contents, pkt)[i]
    <3>1. Contents'[i] = elements'[Slot(i)']
      BY <1>2 DEF Contents
    <3>2. CASE i = size + 1
      BY <3>1, <3>2, <1>8, <2>1, AppendProperties
    <3>3. CASE i \in 1..size
      <4>1. Append(Contents, pkt)[i] = Contents[i]
        BY <3>3, <2>1, AppendProperties
      <4>2. Contents[i] = elements[Slot(i)]
        BY <3>3 DEF Contents
      <4> QED
        BY <3>1, <3>3, <4>1, <4>2, <1>7
    <3>4. i = size + 1 \/ i \in 1..size
      BY DEF RingOK
    <3> QED
      BY <3>2, <3>3, <3>4
  <2> QED
    BY <2>2, <2>3, <2>4, SeqEqual
<1> QED
  BY <1>9, <1>10

LEMMA DequeueRing ==
  ASSUME RingOK, dequeue
  PROVE  /\ RingOK'
         /\ elements[first] \in Packets
         /\ Contents = <<elements[first]>> \o Contents'
<1>1. size > 0 /\ size' = size - 1 /\ size' \in 0..capacity /\ elements' = elements /\ last' = last
  BY CapacityAssumption DEF dequeue, RingOK
<1>2. first' \in Slots
  BY CapacityAssumption DEF dequeue, RingOK, Wrap, Slots
<1>3. LastOK'
  BY CapacityAssumption DEF dequeue, RingOK, Wrap, Slots, LastOK
<1>4. \A i \in 1..size' : Slot(i)' = Slot(i + 1) /\ i + 1 \in 1..size
  BY <1>1, CapacityAssumption DEF dequeue, RingOK, Wrap, Slots, Slot
<1>5. Slot(1) = first /\ 1 \in 1..size
  BY <1>1, CapacityAssumption DEF RingOK, Slot, Slots
<1>6. RingOK'
  BY <1>1, <1>2, <1>3, <1>4 DEF RingOK
<1>7. elements[first] \in Packets
  BY <1>5 DEF RingOK
<1>8. Contents' \in Seq(Packets) /\ Len(Contents') = size - 1
  <2>1. \A i \in 1..(size - 1) : elements'[Slot(i)'] \in Packets
    BY <1>1, <1>6 DEF RingOK
  <2>2. Contents' = [i \in 1..(size - 1) |-> elements'[Slot(i)']]
    BY <1>1 DEF Contents
  <2> QED
    BY <2>1, <2>2, <1>1 DEF RingOK
<1>9. Contents = <<elements[first]>> \o Contents'
  <2>1. <<elements[first]>> \o Contents'
          = [i \in 1..size |-> IF i = 1 THEN elements[first] ELSE Contents'[i - 1]]
    BY <1>1, <1>7, <1>8 DEF RingOK
  <2>2. ASSUME NEW i \in 1..size
        PROVE  elements[Slot(i)] = IF i = 1 THEN elements[first] ELSE Contents'[i - 1]
    <3>1. CASE i = 1
      BY <3>1, <1>5
    <3>2. CASE i # 1
      <4>1. i - 1 \in 1..size' /\ (i - 1) + 1 = i
        BY <1>1, <3>2 DEF RingOK
      <4>2. Contents'[i - 1] = elements'[Slot(i - 1)']
        BY <4>1 DEF Contents
      <4> QED
        BY <4>1, <4>2, <1>1, <1>4, <3>2
    <3> QED
      BY <3>1, <3>2
  <2> QED
    BY <2>1, <2>2 DEF Contents
<1> QED
  BY <1>6, <1>7, <1>9

-----------------------------------------------------------------------------
(* Type correctness.                                                       *)

LEMMA FrameBytes ==
  ASSUME NEW pkt \in Packets
  PROVE  /\ pkt \in [command : Byte, value : Byte]
         /\ \A i \in 1..5 : Frame(pkt)[i] \in Byte
         /\ Frame(pkt)[1] = START_BYTE /\ Frame(pkt)[2] = pkt.command
         /\ Frame(pkt)[3] = pkt.value /\ Frame(pkt)[4] = Crc(pkt.command, pkt.value)
         /\ Frame(pkt)[5] = STOP_BYTE
BY PacketsAssumption DEF Frame, Byte, START_BYTE, STOP_BYTE

LEMMA ReceiveType ==
  ASSUME rcv_byte_count \in 0..4, nack_flag \in {0, 1},
         p \in [command : Byte, value : Byte, crc : Byte],
         NEW byte \in Byte, Receive(byte)
  PROVE  /\ rcv_byte_count' \in 0..4 /\ nack_flag' \in {0, 1}
         /\ p' \in [command : Byte, value : Byte, crc : Byte]
<1>1. CASE ReceiveStart
  BY <1>1 DEF ReceiveStart
<1>2. CASE ReceiveStop
  BY <1>2 DEF ReceiveStop
<1>3. CASE ReceiveData(byte)
  BY <1>3 DEF ReceiveData
<1> QED
  BY <1>1, <1>2, <1>3 DEF Receive

LEMMA UplinkTypeInit == Init => TypeOK
<1> SUFFICES ASSUME Init PROVE TypeOK
  OBVIOUS
<1>1. RingOK
  BY CapacityAssumption DEF Init, createQueue, RingOK, LastOK, Slots
<1>2. executed \in Seq([command : Byte, value : Byte])
  BY EmptySeq DEF Init
<1>3. p \in [command : Byte, value : Byte, crc : Byte]
  BY DEF Init, ReceiverInit, Byte
<1>4. lost \in 0..MaxLost /\ offered \in 0..MaxOffered
  BY LostAssumption, OfferedAssumption DEF Init
<1>5. intact \in BOOLEAN /\ before \in BOOLEAN /\ done \in BOOLEAN
  BY Zenon DEF Init
<1>6. rcv_byte_count \in 0..4 /\ nack_flag \in {0, 1} /\ next = 0 /\ packet \in Packets \cup {Blank}
  BY DEF Init, ReceiverInit
<1> QED
  BY <1>1, <1>2, <1>3, <1>4, <1>5, <1>6 DEF TypeOK, Sending

LEMMA UplinkTypeNext ==
  ASSUME TypeOK, [Next]_vars
  PROVE  TypeOK'
<1>1. ASSUME NEW pkt \in Packets, Offer(pkt)
      PROVE  TypeOK'
  <2>1. RingOK'
    <3>1. CASE size < capacity
      BY <1>1, <3>1, InsertRing DEF Offer, enqueue, TypeOK
    <3>2. CASE ~(size < capacity)
      BY <1>1, <3>2 DEF Offer, enqueue, TypeOK, queueVars, RingOK, LastOK, Slot
    <3> QED
      BY <3>1, <3>2
  <2>2. offered' \in 0..MaxOffered
    BY <1>1, OfferedAssumption DEF Offer, TypeOK
  <2> QED
    BY <1>1, <2>1, <2>2 DEF Offer, TypeOK, receiverVars, senderVars, historyVars, Sending
<1>2. CASE Take
  <2>1. RingOK' /\ elements[first] \in Packets
    BY <1>2, DequeueRing DEF Take, TypeOK
  <2>2. intact' \in BOOLEAN /\ before' \in BOOLEAN /\ done' \in BOOLEAN
    BY <1>2, Zenon DEF Take, TypeOK
  <2>3. next' = 1 /\ packet' \in Packets
    BY <1>2, <2>1 DEF Take
  <2> QED
    BY <1>2, <2>1, <2>2, <2>3 DEF Take, TypeOK, receiverVars
<1>3. CASE SendByte
  <2>1. packet \in Packets /\ next \in 1..5 /\ Frame(packet)[next] \in Byte
    BY <1>3, FrameBytes DEF SendByte, TypeOK, Sending
  <2>2. RingOK'
    BY <1>3 DEF SendByte, TypeOK, queueVars, RingOK, LastOK, Slot
  <2>3. /\ rcv_byte_count' \in 0..4 /\ nack_flag' \in {0, 1}
        /\ p' \in [command : Byte, value : Byte, crc : Byte]
    BY <1>3, <2>1, ReceiveType DEF SendByte, TypeOK
  <2>4. next' \in 0..5
    BY <1>3, <2>1 DEF SendByte, Advance
  <2>5. lost' \in 0..MaxLost
    BY <1>3, LostAssumption DEF SendByte, TypeOK
  <2>6. executed' \in Seq([command : Byte, value : Byte])
    <3>1. [command |-> p.command, value |-> p.value] \in [command : Byte, value : Byte]
      BY DEF TypeOK
    <3>2. Append(executed, [command |-> p.command, value |-> p.value])
            \in Seq([command : Byte, value : Byte])
      BY <3>1, AppendProperties DEF TypeOK
    <3>3. executed' \in {executed, Append(executed, [command |-> p.command, value |-> p.value])}
      BY <1>3 DEF SendByte
    <3> QED
      BY <3>2, <3>3 DEF TypeOK
  <2>7. done' \in BOOLEAN
    BY <1>3, Zenon DEF SendByte, TypeOK
  <2> QED
    BY <1>3, <2>1, <2>2, <2>3, <2>4, <2>5, <2>6, <2>7 DEF SendByte, TypeOK, Sending
<1>4. CASE LoseByte
  <2>1. packet \in Packets /\ next' \in 0..5
    BY <1>4 DEF LoseByte, TypeOK, Sending, Advance
  <2>2. RingOK'
    BY <1>4 DEF LoseByte, TypeOK, queueVars, RingOK, LastOK, Slot
  <2>3. lost' \in 0..MaxLost
    BY <1>4, LostAssumption DEF LoseByte, TypeOK
  <2> QED
    BY <1>4, <2>1, <2>2, <2>3 DEF LoseByte, TypeOK, receiverVars, Sending
<1>5. CASE UNCHANGED vars
  BY <1>5 DEF vars, queueVars, receiverVars, senderVars, historyVars, TypeOK, RingOK, LastOK,
              Slot, Sending
<1> QED
  BY <1>1, <1>2, <1>3, <1>4, <1>5 DEF Next

\* The ring stays well formed and every other variable in its range.
THEOREM UplinkTypes == Spec => []TypeOK
<1>1. Init => TypeOK
  BY UplinkTypeInit
<1>2. TypeOK /\ [Next]_vars => TypeOK'
  BY UplinkTypeNext
<1> QED
  BY <1>1, <1>2, PTL DEF Spec

-----------------------------------------------------------------------------
(* The receiver's frame and the packet that is being sent.                 *)

LEMMA ReceiveStep ==
  ASSUME rcv_byte_count \in 0..4, p \in [command : Byte, value : Byte, crc : Byte],
         NEW byte \in Byte, Receive(byte)
  PROVE  /\ byte = STOP_BYTE => rcv_byte_count' = 0
         /\ byte = START_BYTE => rcv_byte_count' = IF rcv_byte_count = 0 THEN 1 ELSE 0
         /\ byte \notin {START_BYTE, STOP_BYTE} =>
              rcv_byte_count' = IF rcv_byte_count \in {0, 4} THEN 0 ELSE rcv_byte_count + 1
         /\ rcv_byte_count' > 1 =>
              /\ rcv_byte_count' = 2 => p'.command = byte
              /\ rcv_byte_count' = 3 => p'.value = byte /\ p'.command = p.command
              /\ rcv_byte_count' = 4 => /\ p'.crc = byte
                                        /\ p'.command = p.command /\ p'.value = p.value
<1> USE DEF START_BYTE, STOP_BYTE
<1>1. CASE byte = START_BYTE /\ ReceiveStart
  BY <1>1 DEF ReceiveStart
<1>2. CASE byte = STOP_BYTE /\ ReceiveStop
  BY <1>2 DEF ReceiveStop
<1>3. CASE byte \notin {START_BYTE, STOP_BYTE} /\ ReceiveData(byte)
  BY <1>3 DEF ReceiveData
<1> QED
  BY <1>1, <1>2, <1>3 DEF Receive

\* Executing a packet while few bytes are lost means executing the one being sent.
LEMMA Genuine ==
  ASSUME TypeOK, FrameInv, FewLost, SendByte, Executes(Frame(packet)[next])
  PROVE  next = 5 /\ [command |-> p.command, value |-> p.value] = packet
<1>1. packet \in Packets /\ next \in 1..5
  BY DEF SendByte, TypeOK, Sending
<1>2. rcv_byte_count = 4 /\ Frame(packet)[next] = STOP_BYTE
  BY DEF Executes, Completes
<1>3. next > 1
  BY <1>1, <1>2, FrameBytes DEF START_BYTE, STOP_BYTE
<1>4. CleanPackets => next = 5
  BY <1>1, <1>2, <1>3 DEF CleanPackets, Clean
<1>5. ~OldFrame
  BY <1>2, <1>3, <1>4, LostAssumption DEF OldFrame, FewLost, TypeOK
<1>6. SameFrame
  BY <1>2, <1>5 DEF FrameInv
<1>7. next = 5 /\ rcv_byte_count = next - 1
  BY <1>1, <1>2, <1>6, LostAssumption DEF SameFrame, TypeOK
<1>8. p.command = packet.command /\ p.value = packet.value
  BY <1>2, <1>6, <1>7 DEF SameFrame, Collected
<1> QED
  BY <1>1, <1>7, <1>8, FrameBytes

LEMMA FrameNext ==
  ASSUME LinkInv, [Next]_vars
  PROVE  FrameInv'
<1> USE DEF LinkInv
<1>1. ASSUME NEW pkt \in Packets, Offer(pkt)
      PROVE  FrameInv'
  BY <1>1 DEF Offer, receiverVars, senderVars, FrameInv, SameFrame, OldFrame, Collected
<1>2. CASE Take
  <2>1. next = 0 /\ next' = 1
    BY <1>2 DEF Take, Sending, TypeOK
  <2> QED
    BY <1>2, <2>1 DEF Take, receiverVars, FrameInv, SameFrame, OldFrame
<1>3. CASE SendByte
  <2> DEFINE byte == Frame(packet)[next]
  <2>1. packet \in Packets /\ packet' = packet /\ next \in 1..5
        /\ next' = (IF next = 5 THEN 0 ELSE next + 1)
        /\ byte \in Byte /\ Receive(byte)
        /\ lost' = (IF rcv_byte_count = 0 \/ rcv_byte_count' = 0 THEN 0 ELSE lost)
    BY <1>3, FrameBytes DEF SendByte, TypeOK, Sending, Advance
  <2>2. /\ next = 1 => byte = START_BYTE
        /\ next = 2 => byte = packet.command
        /\ next = 3 => byte = packet.value
        /\ next = 4 => byte = Crc(packet.command, packet.value)
        /\ next = 5 => byte = STOP_BYTE
        /\ CleanPackets /\ next \in 2..4 => byte \notin {START_BYTE, STOP_BYTE}
    BY <2>1, FrameBytes DEF CleanPackets, Clean
  <2> HIDE DEF byte
  <2>3. SUFFICES ASSUME rcv_byte_count' > 0
                 PROVE  (SameFrame \/ OldFrame)'
    BY DEF FrameInv
  <2>4. CASE rcv_byte_count = 0
    <3>1. byte = START_BYTE /\ rcv_byte_count' = 1 /\ lost' = 0
      BY <2>1, <2>3, <2>4, ReceiveStep DEF TypeOK, START_BYTE, STOP_BYTE
    <3>2. next < 5
      BY <2>1, <2>2, <3>1 DEF START_BYTE, STOP_BYTE
    <3>3. SameFrame'
      BY <2>1, <2>2, <3>1, <3>2 DEF SameFrame, Collected
    <3> QED
      BY <3>3
  <2>5. CASE rcv_byte_count > 0
    <3>1. /\ byte \notin {START_BYTE, STOP_BYTE} /\ lost' = lost
          /\ rcv_byte_count < 4 /\ rcv_byte_count' = rcv_byte_count + 1
      BY <2>1, <2>3, <2>5, ReceiveStep DEF TypeOK, START_BYTE, STOP_BYTE
    <3>2. next \in 2..4
      BY <2>1, <2>2, <3>1
    <3>3. CASE OldFrame
      BY <2>1, <3>1, <3>2, <3>3, LostAssumption DEF OldFrame, TypeOK, CleanPackets, Clean, Frame
    <3>4. CASE SameFrame
      <4>1. ASSUME rcv_byte_count' = next' - 1
            PROVE  Collected'
        <5>1. rcv_byte_count = next - 1
          BY <2>1, <3>1, <3>2, <4>1 DEF TypeOK
        <5>2. Collected
          BY <3>4, <5>1 DEF SameFrame
        <5>3. /\ rcv_byte_count' = 2 => p'.command = byte
              /\ rcv_byte_count' = 3 => p'.value = byte /\ p'.command = p.command
              /\ rcv_byte_count' = 4 => /\ p'.crc = byte
                                        /\ p'.command = p.command /\ p'.value = p.value
          BY <2>1, ReceiveStep DEF TypeOK
        <5> QED
          BY <2>1, <2>2, <2>5, <3>1, <3>2, <5>1, <5>2, <5>3 DEF Collected, TypeOK
      <4>2. next' > 1 /\ rcv_byte_count' + lost' < next'
            /\ (CleanPackets => rcv_byte_count' + lost' = next' - 1)
        BY <2>1, <3>1, <3>2, <3>4, LostAssumption DEF SameFrame, TypeOK
      <4> QED
        BY <4>1, <4>2 DEF SameFrame, CleanPackets, Clean, Frame
    <3> QED
      BY <2>5, <3>3, <3>4 DEF FrameInv
  <2> QED
    BY <2>4, <2>5 DEF TypeOK
<1>4. CASE LoseByte
  <2>1. next \in 1..5 /\ next' = (IF next = 5 THEN 0 ELSE next + 1) /\ packet' = packet
        /\ UNCHANGED <<rcv_byte_count, p>>
    BY <1>4 DEF LoseByte, TypeOK, Sending, Advance, receiverVars
  <2>2. SUFFICES ASSUME rcv_byte_count > 0
                 PROVE  (SameFrame \/ OldFrame)'
    BY <2>1 DEF FrameInv
  <2>3. lost' = lost + 1
    BY <1>4, <2>2 DEF LoseByte
  <2>4. CASE OldFrame
    BY <2>1, <2>2, <2>3, <2>4, LostAssumption DEF OldFrame, TypeOK, CleanPackets, Clean, Frame
  <2>5. CASE SameFrame /\ next = 5
    <3>1. OldFrame'
      BY <2>1, <2>3, <2>5, LostAssumption DEF SameFrame, OldFrame, TypeOK, CleanPackets, Clean, Frame
    <3> QED
      BY <3>1
  <2>6. CASE SameFrame /\ next # 5
    <3>1. SameFrame'
      BY <2>1, <2>3, <2>6, LostAssumption DEF SameFrame, TypeOK, CleanPackets, Clean, Frame
    <3> QED
      BY <3>1
  <2> QED
    BY <2>2, <2>4, <2>5, <2>6 DEF FrameInv
<1>5. CASE UNCHANGED vars
  BY <1>5 DEF vars, receiverVars, senderVars, FrameInv, SameFrame, OldFrame, Collected
<1> QED
  BY <1>1, <1>2, <1>3, <1>4, <1>5 DEF Next

LEMMA InStepNext ==
  ASSUME LinkInv, [Next]_vars
  PROVE  InStep' /\ Resync'
<1> USE DEF LinkInv
<1>1. ASSUME NEW pkt \in Packets, Offer(pkt)
      PROVE  InStep' /\ Resync'
  BY <1>1 DEF Offer, receiverVars, senderVars, historyVars, InStep, Resync, Collected, Sending,
              Clean, Frame
<1>2. CASE Take
  <2>1. /\ next = 0 /\ next' = 1 /\ before' = intact
        /\ UNCHANGED <<rcv_byte_count, p>> /\ (intact => rcv_byte_count = 0)
    BY <1>2 DEF Take, Sending, TypeOK, receiverVars, InStep
  <2> QED
    BY <2>1 DEF InStep, Resync, Collected, Sending
<1>3. CASE SendByte
  <2> DEFINE byte == Frame(packet)[next]
  <2>1. packet \in Packets /\ packet' = packet /\ next \in 1..5
        /\ next' = (IF next = 5 THEN 0 ELSE next + 1)
        /\ byte \in Byte /\ Receive(byte) /\ intact' = intact /\ before' = before
        /\ (Executes(byte) => done')
    BY <1>3, FrameBytes DEF SendByte, TypeOK, Sending, Advance
  <2>2. /\ next = 1 => byte = START_BYTE
        /\ next = 2 => byte = packet.command
        /\ next = 3 => byte = packet.value
        /\ next = 4 => byte = Crc(packet.command, packet.value)
        /\ next = 5 => byte = STOP_BYTE
        /\ Clean(packet) /\ next \in 2..4 => byte \notin {START_BYTE, STOP_BYTE}
    BY <2>1, FrameBytes DEF Clean
  <2>3. Clean(packet)' <=> Clean(packet)
    BY <2>1 DEF Clean, Frame
  <2> HIDE DEF byte
  <2>4. ~Sending' => rcv_byte_count' = 0
    BY <2>1, <2>2, ReceiveStep DEF TypeOK, Sending
  <2>5. ASSUME intact, before, Clean(packet)
        PROVE  /\ rcv_byte_count = next - 1 /\ Collected
               /\ next = 5 => Executes(byte)
    <3>1. rcv_byte_count = next - 1 /\ Collected
      BY <2>1, <2>5 DEF InStep, Sending
    <3>2. next = 5 => Executes(byte)
      BY <2>1, <2>2, <3>1 DEF Executes, Completes, Collected
    <3> QED
      BY <3>1, <3>2
  <2>6. Resync'
    BY <2>1, <2>3, <2>5 DEF Resync, Sending
  <2>7. ASSUME Sending', intact, before, Clean(packet)
        PROVE  (rcv_byte_count = next - 1 /\ Collected)'
    <3>1. next \in 1..4 /\ next' = next + 1 /\ rcv_byte_count = next - 1 /\ Collected
      BY <2>1, <2>5, <2>7 DEF Sending
    <3>2. rcv_byte_count' = next
      BY <2>1, <2>2, <2>7, <3>1, ReceiveStep DEF TypeOK, START_BYTE, STOP_BYTE
    <3>3. /\ rcv_byte_count' = 2 => p'.command = byte
          /\ rcv_byte_count' = 3 => p'.value = byte /\ p'.command = p.command
          /\ rcv_byte_count' = 4 => /\ p'.crc = byte
                                    /\ p'.command = p.command /\ p'.value = p.value
      BY <2>1, ReceiveStep DEF TypeOK
    <3> QED
      BY <2>1, <2>2, <3>1, <3>2, <3>3 DEF Collected
  <2> QED
    BY <2>1, <2>3, <2>4, <2>6, <2>7 DEF InStep
<1>4. CASE LoseByte
  BY <1>4 DEF LoseByte, InStep, Resync
<1>5. CASE UNCHANGED vars
  BY <1>5 DEF vars, receiverVars, senderVars, historyVars, InStep, Resync, Collected, Sending,
              Clean, Frame
<1> QED
  BY <1>1, <1>2, <1>3, <1>4, <1>5 DEF Next

LEMMA LinkInit == Init => LinkInv
BY UplinkTypeInit DEF Init, ReceiverInit, LinkInv, FrameInv, InStep, Resync, Sending

\* The inductive invariant of the uplink.
THEOREM UplinkSafe == Spec => []LinkInv
<1>1. Init => LinkInv
  BY LinkInit
<1>2. LinkInv /\ [Next]_vars => LinkInv'
  <2> SUFFICES ASSUME LinkInv, [Next]_vars PROVE LinkInv'
    OBVIOUS
  <2>1. TypeOK'
    BY UplinkTypeNext DEF LinkInv
  <2> QED
    BY <2>1, FrameNext, InStepNext DEF LinkInv
<1> QED
  BY <1>1, <1>2, PTL DEF Spec

\* A damaged packet costs at most the one after it, whatever the line loses.
THEOREM Resynchronises == Spec => []Resync
<1>1. LinkInv => Resync
  BY DEF LinkInv
<1> QED
  BY <1>1, UplinkSafe, PTL

-----------------------------------------------------------------------------
(* The uplink is a lossy FIFO.                                             *)

LEMMA ContentsType ==
  ASSUME RingOK
  PROVE  Contents \in Seq(Packets) /\ Len(Contents) = size
BY DEF RingOK, Contents

LEMMA SamePending ==
  ASSUME UNCHANGED queueVars
  PROVE  Contents' = Contents
BY DEF queueVars, Contents, Slot

LEMMA FifoInit == Init => Fifo!Init
<1> SUFFICES ASSUME Init PROVE Fifo!Init
  OBVIOUS
<1>1. ~Sending /\ size = 0 /\ executed = <<>>
  BY DEF Init, createQueue, Sending
<1>2. Contents = <<>>
  <2>1. RingOK
    BY UplinkTypeInit DEF TypeOK
  <2> QED
    BY <1>1, <2>1, ContentsType, EmptySeq
<1> QED
  BY <1>1, <1>2 DEF Fifo!Init

LEMMA FifoNext ==
  ASSUME LinkInv, FewLost, [Next]_vars
  PROVE  [Fifo!Next]_Fifo!vars
<1> DEFINE pending == IF Sending THEN <<packet>> \o Contents ELSE Contents
<1> USE DEF LinkInv
<1>0. RingOK /\ Contents \in Seq(Packets) /\ Len(Contents) = size
  BY ContentsType DEF TypeOK
<1>1. ASSUME NEW pkt \in Packets, Offer(pkt)
      PROVE  [Fifo!Next]_Fifo!vars
  <2>1. ~Sending /\ ~Sending' /\ executed' = executed
    BY <1>1 DEF Offer, senderVars, historyVars, Sending
  <2>2. CASE size < capacity
    <3>1. Contents' = Append(Contents, pkt)
      BY <1>0, <1>1, <2>2, InsertRing DEF Offer, enqueue
    <3> QED
      BY <1>0, <2>1, <2>2, <3>1 DEF Fifo!Next, Fifo!Offer
  <2>3. CASE ~(size < capacity)
    <3>1. Contents' = Contents
      BY <1>1, <2>3, SamePending DEF Offer, enqueue
    <3> QED
      BY <2>1, <3>1 DEF Fifo!vars
  <2> QED
    BY <2>2, <2>3
<1>2. CASE Take
  <2>1. ~Sending /\ Sending' /\ executed' = executed /\ packet' = elements[first]
    BY <1>2 DEF Take, Sending
  <2>2. Contents = <<elements[first]>> \o Contents'
    BY <1>0, <1>2, DequeueRing DEF Take
  <2> QED
    BY <2>1, <2>2 DEF Fifo!vars
<1>3. CASE SendByte \/ LoseByte
  <2>1. /\ Sending /\ packet' = packet /\ Contents' = Contents /\ packet \in Packets
        /\ next \in 1..5 /\ next' = (IF next = 5 THEN 0 ELSE next + 1)
    BY <1>3, SamePending DEF SendByte, LoseByte, Advance, TypeOK, Sending
  <2>2. /\ pending = <<packet>> \o Contents /\ pending # <<>>
        /\ Head(pending) = packet /\ Tail(pending) = Contents
    BY <1>0, <2>1
  <2>3. CASE next # 5
    <3>1. pending' = pending
      BY <2>1, <2>3 DEF Sending
    <3>2. executed' = executed
      BY <1>3, <2>3, Genuine DEF SendByte, LoseByte
    <3> QED
      BY <3>1, <3>2 DEF Fifo!vars
  <2>4. CASE next = 5
    <3>1. pending' = Tail(pending)
      BY <2>1, <2>2, <2>4 DEF Sending
    <3>2. \/ executed' = executed
          \/ executed' = Append(executed, Head(pending))
      <4>1. CASE SendByte /\ Executes(Frame(packet)[next])
        <5>1. [command |-> p.command, value |-> p.value] = packet
          BY <4>1, Genuine
        <5> QED
          BY <2>2, <4>1, <5>1 DEF SendByte
      <4>2. CASE ~(SendByte /\ Executes(Frame(packet)[next]))
        BY <1>3, <4>2 DEF SendByte, LoseByte
      <4> QED
        BY <4>1, <4>2
    <3> QED
      BY <2>2, <3>1, <3>2 DEF Fifo!Next, Fifo!Deliver, Fifo!Lose
  <2> QED
    BY <2>3, <2>4
<1>4. CASE UNCHANGED vars
  BY <1>4, SamePending DEF vars, senderVars, historyVars, Fifo!vars, Sending
<1> QED
  BY <1>1, <1>2, <1>3, <1>4 DEF Next

\* What the drone executes is what the PC queued, in order and at most once, if at most one
\* byte is lost in a frame, or at most four when no data byte looks like framing.
THEOREM UplinkIsFifo == FewLost => (Spec => ImplementsFifo)
<1> SUFFICES ASSUME FewLost PROVE Spec => ImplementsFifo
  OBVIOUS
<1>1. Init => Fifo!Init
  BY FifoInit
<1>2. LinkInv /\ [Next]_vars => [Fifo!Next]_Fifo!vars
  BY FifoNext
<1> QED
  BY <1>1, <1>2, UplinkSafe, PTL DEF Spec, ImplementsFifo, Fifo!Spec

=============================================================================
