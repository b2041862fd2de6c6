-------------------------------- MODULE Crc --------------------------------
(***************************************************************************)
(* The check byte of a packet (crc.c).  A byte is the set of its one bits, *)
(* so that ^ is symmetric difference.  The four-bit remainder of the       *)
(* command is the high half of the check byte, that of the value the low   *)
(* half.                                                                   *)
(***************************************************************************)
EXTENDS Integers, FiniteSets

Bits == 0..7
Byte == SUBSET Bits

MSB      == 7                \* 0x80
CRC_POLY == {7, 6, 3}        \* 0xC8
MASK     == 4..7             \* 0xF0

Xor(a, b) == (a \ b) \cup (b \ a)

ShiftLeft(byte) == {bit + 1 : bit \in byte \ {7}}

\* Mutant of Divide: the top bit is tested after the shift.
DivideLate(crc) ==
  IF MSB \in ShiftLeft(crc) THEN Xor(ShiftLeft(crc), CRC_POLY) ELSE ShiftLeft(crc)

\* One turn of the loop.
Divide(crc) == ShiftLeft(IF MSB \in crc THEN Xor(crc, CRC_POLY) ELSE crc)

Turn == [crc \in Byte |-> Divide(crc)]

\* Its eight turns, for each byte.
Remainder == [byte \in Byte |->
  Turn[Turn[Turn[Turn[Turn[Turn[Turn[Turn[byte]]]]]]]]]

\* Mutant of compute_crc: the value is not divided before its half is cut out.
compute_crcUndivided(command, value) ==
  (Remainder[command] \cap MASK) \cup {bit - 4 : bit \in value \cap MASK}

compute_crc(command, value) ==
  (Remainder[command] \cap MASK) \cup {bit - 4 : bit \in Remainder[value] \cap MASK}

\* Whether check_crc finds no error.
check_crc(packet) == packet.crc = compute_crc(packet.command, packet.value)

-----------------------------------------------------------------------------
\* A byte as the program's number, and back.
ByteOf == [number \in 0..255 |-> {bit \in Bits : (number \div 2^bit) % 2 = 1}]

Number == [byte \in Byte |-> CHOOSE number \in 0..255 : ByteOf[number] = byte]

-----------------------------------------------------------------------------
(***************************************************************************)
(* The reference: division of polynomials over two elements, a polynomial  *)
(* being the set of its exponents.  The generator is x^4 + x^3 + 1.        *)
(***************************************************************************)
\* x^e modulo the generator.
PowerMod[e \in 0..11] ==
  IF e = 0 THEN {0}
  ELSE LET shifted == {d + 1 : d \in PowerMod[e - 1]}
       IN  IF 4 \in shifted THEN Xor(shifted \ {4}, {3, 0}) ELSE shifted

\* The byte's polynomial times x^4, modulo the generator.
RemainderOf(byte) ==
  {d \in 0..3 : Cardinality({bit \in byte : d \in PowerMod[bit + 4]}) % 2 = 1}

=============================================================================
