--------------------------- MODULE NoisyPacketProofs ---------------------------
(***************************************************************************)
(* Theorems about NoisyPacket: what crc.c computes, and which inversions   *)
(* its check finds, for every command, every value and any number of       *)
(* inverted bits.                                                          *)
(***************************************************************************)
EXTENDS NoisyPacket, FiniteSetTheorems, TLAPS

-----------------------------------------------------------------------------
(***************************************************************************)
(* The loop of compute_crc, bit by bit.                                    *)
(***************************************************************************)

\* The sum of two bits.
Add(a, b) == ~(a <=> b)

\* One turn moves every bit up, and adds the top bit to two of them.
LEMMA TurnBits ==
  ASSUME NEW b \in Byte
  PROVE  /\ Turn[b] \in Byte
         /\ 0 \notin Turn[b]
         /\ 1 \in Turn[b] <=> 0 \in b
         /\ 2 \in Turn[b] <=> 1 \in b
         /\ 3 \in Turn[b] <=> 2 \in b
         /\ 4 \in Turn[b] <=> Add(3 \in b, 7 \in b)
         /\ 5 \in Turn[b] <=> 4 \in b
         /\ 6 \in Turn[b] <=> 5 \in b
         /\ 7 \in Turn[b] <=> Add(6 \in b, 7 \in b)
<1> DEFINE before == IF 7 \in b THEN Xor(b, {7, 6, 3}) ELSE b
<1>1. Turn[b] = ShiftLeft(before)
  BY DEF Turn, Divide, MSB, CRC_POLY
<1>2. before \in Byte
  BY DEF Byte, Bits, Xor
<1>3. \A bit \in 0..7 : bit \in before <=> Add(bit \in b, 7 \in b /\ bit \in {7, 6, 3})
  BY DEF Xor, Add, Byte, Bits
<1> HIDE DEF before
<1>4. \A bit \in 0..7 : bit \in ShiftLeft(before) <=> bit - 1 \in before
  BY <1>2 DEF ShiftLeft, Byte, Bits
<1>5. ShiftLeft(before) \in Byte
  BY <1>2 DEF ShiftLeft, Byte, Bits
<1>6. -1 \notin before
  BY <1>2 DEF Byte, Bits
<1>7. /\ 0 \in before <=> 0 \in b
      /\ 1 \in before <=> 1 \in b
      /\ 2 \in before <=> 2 \in b
      /\ 3 \in before <=> Add(3 \in b, 7 \in b)
      /\ 4 \in before <=> 4 \in b
      /\ 5 \in before <=> 5 \in b
      /\ 6 \in before <=> Add(6 \in b, 7 \in b)
  BY <1>3 DEF Add
<1>8. /\ 0 \in Turn[b] <=> -1 \in before
      /\ 1 \in Turn[b] <=> 0 \in before
      /\ 2 \in Turn[b] <=> 1 \in before
      /\ 3 \in Turn[b] <=> 2 \in before
      /\ 4 \in Turn[b] <=> 3 \in before
      /\ 5 \in Turn[b] <=> 4 \in before
      /\ 6 \in Turn[b] <=> 5 \in before
      /\ 7 \in Turn[b] <=> 6 \in before
  BY <1>1, <1>4
<1> QED  BY <1>1, <1>5, <1>6, <1>7, <1>8

\* The sums of bits that make up the remainder.
Sum4(b) == Add(0 \in b, Add(1 \in b, Add(2 \in b, Add(3 \in b, Add(5 \in b, 7 \in b)))))
Sum5(b) == Add(1 \in b, Add(2 \in b, Add(3 \in b, Add(4 \in b, 6 \in b))))
Sum6(b) == Add(2 \in b, Add(3 \in b, Add(4 \in b, Add(5 \in b, 7 \in b))))
Sum7(b) == Add(0 \in b, Add(1 \in b, Add(2 \in b, Add(4 \in b, Add(6 \in b, 7 \in b)))))

\* Eight turns leave the remainder in the upper half and clear the lower one.
LEMMA RemainderBits ==
  ASSUME NEW b \in Byte
  PROVE  /\ Remainder[b] \in Byte /\ Remainder[b] \subseteq 4..7
         /\ 4 \in Remainder[b] <=> Sum4(b)
         /\ 5 \in Remainder[b] <=> Sum5(b)
         /\ 6 \in Remainder[b] <=> Sum6(b)
         /\ 7 \in Remainder[b] <=> Sum7(b)
<1> DEFINE one   == Turn[b]
           two   == Turn[one]
           three == Turn[two]
           four  == Turn[three]
           five  == Turn[four]
           six   == Turn[five]
           seven == Turn[six]
           eight == Turn[seven]
<1>1. Remainder[b] = eight
  BY DEF Remainder
<1>2. /\ one \in Byte
      /\ 0 \notin one
      /\ 1 \in one <=> 0 \in b
      /\ 2 \in one <=> 1 \in b
      /\ 3 \in one <=> 2 \in b
      /\ 4 \in one <=> Add(3 \in b, 7 \in b)
      /\ 5 \in one <=> 4 \in b
      /\ 6 \in one <=> 5 \in b
      /\ 7 \in one <=> Add(6 \in b, 7 \in b)
  BY TurnBits
<1>3. /\ two \in Byte
      /\ 0 \notin two
      /\ 1 \in two <=> 0 \in one
      /\ 2 \in two <=> 1 \in one
      /\ 3 \in two <=> 2 \in one
      /\ 4 \in two <=> Add(3 \in one, 7 \in one)
      /\ 5 \in two <=> 4 \in one
      /\ 6 \in two <=> 5 \in one
      /\ 7 \in two <=> Add(6 \in one, 7 \in one)
  BY <1>2, TurnBits
<1>4. /\ three \in Byte
      /\ 0 \notin three
      /\ 1 \in three <=> 0 \in two
      /\ 2 \in three <=> 1 \in two
      /\ 3 \in three <=> 2 \in two
      /\ 4 \in three <=> Add(3 \in two, 7 \in two)
      /\ 5 \in three <=> 4 \in two
      /\ 6 \in three <=> 5 \in two
      /\ 7 \in three <=> Add(6 \in two, 7 \in two)
  BY <1>3, TurnBits
<1>5. /\ four \in Byte
      /\ 0 \notin four
      /\ 1 \in four <=> 0 \in three
      /\ 2 \in four <=> 1 \in three
      /\ 3 \in four <=> 2 \in three
      /\ 4 \in four <=> Add(3 \in three, 7 \in three)
      /\ 5 \in four <=> 4 \in three
      /\ 6 \in four <=> 5 \in three
      /\ 7 \in four <=> Add(6 \in three, 7 \in three)
  BY <1>4, TurnBits
<1>6. /\ five \in Byte
      /\ 0 \notin five
      /\ 1 \in five <=> 0 \in four
      /\ 2 \in five <=> 1 \in four
      /\ 3 \in five <=> 2 \in four
      /\ 4 \in five <=> Add(3 \in four, 7 \in four)
      /\ 5 \in five <=> 4 \in four
      /\ 6 \in five <=> 5 \in four
      /\ 7 \in five <=> Add(6 \in four, 7 \in four)
  BY <1>5, TurnBits
<1>7. /\ six \in Byte
      /\ 0 \notin six
      /\ 1 \in six <=> 0 \in five
      /\ 2 \in six <=> 1 \in five
      /\ 3 \in six <=> 2 \in five
      /\ 4 \in six <=> Add(3 \in five, 7 \in five)
      /\ 5 \in six <=> 4 \in five
      /\ 6 \in six <=> 5 \in five
      /\ 7 \in six <=> Add(6 \in five, 7 \in five)
  BY <1>6, TurnBits
<1>8. /\ seven \in Byte
      /\ 0 \notin seven
      /\ 1 \in seven <=> 0 \in six
      /\ 2 \in seven <=> 1 \in six
      /\ 3 \in seven <=> 2 \in six
      /\ 4 \in seven <=> Add(3 \in six, 7 \in six)
      /\ 5 \in seven <=> 4 \in six
      /\ 6 \in seven <=> 5 \in six
      /\ 7 \in seven <=> Add(6 \in six, 7 \in six)
  BY <1>7, TurnBits
<1>9. /\ eight \in Byte
      /\ 0 \notin eight
      /\ 1 \in eight <=> 0 \in seven
      /\ 2 \in eight <=> 1 \in seven
      /\ 3 \in eight <=> 2 \in seven
      /\ 4 \in eight <=> Add(3 \in seven, 7 \in seven)
      /\ 5 \in eight <=> 4 \in seven
      /\ 6 \in eight <=> 5 \in seven
      /\ 7 \in eight <=> Add(6 \in seven, 7 \in seven)
  BY <1>8, TurnBits
<1> HIDE DEF one, two, three, four, five, six, seven, eight
<1>10. 0 \notin eight /\ 1 \notin eight /\ 2 \notin eight /\ 3 \notin eight
  BY <1>2, <1>3, <1>4, <1>5, <1>6, <1>7, <1>8, <1>9 DEF Add
<1>11. eight \subseteq 4..7
  BY <1>9, <1>10 DEF Byte, Bits
<1>12. /\ 4 \in eight <=> Sum4(b)
       /\ 5 \in eight <=> Sum5(b)
       /\ 6 \in eight <=> Sum6(b)
       /\ 7 \in eight <=> Sum7(b)
  BY <1>2, <1>3, <1>4, <1>5, <1>6, <1>7, <1>8, <1>9 DEF Add, Sum4, Sum5, Sum6, Sum7
<1> QED  BY <1>1, <1>9, <1>11, <1>12

-----------------------------------------------------------------------------
(***************************************************************************)
(* The reference, bit by bit.                                              *)
(***************************************************************************)

\* A polynomial times x, modulo the generator.
TimesX(power) ==
  LET shifted == {d + 1 : d \in power}
  IN  IF 4 \in shifted THEN Xor(shifted \ {4}, {3, 0}) ELSE shifted

\* PowerMod is what its recursion says: a table of twelve entries satisfies it.
LEMMA PowerModStep ==
  PowerMod[0] = {0} /\ \A e \in 1..11 : PowerMod[e] = TimesX(PowerMod[e - 1])
<1> DEFINE p1 == TimesX({0})
           p2 == TimesX(p1)
           p3 == TimesX(p2)
           p4 == TimesX(p3)
           p5 == TimesX(p4)
           p6 == TimesX(p5)
           p7 == TimesX(p6)
           p8 == TimesX(p7)
           p9 == TimesX(p8)
           p10 == TimesX(p9)
           p11 == TimesX(p10)
           table == [e \in 0..11 |->
             CASE e = 0 -> {0} [] e = 1 -> p1 [] e = 2 -> p2 [] e = 3 -> p3 [] e = 4 -> p4
               [] e = 5 -> p5 [] e = 6 -> p6 [] e = 7 -> p7 [] e = 8 -> p8 [] e = 9 -> p9
               [] e = 10 -> p10 [] e = 11 -> p11]
           law(power) == [e \in 0..11 |-> IF e = 0 THEN {0} ELSE TimesX(power[e - 1])]
<1>1. PowerMod = CHOOSE power : power = law(power)
  BY DEF PowerMod, TimesX
<1>2. table = law(table)
  <2>1. ASSUME NEW e \in 0..11 PROVE table[e] = law(table)[e]
    <3>1. e = 0 \/ e = 1 \/ e = 2 \/ e = 3 \/ e = 4 \/ e = 5 \/ e = 6 \/ e = 7 \/ e = 8
            \/ e = 9 \/ e = 10 \/ e = 11
      OBVIOUS
    <3> QED  BY <3>1
  <2> QED  BY <2>1
<1> HIDE DEF table
<1>3. PowerMod = law(PowerMod)
  BY <1>1, <1>2
<1>4. \A e \in 0..11 : PowerMod[e] = IF e = 0 THEN {0} ELSE TimesX(PowerMod[e - 1])
  BY <1>3
<1> QED  BY <1>4

\* The products that the proofs need.
LEMMA PowersOfX ==
  /\ PowerMod[4] = {0, 3}
  /\ PowerMod[5] = {0, 1, 3}
  /\ PowerMod[6] = {0, 1, 2, 3}
  /\ PowerMod[7] = {0, 1, 2}
  /\ PowerMod[8] = {1, 2, 3}
  /\ PowerMod[9] = {0, 2}
  /\ PowerMod[10] = {1, 3}
  /\ PowerMod[11] = {0, 2, 3}
<1>0. PowerMod[0] = {0}
  BY PowerModStep
<1>1. PowerMod[1] = {1}
  <2>1. PowerMod[1] = TimesX(PowerMod[1 - 1])  BY PowerModStep
  <2>2. TimesX({0}) = {1}  BY DEF TimesX, Xor
  <2> QED  BY <1>0, <2>1, <2>2
<1>2. PowerMod[2] = {2}
  <2>1. PowerMod[2] = TimesX(PowerMod[2 - 1])  BY PowerModStep
  <2>2. TimesX({1}) = {2}  BY DEF TimesX, Xor
  <2> QED  BY <1>1, <2>1, <2>2
<1>3. PowerMod[3] = {3}
  <2>1. PowerMod[3] = TimesX(PowerMod[3 - 1])  BY PowerModStep
  <2>2. TimesX({2}) = {3}  BY DEF TimesX, Xor
  <2> QED  BY <1>2, <2>1, <2>2
<1>4. PowerMod[4] = {0, 3}
  <2>1. PowerMod[4] = TimesX(PowerMod[4 - 1])  BY PowerModStep
  <2>2. TimesX({3}) = {0, 3}  BY DEF TimesX, Xor
  <2> QED  BY <1>3, <2>1, <2>2
<1>5. PowerMod[5] = {0, 1, 3}
  <2>1. PowerMod[5] = TimesX(PowerMod[5 - 1])  BY PowerModStep
  <2>2. TimesX({0, 3}) = {0, 1, 3}  BY DEF TimesX, Xor
  <2> QED  BY <1>4, <2>1, <2>2
<1>6. PowerMod[6] = {0, 1, 2, 3}
  <2>1. PowerMod[6] = TimesX(PowerMod[6 - 1])  BY PowerModStep
  <2>2. TimesX({0, 1, 3}) = {0, 1, 2, 3}  BY DEF TimesX, Xor
  <2> QED  BY <1>5, <2>1, <2>2
<1>7. PowerMod[7] = {0, 1, 2}
  <2>1. PowerMod[7] = TimesX(PowerMod[7 - 1])  BY PowerModStep
  <2>2. TimesX({0, 1, 2, 3}) = {0, 1, 2}  BY DEF TimesX, Xor
  <2> QED  BY <1>6, <2>1, <2>2
<1>8. PowerMod[8] = {1, 2, 3}
  <2>1. PowerMod[8] = TimesX(PowerMod[8 - 1])  BY PowerModStep
  <2>2. TimesX({0, 1, 2}) = {1, 2, 3}  BY DEF TimesX, Xor
  <2> QED  BY <1>7, <2>1, <2>2
<1>9. PowerMod[9] = {0, 2}
  <2>1. PowerMod[9] = TimesX(PowerMod[9 - 1])  BY PowerModStep
  <2>2. TimesX({1, 2, 3}) = {0, 2}  BY DEF TimesX, Xor
  <2> QED  BY <1>8, <2>1, <2>2
<1>10. PowerMod[10] = {1, 3}
  <2>1. PowerMod[10] = TimesX(PowerMod[10 - 1])  BY PowerModStep
  <2>2. TimesX({0, 2}) = {1, 3}  BY DEF TimesX, Xor
  <2> QED  BY <1>9, <2>1, <2>2
<1>11. PowerMod[11] = {0, 2, 3}
  <2>1. PowerMod[11] = TimesX(PowerMod[11 - 1])  BY PowerModStep
  <2>2. TimesX({1, 3}) = {0, 2, 3}  BY DEF TimesX, Xor
  <2> QED  BY <1>10, <2>1, <2>2
<1> QED  BY <1>4, <1>5, <1>6, <1>7, <1>8, <1>9, <1>10, <1>11

\* A number of elements that is odd.
Odd(set) == Cardinality(set) % 2 = 1

\* One more bit is counted.
LEMMA OddGrows ==
  ASSUME NEW S \in Byte, NEW n \in 0..7
  PROVE  Odd({bit \in S : bit < n + 1}) <=> Add(Odd({bit \in S : bit < n}), n \in S)
<1> DEFINE less == {bit \in S : bit < n}
           more == {bit \in S : bit < n + 1}
<1>0. \A bit \in S : bit \in 0..7  BY DEF Byte, Bits
<1>1. IsFiniteSet(less)
  <2>1. IsFiniteSet(0..7)  BY FS_Interval, 0 \in Int, 7 \in Int
  <2>2. less \subseteq 0..7  BY <1>0
  <2> QED  BY <2>1, <2>2, FS_Subset
<1>2. Cardinality(less) \in Nat  BY <1>1, FS_CardinalityType
<1>3. CASE n \in S
  <2>1. more = less \cup {n} /\ n \notin less
    <3>1. \A bit \in S : bit < n + 1 <=> bit < n \/ bit = n  BY <1>0
    <3>2. ~(n < n)  OBVIOUS
    <3>3. n \notin less  BY <3>2
    <3>4. \A bit : bit \in more <=> bit \in less \/ bit = n  BY <1>3, <3>1
    <3> HIDE DEF less, more
    <3> QED  BY <3>3, <3>4
  <2>2. Cardinality(more) = Cardinality(less) + 1  BY <1>1, <2>1, FS_AddElement
  <2> HIDE DEF less, more
  <2>3. Odd(more) <=> ~Odd(less)  BY <1>2, <2>2 DEF Odd
  <2> QED  BY <1>3, <2>3 DEF Add, less, more
<1>4. CASE n \notin S
  <2>1. more = less
    <3>1. \A bit \in S : bit < n + 1 <=> bit < n  BY <1>0, <1>4
    <3> QED  BY <3>1
  <2> HIDE DEF less, more
  <2> QED  BY <1>4, <2>1 DEF Add, less, more
<1> QED  BY <1>3, <1>4

\* The bits of a byte are counted one by one.
LEMMA OddByte ==
  ASSUME NEW S \in Byte
  PROVE  Odd(S) <=> Add(0 \in S, Add(1 \in S, Add(2 \in S, Add(3 \in S, Add(4 \in S,
                      Add(5 \in S, Add(6 \in S, 7 \in S)))))))
<1> DEFINE below(n) == {bit \in S : bit < n}
<1>0. \A bit \in S : ~(bit < 0) /\ bit < 8  BY DEF Byte, Bits
<1>1. ~Odd(below(0))
  <2>1. below(0) = {}  BY <1>0
  <2>2. Cardinality(below(0)) = 0  BY <2>1, FS_EmptySet
  <2> QED  BY <2>2 DEF Odd
<1>2. below(8) = S  BY <1>0
<1>3. \A n \in 0..7 : Odd(below(n + 1)) <=> Add(Odd(below(n)), n \in S)
  BY OddGrows
<1> HIDE DEF below
<1>4. /\ Odd(below(1)) <=> Add(Odd(below(0)), 0 \in S)
      /\ Odd(below(2)) <=> Add(Odd(below(1)), 1 \in S)
      /\ Odd(below(3)) <=> Add(Odd(below(2)), 2 \in S)
      /\ Odd(below(4)) <=> Add(Odd(below(3)), 3 \in S)
      /\ Odd(below(5)) <=> Add(Odd(below(4)), 4 \in S)
      /\ Odd(below(6)) <=> Add(Odd(below(5)), 5 \in S)
      /\ Odd(below(7)) <=> Add(Odd(below(6)), 6 \in S)
      /\ Odd(below(8)) <=> Add(Odd(below(7)), 7 \in S)
  <2>1. 1 = 0 + 1 /\ 2 = 1 + 1 /\ 3 = 2 + 1 /\ 4 = 3 + 1 /\ 5 = 4 + 1 /\ 6 = 5 + 1 /\ 7 = 6 + 1
        /\ 8 = 7 + 1
    OBVIOUS
  <2> QED  BY <1>3, <2>1
<1> QED  BY <1>1, <1>2, <1>4 DEF Add

\* The remainder of the reference, as sums of bits.
LEMMA RemainderOfBits ==
  ASSUME NEW b \in Byte
  PROVE  /\ 0 \in RemainderOf(b) <=> Sum4(b)
         /\ 1 \in RemainderOf(b) <=> Sum5(b)
         /\ 2 \in RemainderOf(b) <=> Sum6(b)
         /\ 3 \in RemainderOf(b) <=> Sum7(b)
<1> DEFINE seen(d) == {bit \in b : d \in PowerMod[bit + 4]}
<1>1. \A d \in 0..3 : d \in RemainderOf(b) <=> Odd(seen(d))
  BY DEF RemainderOf, Odd
<1>2. \A d \in 0..3 : seen(d) \in Byte
  BY DEF Byte
<1>3. ASSUME NEW d \in 0..3
      PROVE  /\ 0 \in seen(d) <=> 0 \in b /\ d \in PowerMod[4]
             /\ 1 \in seen(d) <=> 1 \in b /\ d \in PowerMod[5]
             /\ 2 \in seen(d) <=> 2 \in b /\ d \in PowerMod[6]
             /\ 3 \in seen(d) <=> 3 \in b /\ d \in PowerMod[7]
             /\ 4 \in seen(d) <=> 4 \in b /\ d \in PowerMod[8]
             /\ 5 \in seen(d) <=> 5 \in b /\ d \in PowerMod[9]
             /\ 6 \in seen(d) <=> 6 \in b /\ d \in PowerMod[10]
             /\ 7 \in seen(d) <=> 7 \in b /\ d \in PowerMod[11]
  OBVIOUS
<1> HIDE DEF seen
<1>4. 0 \in RemainderOf(b) <=> Sum4(b)
  <2>1. /\ 0 \in seen(0) <=> 0 \in b
        /\ 1 \in seen(0) <=> 1 \in b
        /\ 2 \in seen(0) <=> 2 \in b
        /\ 3 \in seen(0) <=> 3 \in b
        /\ 4 \notin seen(0)
        /\ 5 \in seen(0) <=> 5 \in b
        /\ 6 \notin seen(0)
        /\ 7 \in seen(0) <=> 7 \in b
    BY <1>3, PowersOfX
  <2>2. Odd(seen(0)) <=> Sum4(b)
    BY <1>2, <2>1, OddByte DEF Add, Sum4
  <2> QED  BY <1>1, <2>2
<1>5. 1 \in RemainderOf(b) <=> Sum5(b)
  <2>1. /\ 0 \notin seen(1)
        /\ 1 \in seen(1) <=> 1 \in b
        /\ 2 \in seen(1) <=> 2 \in b
        /\ 3 \in seen(1) <=> 3 \in b
        /\ 4 \in seen(1) <=> 4 \in b
        /\ 5 \notin seen(1)
        /\ 6 \in seen(1) <=> 6 \in b
        /\ 7 \notin seen(1)
    BY <1>3, PowersOfX
  <2>2. Odd(seen(1)) <=> Sum5(b)
    BY <1>2, <2>1, OddByte DEF Add, Sum5
  <2> QED  BY <1>1, <2>2
<1>6. 2 \in RemainderOf(b) <=> Sum6(b)
  <2>1. /\ 0 \notin seen(2)
        /\ 1 \notin seen(2)
        /\ 2 \in seen(2) <=> 2 \in b
        /\ 3 \in seen(2) <=> 3 \in b
        /\ 4 \in seen(2) <=> 4 \in b
        /\ 5 \in seen(2) <=> 5 \in b
        /\ 6 \notin seen(2)
        /\ 7 \in seen(2) <=> 7 \in b
    BY <1>3, PowersOfX
  <2>2. Odd(seen(2)) <=> Sum6(b)
    BY <1>2, <2>1, OddByte DEF Add, Sum6
  <2> QED  BY <1>1, <2>2
<1>7. 3 \in RemainderOf(b) <=> Sum7(b)
  <2>1. /\ 0 \in seen(3) <=> 0 \in b
        /\ 1 \in seen(3) <=> 1 \in b
        /\ 2 \in seen(3) <=> 2 \in b
        /\ 3 \notin seen(3)
        /\ 4 \in seen(3) <=> 4 \in b
        /\ 5 \notin seen(3)
        /\ 6 \in seen(3) <=> 6 \in b
        /\ 7 \in seen(3) <=> 7 \in b
    BY <1>3, PowersOfX
  <2>2. Odd(seen(3)) <=> Sum7(b)
    BY <1>2, <2>1, OddByte DEF Add, Sum7
  <2> QED  BY <1>1, <2>2
<1> QED  BY <1>4, <1>5, <1>6, <1>7

\* For every byte the loop of crc.c divides as the reference does.
LEMMA LoopIsDivision ==
  ASSUME NEW b \in Byte
  PROVE  Remainder[b] = {d + 4 : d \in RemainderOf(b)}
<1>1. RemainderOf(b) \subseteq 0..3  BY DEF RemainderOf
<1>2. /\ 4 \in Remainder[b] <=> 0 \in RemainderOf(b)
      /\ 5 \in Remainder[b] <=> 1 \in RemainderOf(b)
      /\ 6 \in Remainder[b] <=> 2 \in RemainderOf(b)
      /\ 7 \in Remainder[b] <=> 3 \in RemainderOf(b)
      /\ Remainder[b] \subseteq 4..7
  BY RemainderBits, RemainderOfBits
<1>3. \A e \in 4..7 : e \in Remainder[b] <=> e - 4 \in RemainderOf(b)
  <2> SUFFICES ASSUME NEW e \in 4..7 PROVE e \in Remainder[b] <=> e - 4 \in RemainderOf(b)
    OBVIOUS
  <2>1. e = 4 \/ e = 5 \/ e = 6 \/ e = 7  OBVIOUS
  <2> QED  BY <1>2, <2>1
<1>4. \A e \in Remainder[b] : e \in 4..7 /\ e = (e - 4) + 4 /\ e - 4 \in RemainderOf(b)
  BY <1>2, <1>3
<1>5. \A d \in RemainderOf(b) : d + 4 \in 4..7 /\ (d + 4) - 4 = d
  BY <1>1
<1>6. \A d \in RemainderOf(b) : d + 4 \in Remainder[b]
  BY <1>3, <1>5
<1> QED  BY <1>4, <1>6

-----------------------------------------------------------------------------
(***************************************************************************)
(* What the check finds.                                                   *)
(***************************************************************************)

\* The remainder of a sum is the sum of the remainders.
LEMMA SumsAdd ==
  ASSUME NEW a \in Byte, NEW b \in Byte
  PROVE  /\ Sum4(Xor(a, b)) <=> Add(Sum4(a), Sum4(b))
         /\ Sum5(Xor(a, b)) <=> Add(Sum5(a), Sum5(b))
         /\ Sum6(Xor(a, b)) <=> Add(Sum6(a), Sum6(b))
         /\ Sum7(Xor(a, b)) <=> Add(Sum7(a), Sum7(b))
<1>1. \A k \in 0..7 : k \in Xor(a, b) <=> Add(k \in a, k \in b)
  BY DEF Xor, Add
<1> DEFINE d == Xor(a, b)
<1>2. /\ 0 \in d <=> Add(0 \in a, 0 \in b)
      /\ 1 \in d <=> Add(1 \in a, 1 \in b)
      /\ 2 \in d <=> Add(2 \in a, 2 \in b)
      /\ 3 \in d <=> Add(3 \in a, 3 \in b)
      /\ 4 \in d <=> Add(4 \in a, 4 \in b)
      /\ 5 \in d <=> Add(5 \in a, 5 \in b)
      /\ 6 \in d <=> Add(6 \in a, 6 \in b)
      /\ 7 \in d <=> Add(7 \in a, 7 \in b)
  BY <1>1
<1> HIDE DEF d
<1>3. Sum4(d) <=> Add(Sum4(a), Sum4(b))  BY <1>2 DEF Add, Sum4
<1>4. Sum5(d) <=> Add(Sum5(a), Sum5(b))  BY <1>2 DEF Add, Sum5
<1>5. Sum6(d) <=> Add(Sum6(a), Sum6(b))  BY <1>2 DEF Add, Sum6
<1>6. Sum7(d) <=> Add(Sum7(a), Sum7(b))  BY <1>2 DEF Add, Sum7
<1> QED  BY <1>3, <1>4, <1>5, <1>6 DEF d

\* No one or two inversions add up to nothing: places 0 to 7 are the bits of the byte, 8 to 11
\* those of its half of the check.
LEMMA TwoAreFound ==
  ASSUME NEW x \in 0..11, NEW y \in 0..11, NEW d \in Byte,
         \A k \in 0..7 : k \in d <=> k = x \/ k = y
  PROVE  ~ /\ Sum4(d) <=> 8 = x \/ 8 = y
           /\ Sum5(d) <=> 9 = x \/ 9 = y
           /\ Sum6(d) <=> 10 = x \/ 10 = y
           /\ Sum7(d) <=> 11 = x \/ 11 = y
<1>1. /\ 0 \in d <=> 0 = x \/ 0 = y
      /\ 1 \in d <=> 1 = x \/ 1 = y
      /\ 2 \in d <=> 2 = x \/ 2 = y
      /\ 3 \in d <=> 3 = x \/ 3 = y
      /\ 4 \in d <=> 4 = x \/ 4 = y
      /\ 5 \in d <=> 5 = x \/ 5 = y
      /\ 6 \in d <=> 6 = x \/ 6 = y
      /\ 7 \in d <=> 7 = x \/ 7 = y
  OBVIOUS
<1> QED  BY <1>1 DEF Add, Sum4, Sum5, Sum6, Sum7

\* A set of one or two.
LEMMA OneOrTwo ==
  ASSUME NEW S, IsFiniteSet(S), S # {}, Cardinality(S) < 3
  PROVE  \E x, y \in S : S = {x, y}
<1>1. PICK x \in S : TRUE  OBVIOUS
<1>2. IsFiniteSet(S \ {x}) /\ Cardinality(S \ {x}) = Cardinality(S) - 1
  BY FS_RemoveElement
<1>3. CASE S \ {x} = {}
  BY <1>1, <1>3
<1>4. CASE S \ {x} # {}
  <2>1. PICK y \in S \ {x} : TRUE  BY <1>4
  <2> DEFINE rest == (S \ {x}) \ {y}
  <2>2. IsFiniteSet(rest) /\ Cardinality(rest) = Cardinality(S) - 2
    <3>1. Cardinality(S) \in Nat  BY FS_CardinalityType
    <3>2. Cardinality(rest) = Cardinality(S \ {x}) - 1 /\ IsFiniteSet(rest)
      BY <1>2, <2>1, FS_RemoveElement
    <3> QED  BY <1>2, <3>1, <3>2
  <2>3. Cardinality(rest) = 0
    <3>1. Cardinality(S) \in Nat /\ Cardinality(rest) \in Nat  BY <2>2, FS_CardinalityType
    <3> QED  BY <2>2, <3>1
  <2>4. rest = {}  BY <2>2, <2>3, FS_EmptySet
  <2>5. S = {x, y}  BY <1>1, <2>1, <2>4
  <2> QED  BY <2>1, <2>5
<1> QED  BY <1>3, <1>4

\* Where compute_crc puts the two remainders.
LEMMA CheckBits ==
  ASSUME NEW command \in Byte, NEW value \in Byte
  PROVE  /\ compute_crc(command, value) \in Byte
         /\ \A i \in 4..7 : i \in compute_crc(command, value) <=> i \in Remainder[command]
         /\ \A i \in 4..7 : i - 4 \in compute_crc(command, value) <=> i \in Remainder[value]
<1>1. Remainder[command] \subseteq 4..7 /\ Remainder[value] \subseteq 4..7
  BY RemainderBits
<1> DEFINE low == {bit - 4 : bit \in Remainder[value] \cap MASK}
<1>2. compute_crc(command, value) = (Remainder[command] \cap MASK) \cup low
  BY DEF compute_crc
<1>3. \A i \in 4..7 : i - 4 \in low <=> i \in Remainder[value]
  <2>1. \A i, j \in 4..7 : i - 4 = j - 4 => i = j  OBVIOUS
  <2>2. Remainder[value] \cap MASK = Remainder[value]  BY <1>1 DEF MASK
  <2> QED  BY <1>1, <2>1, <2>2
<1>4. low \subseteq 0..3
  <2>1. \A j \in 4..7 : j - 4 \in 0..3  OBVIOUS
  <2>2. \A j \in Remainder[value] \cap MASK : j \in 4..7  BY DEF MASK
  <2> QED  BY <2>1, <2>2
<1> HIDE DEF low
<1>5. \A i \in 4..7 : i \notin low /\ i - 4 \notin Remainder[command] /\ i \in MASK
  BY <1>1, <1>4 DEF MASK
<1>6. compute_crc(command, value) \in Byte
  <2>1. 4..7 \subseteq 0..7 /\ 0..3 \subseteq 0..7  OBVIOUS
  <2>2. (Remainder[command] \cap MASK) \cup low \subseteq 0..7
    BY <1>1, <1>4, <2>1
  <2> QED  BY <1>2, <2>2 DEF Byte, Bits
<1> QED  BY <1>2, <1>3, <1>5, <1>6

-----------------------------------------------------------------------------
(***************************************************************************)
(* The packet on the line: what was received differs from what was sent in *)
(* the inverted bits, and nowhere else.                                    *)
(***************************************************************************)

Packet == [command : Byte, value : Byte, crc : Byte]

NoisyInv ==
  /\ flips \subseteq Fields \X Bits
  /\ IsFiniteSet(flips)
  /\ sent \in Packet /\ received \in Packet
  /\ sent.crc = compute_crc(sent.command, sent.value)
  /\ \A field \in Fields, bit \in Bits :
       bit \in received[field] <=> Add(bit \in sent[field], <<field, bit>> \in flips)

LEMMA InitNoisy == Init => NoisyInv
<1> SUFFICES ASSUME Init PROVE NoisyInv
  OBVIOUS
<1>1. PICK command \in Commands, value \in Values :
        sent = [command |-> ByteOf[command], value |-> ByteOf[value],
                crc |-> compute_crc(ByteOf[command], ByteOf[value])]
  BY DEF Init
<1>2. ByteOf[command] \in Byte /\ ByteOf[value] \in Byte
  <2>1. command \in 0..255 /\ value \in 0..255
    BY PacketAssumption
  <2>2. \A number \in 0..255 : ByteOf[number] \in Byte
    BY DEF ByteOf, Byte
  <2> QED  BY <2>1, <2>2
<1>3. compute_crc(ByteOf[command], ByteOf[value]) \in Byte
  BY <1>2, CheckBits
<1>4. sent \in Packet /\ sent.crc = compute_crc(sent.command, sent.value)
  BY <1>1, <1>2, <1>3 DEF Packet
<1>5. received = sent /\ flips = {}
  BY DEF Init
<1>6. IsFiniteSet(flips)
  BY <1>5, FS_EmptySet
<1> QED  BY <1>4, <1>5, <1>6 DEF NoisyInv, Add

LEMMA FlipNoisy ==
  ASSUME NoisyInv, NEW field \in Fields, NEW bit \in Bits, Flip(field, bit)
  PROVE  NoisyInv'
<1>1. /\ flips' = flips \cup {<<field, bit>>} /\ <<field, bit>> \notin flips
      /\ received' = [received EXCEPT ![field] = Xor(@, {bit})]
      /\ sent' = sent
  BY DEF Flip
<1>2. sent \in Packet /\ received \in Packet
  BY DEF NoisyInv
<1>3. received[field] \in Byte
  BY <1>2 DEF Fields, Packet
<1>4. Xor(received[field], {bit}) \in Byte
  BY <1>3 DEF Byte, Xor
<1> DEFINE turned == Xor(received[field], {bit})
<1>5. received' \in Packet /\ received'[field] = turned
      /\ \A other \in Fields : other # field => received'[other] = received[other]
  <2>1. received' = [received EXCEPT ![field] = turned]  BY <1>1
  <2>2. turned \in Byte  BY <1>4
  <2> HIDE DEF turned
  <2>3. CASE field = "command"  BY <1>2, <2>1, <2>2, <2>3 DEF Packet, Fields
  <2>4. CASE field = "value"    BY <1>2, <2>1, <2>2, <2>4 DEF Packet, Fields
  <2>5. CASE field = "crc"      BY <1>2, <2>1, <2>2, <2>5 DEF Packet, Fields
  <2> QED  BY <2>3, <2>4, <2>5 DEF Fields
<1>6. flips' \subseteq Fields \X Bits /\ IsFiniteSet(flips')
  BY <1>1, FS_AddElement DEF NoisyInv
<1>7. ASSUME NEW other \in Fields, NEW b \in Bits
      PROVE  b \in received'[other] <=> Add(b \in sent'[other], <<other, b>> \in flips')
  <2>1. b \in received[other] <=> Add(b \in sent[other], <<other, b>> \in flips)
    BY DEF NoisyInv
  <2>2. CASE other = field /\ b = bit
    <3>1. b \in received'[other] <=> b \notin received[other]
      BY <1>5, <2>2 DEF Xor
    <3>2. <<other, b>> \in flips' /\ <<other, b>> \notin flips
      BY <1>1, <2>2
    <3> QED  BY <1>1, <2>1, <3>1, <3>2 DEF Add
  <2>3. CASE ~(other = field /\ b = bit)
    <3>1. <<other, b>> \in flips' <=> <<other, b>> \in flips
      BY <1>1, <2>3
    <3>2. b \in received'[other] <=> b \in received[other]
      BY <1>5, <2>3 DEF Xor
    <3> QED  BY <1>1, <2>1, <3>1, <3>2 DEF Add
  <2> QED  BY <2>2, <2>3
<1>8. sent'.crc = compute_crc(sent'.command, sent'.value)
  BY <1>1 DEF NoisyInv
<1> QED  BY <1>1, <1>2, <1>5, <1>6, <1>7, <1>8 DEF NoisyInv

LEMMA NoisyInductive == Spec => []NoisyInv
<1>1. NoisyInv /\ [Next]_vars => NoisyInv'
  <2>1. NoisyInv /\ Next => NoisyInv'
    BY FlipNoisy DEF Next
  <2>2. NoisyInv /\ UNCHANGED vars => NoisyInv'
    BY DEF NoisyInv, vars
  <2> QED  BY <2>1, <2>2
<1> QED  BY InitNoisy, <1>1, PTL DEF Spec

\* compute_crc divides as polynomials are divided: the four bits that its loop leaves of
\* the command and of the value received are their remainders, whatever was received.
THEOREM LoopAlwaysDivides == Spec => []LoopDivides
<1>1. NoisyInv => LoopDivides
  <2> SUFFICES ASSUME NoisyInv, NEW byte \in {received.command, received.value}
               PROVE  Remainder[byte] = {d + 4 : d \in RemainderOf(byte)}
    BY DEF LoopDivides
  <2>1. byte \in Byte
    BY DEF NoisyInv, Packet
  <2> QED  BY <2>1, LoopIsDivision
<1> QED  BY <1>1, NoisyInductive, PTL

-----------------------------------------------------------------------------
(***************************************************************************)
(* What the check of one data byte sees: twelve places, eight of the byte  *)
(* and, above them, the four of its half of the check byte.                *)
(***************************************************************************)

DataFields == {"command", "value"}

\* How far below the upper half of the register the field's check bits stand.
Half(field) == IF field = "command" THEN 0 ELSE 4

Place(field, flip) ==
  IF flip[1] = field THEN flip[2] ELSE flip[2] + 4 + Half(field)

LEMMA Places ==
  ASSUME NoisyInv, NEW field \in DataFields, NEW flip \in FlipsOf(field)
  PROVE  /\ Place(field, flip) \in 0..11
         /\ \A k \in 0..7 : <<field, k>> = flip <=> k = Place(field, flip)
         /\ \A i \in 4..7 : <<"crc", i - Half(field)>> = flip <=> i + 4 = Place(field, flip)
<1>1. PICK name \in Fields, bit \in 0..7 : flip = <<name, bit>>
  BY DEF NoisyInv, FlipsOf, Bits
<1>2. field # "crc"
  BY DEF DataFields
<1>3. CASE name = field
  <2>1. Place(field, flip) = bit
    BY <1>1, <1>3 DEF Place
  <2> QED  BY <1>1, <1>2, <1>3, <2>1
<1>4. CASE name # field
  <2>1. name = "crc" /\ (bit \in 4..7 <=> field = "command")
    BY <1>1, <1>4 DEF FlipsOf, MASK
  <2>2. CASE field = "command"
    <3>1. bit \in 4..7 /\ Place(field, flip) = bit + 4 /\ Half(field) = 0
      BY <1>1, <1>4, <2>1, <2>2 DEF Place, Half
    <3> QED  BY <1>1, <1>2, <2>1, <3>1
  <2>3. CASE field = "value"
    <3>1. bit \in 0..3 /\ Place(field, flip) = bit + 8 /\ Half(field) = 4
      BY <1>1, <1>4, <2>1, <2>3 DEF Place, Half
    <3> QED  BY <1>1, <1>2, <2>1, <3>1
  <2> QED  BY <2>2, <2>3 DEF DataFields
<1> QED  BY <1>3, <1>4

\* In a packet that passes the check, the change of a byte's remainder is what was inverted
\* in its half of the check byte.
LEMMA RemaindersChange ==
  ASSUME NoisyInv, check_crc(received), NEW field \in DataFields
  PROVE  \A i \in 4..7 :
           Add(i \in Remainder[sent[field]], i \in Remainder[received[field]])
             <=> <<"crc", i - Half(field)>> \in flips
<1> SUFFICES ASSUME NEW i \in 4..7
             PROVE  Add(i \in Remainder[sent[field]], i \in Remainder[received[field]])
                      <=> <<"crc", i - Half(field)>> \in flips
  OBVIOUS
<1>1. ASSUME NEW packet \in {sent, received}
      PROVE  /\ i \in packet.crc <=> i \in Remainder[packet.command]
             /\ i - 4 \in packet.crc <=> i \in Remainder[packet.value]
  <2>1. packet.command \in Byte /\ packet.value \in Byte
    BY DEF NoisyInv, Packet
  <2>2. packet.crc = compute_crc(packet.command, packet.value)
    BY DEF NoisyInv, check_crc
  <2>3. /\ i \in compute_crc(packet.command, packet.value) <=> i \in Remainder[packet.command]
        /\ i - 4 \in compute_crc(packet.command, packet.value) <=> i \in Remainder[packet.value]
    <3> DEFINE c == packet.command
               v == packet.value
    <3> HIDE DEF c, v
    <3>1. c \in Byte /\ v \in Byte  BY <2>1 DEF c, v
    <3>2. \A j \in 4..7 : /\ j \in compute_crc(c, v) <=> j \in Remainder[c]
                          /\ j - 4 \in compute_crc(c, v) <=> j \in Remainder[v]
      BY <3>1, CheckBits
    <3> QED  BY <3>2 DEF c, v
  <2> QED  BY <2>2, <2>3
<1>2. \A b \in 0..7 : b \in received.crc <=> Add(b \in sent.crc, <<"crc", b>> \in flips)
  BY DEF NoisyInv, Fields, Bits
<1>3. CASE field = "command"
  <2>1. i \in sent.crc <=> i \in Remainder[sent.command]
    BY <1>1
  <2>2. i \in received.crc <=> i \in Remainder[received.command]
    BY <1>1
  <2>3. i - Half(field) = i /\ i \in 0..7
    BY <1>3 DEF Half
  <2>4. i \in received.crc <=> Add(i \in sent.crc, <<"crc", i>> \in flips)
    BY <1>2, <2>3
  <2> QED  BY <1>3, <2>1, <2>2, <2>3, <2>4 DEF Add
<1>4. CASE field = "value"
  <2>1. i - 4 \in sent.crc <=> i \in Remainder[sent.value]
    BY <1>1
  <2>2. i - 4 \in received.crc <=> i \in Remainder[received.value]
    BY <1>1
  <2>3. i - Half(field) = i - 4 /\ i - 4 \in 0..7
    BY <1>4 DEF Half
  <2>4. i - 4 \in received.crc <=> Add(i - 4 \in sent.crc, <<"crc", i - 4>> \in flips)
    BY <1>2, <2>3
  <2> QED  BY <1>4, <2>1, <2>2, <2>3, <2>4 DEF Add
<1> QED  BY <1>3, <1>4 DEF DataFields

LEMMA ThreeAreNeeded ==
  ASSUME NoisyInv, check_crc(received), NEW field \in DataFields, FlipsOf(field) # {}
  PROVE  Cardinality(FlipsOf(field)) >= 3
<1>1. IsFiniteSet(FlipsOf(field)) /\ Cardinality(FlipsOf(field)) \in Nat
  BY FS_Subset, FS_CardinalityType DEF NoisyInv, FlipsOf
<1> SUFFICES ASSUME Cardinality(FlipsOf(field)) < 3 PROVE FALSE
  BY <1>1
<1>2. PICK first, second \in FlipsOf(field) : FlipsOf(field) = {first, second}
  BY <1>1, OneOrTwo
<1> DEFINE x == Place(field, first)
           y == Place(field, second)
           d == Xor(sent[field], received[field])
<1>3. sent[field] \in Byte /\ received[field] \in Byte
  BY DEF NoisyInv, Packet, DataFields
<1>4. d \in Byte
  BY <1>3 DEF Xor, Byte
<1>5. \A k \in 0..7 : k \in d <=> <<field, k>> \in flips
  <2>1. field \in Fields  BY DEF DataFields, Fields
  <2> QED  BY <2>1 DEF NoisyInv, Xor, Add, Bits
<1>6. \A k \in 0..7 : <<field, k>> \in flips <=> <<field, k>> \in FlipsOf(field)
  BY DEF FlipsOf
<1>7. \A i \in 4..7 :
        <<"crc", i - Half(field)>> \in flips <=> <<"crc", i - Half(field)>> \in FlipsOf(field)
  <2>1. \A i \in 4..7 : i - Half(field) \in MASK <=> field = "command"
    BY DEF Half, MASK
  <2> QED  BY <2>1 DEF FlipsOf
<1>8. /\ x \in 0..11 /\ y \in 0..11
      /\ \A k \in 0..7 : k \in d <=> k = x \/ k = y
      /\ \A i \in 4..7 : <<"crc", i - Half(field)>> \in flips <=> i + 4 = x \/ i + 4 = y
  <2>1. /\ x \in 0..11
        /\ \A k \in 0..7 : <<field, k>> = first <=> k = x
        /\ \A i \in 4..7 : <<"crc", i - Half(field)>> = first <=> i + 4 = x
    BY Places
  <2>2. /\ y \in 0..11
        /\ \A k \in 0..7 : <<field, k>> = second <=> k = y
        /\ \A i \in 4..7 : <<"crc", i - Half(field)>> = second <=> i + 4 = y
    BY Places
  <2> HIDE DEF x, y, d
  <2> QED  BY <1>2, <1>5, <1>6, <1>7, <2>1, <2>2
<1>9. \A i \in 4..7 :
        Add(i \in Remainder[sent[field]], i \in Remainder[received[field]])
          <=> i + 4 = x \/ i + 4 = y
  BY <1>8, RemaindersChange
<1>10. /\ Sum4(d) <=> 8 = x \/ 8 = y
       /\ Sum5(d) <=> 9 = x \/ 9 = y
       /\ Sum6(d) <=> 10 = x \/ 10 = y
       /\ Sum7(d) <=> 11 = x \/ 11 = y
  <2>1. /\ Sum4(d) <=> Add(Sum4(sent[field]), Sum4(received[field]))
        /\ Sum5(d) <=> Add(Sum5(sent[field]), Sum5(received[field]))
        /\ Sum6(d) <=> Add(Sum6(sent[field]), Sum6(received[field]))
        /\ Sum7(d) <=> Add(Sum7(sent[field]), Sum7(received[field]))
    BY <1>3, SumsAdd
  <2>2. \A b \in {sent[field], received[field]} :
          /\ 4 \in Remainder[b] <=> Sum4(b)
          /\ 5 \in Remainder[b] <=> Sum5(b)
          /\ 6 \in Remainder[b] <=> Sum6(b)
          /\ 7 \in Remainder[b] <=> Sum7(b)
    BY <1>3, RemainderBits
  <2> HIDE DEF x, y, d
  <2>3. /\ Add(4 \in Remainder[sent[field]], 4 \in Remainder[received[field]])
             <=> 8 = x \/ 8 = y
        /\ Add(5 \in Remainder[sent[field]], 5 \in Remainder[received[field]])
             <=> 9 = x \/ 9 = y
        /\ Add(6 \in Remainder[sent[field]], 6 \in Remainder[received[field]])
             <=> 10 = x \/ 10 = y
        /\ Add(7 \in Remainder[sent[field]], 7 \in Remainder[received[field]])
             <=> 11 = x \/ 11 = y
    BY <1>9
  <2> QED  BY <2>1, <2>2, <2>3 DEF Add
<1> HIDE DEF x, y, d
<1> QED  BY <1>4, <1>8, <1>10, TwoAreFound

\* A packet changed on the line passes check_crc only if at least three bits were inverted
\* in one of its bytes and the half of the check byte that belongs to it: no single and no
\* double error of a byte with its half is missed.
THEOREM AlterationsFound == Spec => []AlteredIsRejected
<1>1. NoisyInv => AlteredIsRejected
  <2> SUFFICES ASSUME NoisyInv, received # sent, check_crc(received)
               PROVE  \E field \in DataFields : Cardinality(FlipsOf(field)) >= 3
    BY DEF AlteredIsRejected, DataFields
  <2>1. \E field \in Fields, bit \in Bits : <<field, bit>> \in flips
    <3> SUFFICES ASSUME \A field \in Fields, bit \in Bits : <<field, bit>> \notin flips
                 PROVE  received = sent
      OBVIOUS
    <3>1. sent \in Packet /\ received \in Packet
      BY DEF NoisyInv
    <3>2. ASSUME NEW field \in Fields PROVE received[field] = sent[field]
      <4>1. \A bit \in Bits : bit \in received[field] <=> bit \in sent[field]
        BY DEF NoisyInv, Add
      <4>2. received[field] \subseteq Bits /\ sent[field] \subseteq Bits
        BY <3>1 DEF Packet, Fields, Byte
      <4> QED  BY <4>1, <4>2
    <3> QED  BY <3>1, <3>2 DEF Packet, Fields
  <2>2. PICK field \in Fields, bit \in Bits : <<field, bit>> \in flips
    BY <2>1
  <2>3. \E data \in DataFields : <<field, bit>> \in FlipsOf(data)
    BY <2>2 DEF FlipsOf, Fields, DataFields
  <2> QED  BY <2>3, ThreeAreNeeded
<1> QED  BY <1>1, NoisyInductive, PTL

=============================================================================
