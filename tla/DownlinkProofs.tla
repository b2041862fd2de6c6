--------------------------- MODULE DownlinkProofs ---------------------------
(***************************************************************************)
(* Theorems about Downlink: its types, and that the PC comes back into     *)
(* step, for any records, leftovers and texts and any number of bytes      *)
(* lost and reports inserted.                                              *)
(***************************************************************************)
EXTENDS Downlink, SequenceTheorems, TLAPS

-----------------------------------------------------------------------------
(***************************************************************************)
(* The bytes of the messages.                                              *)
(***************************************************************************)

\* The names of fields, and what a case of a switch is.
Names == {"current_time", "current_mode", "bat_volt", "ae0", "ae1", "ae2", "ae3",
          "controlgain_yaw", "controlgain_p1", "controlgain_p2", "dmp_raw_mode",
          "key_lift", "key_roll", "key_pitch", "key_yaw",
          "sp", "sq", "sr", "sax", "say", "saz", "phi", "theta", "psi"}

Shifts == [field : Names, weight : Int, signed : BOOLEAN]

\* What \o makes of two sequences.
LEMMA Joined ==
  ASSUME NEW S, NEW s \in Seq(S), NEW t \in Seq(S)
  PROVE  /\ s \o t \in Seq(S) /\ Len(s \o t) = Len(s) + Len(t)
         /\ \A i \in 1..Len(s) : (s \o t)[i] = s[i]
         /\ \A i \in 1..Len(t) : (s \o t)[Len(s) + i] = t[i]
<1>1. Len(s) \in Nat /\ Len(t) \in Nat  OBVIOUS
<1> QED  BY <1>1, ConcatProperties

\* The cases of a field, and the fields of two lists of cases.
LEMMA CasesOf ==
  ASSUME NEW field \in Names
  PROVE  /\ Uint8(field) \in Seq(Shifts) /\ Len(Uint8(field)) = 1
         /\ FieldsOf(Uint8(field)) = {field}
         /\ Uint16(field) \in Seq(Shifts) /\ Len(Uint16(field)) = 2
         /\ FieldsOf(Uint16(field)) = {field}
         /\ Int16(field) \in Seq(Shifts) /\ Len(Int16(field)) = 2
         /\ FieldsOf(Int16(field)) = {field}
         /\ Int32(field) \in Seq(Shifts) /\ Len(Int32(field)) = 4
         /\ FieldsOf(Int32(field)) = {field}
<1> DEFINE one == Uint8(field)
           two == Uint16(field)
           signed == Int16(field)
           four == Int32(field)
<1>1. one \in Seq(Shifts) /\ Len(one) = 1 /\ one[1].field = field
  BY DEF Uint8, Shift, Shifts
<1>2. two \in Seq(Shifts) /\ Len(two) = 2 /\ two[1].field = field /\ two[2].field = field
  BY DEF Uint16, Shift, Shifts
<1>3. signed \in Seq(Shifts) /\ Len(signed) = 2 /\ signed[1].field = field
      /\ signed[2].field = field
  BY DEF Int16, Shift, Shifts
<1>4. /\ four \in Seq(Shifts) /\ Len(four) = 4
      /\ four[1].field = field /\ four[2].field = field
      /\ four[3].field = field /\ four[4].field = field
  BY DEF Int32, Shift, Shifts
<1> HIDE DEF one, two, signed, four
<1>5. FieldsOf(one) = {field} /\ FieldsOf(two) = {field} /\ FieldsOf(signed) = {field}
      /\ FieldsOf(four) = {field}
  BY <1>1, <1>2, <1>3, <1>4 DEF FieldsOf
<1> QED  BY <1>1, <1>2, <1>3, <1>4, <1>5 DEF one, two, signed, four

\* Two lists of cases, one after the other.
LEMMA JoinedCases ==
  ASSUME NEW s \in Seq(Shifts), NEW t \in Seq(Shifts)
  PROVE  /\ s \o t \in Seq(Shifts) /\ Len(s \o t) = Len(s) + Len(t)
         /\ FieldsOf(s \o t) = FieldsOf(s) \cup FieldsOf(t)
<1> DEFINE u == s \o t
<1>1. /\ u \in Seq(Shifts) /\ Len(u) = Len(s) + Len(t)
      /\ \A i \in 1..Len(s) : u[i] = s[i]
      /\ \A i \in 1..Len(t) : u[Len(s) + i] = t[i]
  BY Joined
<1> HIDE DEF u
<1>2. Len(s) \in Nat /\ Len(t) \in Nat  OBVIOUS
<1>3. \A i \in 1..Len(u) :
        \/ i \in 1..Len(s)
        \/ i - Len(s) \in 1..Len(t) /\ i = Len(s) + (i - Len(s))
  BY <1>1, <1>2
<1>4. \A i \in 1..Len(t) : Len(s) + i \in 1..Len(u)
  BY <1>1, <1>2
<1>5. FieldsOf(u) \subseteq FieldsOf(s) \cup FieldsOf(t)
  <2> SUFFICES ASSUME NEW i \in 1..Len(u) PROVE u[i].field \in FieldsOf(s) \cup FieldsOf(t)
    BY DEF FieldsOf
  <2>1. CASE i \in 1..Len(s)  BY <1>1, <2>1 DEF FieldsOf
  <2>2. CASE i \notin 1..Len(s)
    <3>1. i - Len(s) \in 1..Len(t) /\ u[i] = t[i - Len(s)]  BY <1>1, <1>3, <2>2
    <3> QED  BY <3>1 DEF FieldsOf
  <2> QED  BY <2>1, <2>2
<1>6. FieldsOf(s) \cup FieldsOf(t) \subseteq FieldsOf(u)
  <2>1. \A i \in 1..Len(s) : i \in 1..Len(u) /\ u[i].field = s[i].field  BY <1>1, <1>2
  <2>2. \A i \in 1..Len(t) : Len(s) + i \in 1..Len(u) /\ u[Len(s) + i].field = t[i].field
    BY <1>1, <1>4
  <2>3. FieldsOf(s) \subseteq FieldsOf(u)  BY <2>1 DEF FieldsOf
  <2>4. FieldsOf(t) \subseteq FieldsOf(u)  BY <2>2 DEF FieldsOf
  <2> QED  BY <2>3, <2>4
<1> QED  BY <1>1, <1>5, <1>6 DEF u

\* A field more.
LEMMA FieldAdded ==
  ASSUME NEW c \in Seq(Shifts), NEW field \in Names
  PROVE  /\ c \o Uint8(field) \in Seq(Shifts) /\ Len(c \o Uint8(field)) = Len(c) + 1
         /\ FieldsOf(c \o Uint8(field)) = FieldsOf(c) \cup {field}
         /\ c \o Uint16(field) \in Seq(Shifts) /\ Len(c \o Uint16(field)) = Len(c) + 2
         /\ FieldsOf(c \o Uint16(field)) = FieldsOf(c) \cup {field}
         /\ c \o Int16(field) \in Seq(Shifts) /\ Len(c \o Int16(field)) = Len(c) + 2
         /\ FieldsOf(c \o Int16(field)) = FieldsOf(c) \cup {field}
<1>1. ASSUME NEW t, NEW n, t \in Seq(Shifts) /\ Len(t) = n /\ FieldsOf(t) = {field}
      PROVE  /\ c \o t \in Seq(Shifts) /\ Len(c \o t) = Len(c) + n
             /\ FieldsOf(c \o t) = FieldsOf(c) \cup {field}
  <2>1. /\ c \o t \in Seq(Shifts) /\ Len(c \o t) = Len(c) + Len(t)
        /\ FieldsOf(c \o t) = FieldsOf(c) \cup FieldsOf(t)
    BY <1>1, JoinedCases
  <2> QED  BY <1>1, <2>1
<1>2. Uint8(field) \in Seq(Shifts) /\ Len(Uint8(field)) = 1 /\ FieldsOf(Uint8(field)) = {field}
  BY CasesOf
<1>3. Uint16(field) \in Seq(Shifts) /\ Len(Uint16(field)) = 2 /\ FieldsOf(Uint16(field)) = {field}
  BY CasesOf
<1>4. Int16(field) \in Seq(Shifts) /\ Len(Int16(field)) = 2 /\ FieldsOf(Int16(field)) = {field}
  BY CasesOf
<1>5. /\ c \o Uint8(field) \in Seq(Shifts) /\ Len(c \o Uint8(field)) = Len(c) + 1
      /\ FieldsOf(c \o Uint8(field)) = FieldsOf(c) \cup {field}
  BY <1>1, <1>2
<1>6. /\ c \o Uint16(field) \in Seq(Shifts) /\ Len(c \o Uint16(field)) = Len(c) + 2
      /\ FieldsOf(c \o Uint16(field)) = FieldsOf(c) \cup {field}
  BY <1>1, <1>3
<1>7. /\ c \o Int16(field) \in Seq(Shifts) /\ Len(c \o Int16(field)) = Len(c) + 2
      /\ FieldsOf(c \o Int16(field)) = FieldsOf(c) \cup {field}
  BY <1>1, <1>4
<1> QED  BY <1>5, <1>6, <1>7

\* The switch of receive_telemetry_data has 30 data cases, that of get_log 23.
LEMMA TeleCasesAre ==
  /\ TeleCases \in Seq(Shifts) /\ Len(TeleCases) = 30
  /\ FieldsOf(TeleCases) =
       {"current_time", "current_mode", "bat_volt", "ae0", "ae1", "ae2", "ae3",
        "controlgain_yaw", "controlgain_p1", "controlgain_p2", "dmp_raw_mode",
        "key_lift", "key_roll", "key_pitch", "key_yaw"}
<1> DEFINE c1 == Int32("current_time")
           c2 == c1 \o Uint8("current_mode")
           c3 == c2 \o Uint16("bat_volt")
           c4 == c3 \o Int16("ae0")
           c5 == c4 \o Int16("ae1")
           c6 == c5 \o Int16("ae2")
           c7 == c6 \o Int16("ae3")
           c8 == c7 \o Int16("controlgain_yaw")
           c9 == c8 \o Int16("controlgain_p1")
           c10 == c9 \o Int16("controlgain_p2")
           c11 == c10 \o Uint8("dmp_raw_mode")
           c12 == c11 \o Int16("key_lift")
           c13 == c12 \o Int16("key_roll")
           c14 == c13 \o Int16("key_pitch")
           c15 == c14 \o Int16("key_yaw")
<1>1. c1 \in Seq(Shifts) /\ Len(c1) = 4 /\ FieldsOf(c1) = {"current_time"}
  BY CasesOf DEF Names
<1> HIDE DEF c1
<1>2. c2 \in Seq(Shifts) /\ Len(c2) = Len(c1) + 1
      /\ FieldsOf(c2) = FieldsOf(c1) \cup {"current_mode"}
  BY <1>1, FieldAdded DEF Names
<1> HIDE DEF c2
<1>3. c3 \in Seq(Shifts) /\ Len(c3) = Len(c2) + 2 /\ FieldsOf(c3) = FieldsOf(c2) \cup {"bat_volt"}
  BY <1>2, FieldAdded DEF Names
<1> HIDE DEF c3
<1>4. c4 \in Seq(Shifts) /\ Len(c4) = Len(c3) + 2 /\ FieldsOf(c4) = FieldsOf(c3) \cup {"ae0"}
  BY <1>3, FieldAdded DEF Names
<1> HIDE DEF c4
<1>5. c5 \in Seq(Shifts) /\ Len(c5) = Len(c4) + 2 /\ FieldsOf(c5) = FieldsOf(c4) \cup {"ae1"}
  BY <1>4, FieldAdded DEF Names
<1> HIDE DEF c5
<1>6. c6 \in Seq(Shifts) /\ Len(c6) = Len(c5) + 2 /\ FieldsOf(c6) = FieldsOf(c5) \cup {"ae2"}
  BY <1>5, FieldAdded DEF Names
<1> HIDE DEF c6
<1>7. c7 \in Seq(Shifts) /\ Len(c7) = Len(c6) + 2 /\ FieldsOf(c7) = FieldsOf(c6) \cup {"ae3"}
  BY <1>6, FieldAdded DEF Names
<1> HIDE DEF c7
<1>8. c8 \in Seq(Shifts) /\ Len(c8) = Len(c7) + 2
      /\ FieldsOf(c8) = FieldsOf(c7) \cup {"controlgain_yaw"}
  BY <1>7, FieldAdded DEF Names
<1> HIDE DEF c8
<1>9. c9 \in Seq(Shifts) /\ Len(c9) = Len(c8) + 2
      /\ FieldsOf(c9) = FieldsOf(c8) \cup {"controlgain_p1"}
  BY <1>8, FieldAdded DEF Names
<1> HIDE DEF c9
<1>10. c10 \in Seq(Shifts) /\ Len(c10) = Len(c9) + 2
      /\ FieldsOf(c10) = FieldsOf(c9) \cup {"controlgain_p2"}
  BY <1>9, FieldAdded DEF Names
<1> HIDE DEF c10
<1>11. c11 \in Seq(Shifts) /\ Len(c11) = Len(c10) + 1
      /\ FieldsOf(c11) = FieldsOf(c10) \cup {"dmp_raw_mode"}
  BY <1>10, FieldAdded DEF Names
<1> HIDE DEF c11
<1>12. c12 \in Seq(Shifts) /\ Len(c12) = Len(c11) + 2
      /\ FieldsOf(c12) = FieldsOf(c11) \cup {"key_lift"}
  BY <1>11, FieldAdded DEF Names
<1> HIDE DEF c12
<1>13. c13 \in Seq(Shifts) /\ Len(c13) = Len(c12) + 2
      /\ FieldsOf(c13) = FieldsOf(c12) \cup {"key_roll"}
  BY <1>12, FieldAdded DEF Names
<1> HIDE DEF c13
<1>14. c14 \in Seq(Shifts) /\ Len(c14) = Len(c13) + 2
      /\ FieldsOf(c14) = FieldsOf(c13) \cup {"key_pitch"}
  BY <1>13, FieldAdded DEF Names
<1> HIDE DEF c14
<1>15. c15 \in Seq(Shifts) /\ Len(c15) = Len(c14) + 2
      /\ FieldsOf(c15) = FieldsOf(c14) \cup {"key_yaw"}
  BY <1>14, FieldAdded DEF Names
<1>16. TeleCases = c15
  BY DEF TeleCases, c1, c2, c3, c4, c5, c6, c7, c8, c9, c10, c11, c12, c13, c14
<1> HIDE DEF c15
<1> QED  BY <1>1, <1>2, <1>3, <1>4, <1>5, <1>6, <1>7, <1>8, <1>9, <1>10,
            <1>11, <1>12, <1>13, <1>14, <1>15, <1>16

\* Likewise get_log.
LEMMA LogCasesAre ==
  /\ LogCases \in Seq(Shifts) /\ Len(LogCases) = 23
  /\ FieldsOf(LogCases) =
       {"current_time", "current_mode", "sp", "sq", "sr", "sax", "say", "saz",
        "phi", "theta", "psi"}
<1> DEFINE c1 == Int32("current_time")
           c2 == c1 \o Uint8("current_mode")
           c3 == c2 \o Int16("sp")
           c4 == c3 \o Int16("sq")
           c5 == c4 \o Int16("sr")
           c6 == c5 \o Int16("sax")
           c7 == c6 \o Int16("say")
           c8 == c7 \o Int16("saz")
           c9 == c8 \o Int16("phi")
           c10 == c9 \o Int16("theta")
           c11 == c10 \o Int16("psi")
<1>1. c1 \in Seq(Shifts) /\ Len(c1) = 4 /\ FieldsOf(c1) = {"current_time"}
  BY CasesOf DEF Names
<1> HIDE DEF c1
<1>2. c2 \in Seq(Shifts) /\ Len(c2) = Len(c1) + 1
      /\ FieldsOf(c2) = FieldsOf(c1) \cup {"current_mode"}
  BY <1>1, FieldAdded DEF Names
<1> HIDE DEF c2
<1>3. c3 \in Seq(Shifts) /\ Len(c3) = Len(c2) + 2 /\ FieldsOf(c3) = FieldsOf(c2) \cup {"sp"}
  BY <1>2, FieldAdded DEF Names
<1> HIDE DEF c3
<1>4. c4 \in Seq(Shifts) /\ Len(c4) = Len(c3) + 2 /\ FieldsOf(c4) = FieldsOf(c3) \cup {"sq"}
  BY <1>3, FieldAdded DEF Names
<1> HIDE DEF c4
<1>5. c5 \in Seq(Shifts) /\ Len(c5) = Len(c4) + 2 /\ FieldsOf(c5) = FieldsOf(c4) \cup {"sr"}
  BY <1>4, FieldAdded DEF Names
<1> HIDE DEF c5
<1>6. c6 \in Seq(Shifts) /\ Len(c6) = Len(c5) + 2 /\ FieldsOf(c6) = FieldsOf(c5) \cup {"sax"}
  BY <1>5, FieldAdded DEF Names
<1> HIDE DEF c6
<1>7. c7 \in Seq(Shifts) /\ Len(c7) = Len(c6) + 2 /\ FieldsOf(c7) = FieldsOf(c6) \cup {"say"}
  BY <1>6, FieldAdded DEF Names
<1> HIDE DEF c7
<1>8. c8 \in Seq(Shifts) /\ Len(c8) = Len(c7) + 2 /\ FieldsOf(c8) = FieldsOf(c7) \cup {"saz"}
  BY <1>7, FieldAdded DEF Names
<1> HIDE DEF c8
<1>9. c9 \in Seq(Shifts) /\ Len(c9) = Len(c8) + 2 /\ FieldsOf(c9) = FieldsOf(c8) \cup {"phi"}
  BY <1>8, FieldAdded DEF Names
<1> HIDE DEF c9
<1>10. c10 \in Seq(Shifts) /\ Len(c10) = Len(c9) + 2
      /\ FieldsOf(c10) = FieldsOf(c9) \cup {"theta"}
  BY <1>9, FieldAdded DEF Names
<1> HIDE DEF c10
<1>11. c11 \in Seq(Shifts) /\ Len(c11) = Len(c10) + 2
      /\ FieldsOf(c11) = FieldsOf(c10) \cup {"psi"}
  BY <1>10, FieldAdded DEF Names
<1>12. LogCases = c11
  BY DEF LogCases, c1, c2, c3, c4, c5, c6, c7, c8, c9, c10
<1> HIDE DEF c11
<1> QED  BY <1>1, <1>2, <1>3, <1>4, <1>5, <1>6, <1>7, <1>8, <1>9, <1>10, <1>11, <1>12

\* What uart_put and its like send of a number.
LEMMA SplitBytes ==
  ASSUME NEW value \in Int
  PROVE  /\ uart_put(value) \in Seq(Byte) /\ Len(uart_put(value)) = 1
         /\ uart_put_16bit(value) \in Seq(Byte) /\ Len(uart_put_16bit(value)) = 2
         /\ uart_put_32bit(value) \in Seq(Byte) /\ Len(uart_put_32bit(value)) = 4
<1>1. \A number \in Int : number % 256 \in Byte
  BY DEF Byte
<1>2. value \div 256 \in Int /\ value \div 65536 \in Int /\ value \div 16777216 \in Int
  OBVIOUS
<1> HIDE DEF Byte
<1> QED  BY <1>1, <1>2 DEF uart_put, uart_put_16bit, uart_put_32bit

\* A number more.
LEMMA JoinedBytes ==
  ASSUME NEW s \in Seq(Byte), NEW value \in Int
  PROVE  /\ s \o uart_put(value) \in Seq(Byte) /\ Len(s \o uart_put(value)) = Len(s) + 1
         /\ s \o uart_put_16bit(value) \in Seq(Byte)
         /\ Len(s \o uart_put_16bit(value)) = Len(s) + 2
<1>1. ASSUME NEW t \in Seq(Byte) PROVE s \o t \in Seq(Byte) /\ Len(s \o t) = Len(s) + Len(t)
  BY Joined
<1> QED  BY <1>1, SplitBytes

\* A telemetry record is sent as 30 bytes, one for each case, a log record as 23.
LEMMA TeleDataIs ==
  ASSUME NEW r \in [FieldsOf(TeleCases) -> Int]
  PROVE  TeleData(r) \in Seq(Byte) /\ Len(TeleData(r)) = 30
<1>1. /\ r.current_time \in Int /\ r.current_mode \in Int /\ r.bat_volt \in Int
      /\ r.ae0 \in Int /\ r.ae1 \in Int /\ r.ae2 \in Int /\ r.ae3 \in Int
      /\ r.controlgain_yaw \in Int /\ r.controlgain_p1 \in Int /\ r.controlgain_p2 \in Int
      /\ r.dmp_raw_mode \in Int
      /\ r.key_lift \in Int /\ r.key_roll \in Int /\ r.key_pitch \in Int /\ r.key_yaw \in Int
  BY TeleCasesAre
<1> DEFINE d1 == uart_put_32bit(r.current_time)
           d2 == d1 \o uart_put(r.current_mode)
           d3 == d2 \o uart_put_16bit(r.bat_volt)
           d4 == d3 \o uart_put_16bit(r.ae0)
           d5 == d4 \o uart_put_16bit(r.ae1)
           d6 == d5 \o uart_put_16bit(r.ae2)
           d7 == d6 \o uart_put_16bit(r.ae3)
           d8 == d7 \o uart_put_16bit(r.controlgain_yaw)
           d9 == d8 \o uart_put_16bit(r.controlgain_p1)
           d10 == d9 \o uart_put_16bit(r.controlgain_p2)
           d11 == d10 \o uart_put(r.dmp_raw_mode)
           d12 == d11 \o uart_put_16bit(r.key_lift)
           d13 == d12 \o uart_put_16bit(r.key_roll)
           d14 == d13 \o uart_put_16bit(r.key_pitch)
           d15 == d14 \o uart_put_16bit(r.key_yaw)
<1>2. d1 \in Seq(Byte) /\ Len(d1) = 4  BY <1>1, SplitBytes
<1> HIDE DEF d1
<1>3. d2 \in Seq(Byte) /\ Len(d2) = Len(d1) + 1  BY <1>1, <1>2, JoinedBytes
<1> HIDE DEF d2
<1>4. d3 \in Seq(Byte) /\ Len(d3) = Len(d2) + 2  BY <1>1, <1>3, JoinedBytes
<1> HIDE DEF d3
<1>5. d4 \in Seq(Byte) /\ Len(d4) = Len(d3) + 2  BY <1>1, <1>4, JoinedBytes
<1> HIDE DEF d4
<1>6. d5 \in Seq(Byte) /\ Len(d5) = Len(d4) + 2  BY <1>1, <1>5, JoinedBytes
<1> HIDE DEF d5
<1>7. d6 \in Seq(Byte) /\ Len(d6) = Len(d5) + 2  BY <1>1, <1>6, JoinedBytes
<1> HIDE DEF d6
<1>8. d7 \in Seq(Byte) /\ Len(d7) = Len(d6) + 2  BY <1>1, <1>7, JoinedBytes
<1> HIDE DEF d7
<1>9. d8 \in Seq(Byte) /\ Len(d8) = Len(d7) + 2  BY <1>1, <1>8, JoinedBytes
<1> HIDE DEF d8
<1>10. d9 \in Seq(Byte) /\ Len(d9) = Len(d8) + 2  BY <1>1, <1>9, JoinedBytes
<1> HIDE DEF d9
<1>11. d10 \in Seq(Byte) /\ Len(d10) = Len(d9) + 2  BY <1>1, <1>10, JoinedBytes
<1> HIDE DEF d10
<1>12. d11 \in Seq(Byte) /\ Len(d11) = Len(d10) + 1  BY <1>1, <1>11, JoinedBytes
<1> HIDE DEF d11
<1>13. d12 \in Seq(Byte) /\ Len(d12) = Len(d11) + 2  BY <1>1, <1>12, JoinedBytes
<1> HIDE DEF d12
<1>14. d13 \in Seq(Byte) /\ Len(d13) = Len(d12) + 2  BY <1>1, <1>13, JoinedBytes
<1> HIDE DEF d13
<1>15. d14 \in Seq(Byte) /\ Len(d14) = Len(d13) + 2  BY <1>1, <1>14, JoinedBytes
<1> HIDE DEF d14
<1>16. d15 \in Seq(Byte) /\ Len(d15) = Len(d14) + 2  BY <1>1, <1>15, JoinedBytes
<1>17. TeleData(r) = d15
  BY DEF TeleData, d1, d2, d3, d4, d5, d6, d7, d8, d9, d10, d11, d12, d13, d14
<1> HIDE DEF d15
<1> QED  BY <1>2, <1>3, <1>4, <1>5, <1>6, <1>7, <1>8, <1>9, <1>10, <1>11,
            <1>12, <1>13, <1>14, <1>15, <1>16, <1>17

\* Likewise a log record.
LEMMA LogDataIs ==
  ASSUME NEW r \in [FieldsOf(LogCases) -> Int]
  PROVE  LogData(r) \in Seq(Byte) /\ Len(LogData(r)) = 23
<1>1. /\ r.current_time \in Int /\ r.current_mode \in Int
      /\ r.sp \in Int /\ r.sq \in Int /\ r.sr \in Int
      /\ r.sax \in Int /\ r.say \in Int /\ r.saz \in Int
      /\ r.phi \in Int /\ r.theta \in Int /\ r.psi \in Int
  BY LogCasesAre
<1> DEFINE d1 == uart_put_32bit(r.current_time)
           d2 == d1 \o uart_put(r.current_mode)
           d3 == d2 \o uart_put_16bit(r.sp)
           d4 == d3 \o uart_put_16bit(r.sq)
           d5 == d4 \o uart_put_16bit(r.sr)
           d6 == d5 \o uart_put_16bit(r.sax)
           d7 == d6 \o uart_put_16bit(r.say)
           d8 == d7 \o uart_put_16bit(r.saz)
           d9 == d8 \o uart_put_16bit(r.phi)
           d10 == d9 \o uart_put_16bit(r.theta)
           d11 == d10 \o uart_put_16bit(r.psi)
<1>2. d1 \in Seq(Byte) /\ Len(d1) = 4  BY <1>1, SplitBytes
<1> HIDE DEF d1
<1>3. d2 \in Seq(Byte) /\ Len(d2) = Len(d1) + 1  BY <1>1, <1>2, JoinedBytes
<1> HIDE DEF d2
<1>4. d3 \in Seq(Byte) /\ Len(d3) = Len(d2) + 2  BY <1>1, <1>3, JoinedBytes
<1> HIDE DEF d3
<1>5. d4 \in Seq(Byte) /\ Len(d4) = Len(d3) + 2  BY <1>1, <1>4, JoinedBytes
<1> HIDE DEF d4
<1>6. d5 \in Seq(Byte) /\ Len(d5) = Len(d4) + 2  BY <1>1, <1>5, JoinedBytes
<1> HIDE DEF d5
<1>7. d6 \in Seq(Byte) /\ Len(d6) = Len(d5) + 2  BY <1>1, <1>6, JoinedBytes
<1> HIDE DEF d6
<1>8. d7 \in Seq(Byte) /\ Len(d7) = Len(d6) + 2  BY <1>1, <1>7, JoinedBytes
<1> HIDE DEF d7
<1>9. d8 \in Seq(Byte) /\ Len(d8) = Len(d7) + 2  BY <1>1, <1>8, JoinedBytes
<1> HIDE DEF d8
<1>10. d9 \in Seq(Byte) /\ Len(d9) = Len(d8) + 2  BY <1>1, <1>9, JoinedBytes
<1> HIDE DEF d9
<1>11. d10 \in Seq(Byte) /\ Len(d10) = Len(d9) + 2  BY <1>1, <1>10, JoinedBytes
<1> HIDE DEF d10
<1>12. d11 \in Seq(Byte) /\ Len(d11) = Len(d10) + 2  BY <1>1, <1>11, JoinedBytes
<1>13. LogData(r) = d11
  BY DEF LogData, d1, d2, d3, d4, d5, d6, d7, d8, d9, d10
<1> HIDE DEF d11
<1> QED  BY <1>2, <1>3, <1>4, <1>5, <1>6, <1>7, <1>8, <1>9, <1>10, <1>11, <1>12, <1>13

\* Joined, with a name for the whole.
LEMMA Glued ==
  ASSUME NEW s \in Seq(Byte), NEW t \in Seq(Byte), NEW u, u = s \o t
  PROVE  /\ u \in Seq(Byte) /\ Len(u) = Len(s) + Len(t)
         /\ \A i \in 1..Len(s) : u[i] = s[i]
         /\ \A i \in 1..Len(t) : u[Len(s) + i] = t[i]
  BY Joined

\* The bytes of the three messages.
LEMMA AnnounceBytes ==
  /\ Packet(LOG, LOG_START) \in Seq(Byte) /\ Len(Packet(LOG, LOG_START)) = 5
  /\ Packet(LOG, LOG_START)[1] = START_BYTE /\ Packet(LOG, LOG_START)[2] = LOG
  /\ Packet(LOG, LOG_START)[3] = LOG_START
  /\ Packet(LOG, LOG_START)[4] = Crc(LOG, LOG_START)
  /\ Packet(LOG, LOG_START)[5] = STOP_BYTE
<1>1. Crc(LOG, LOG_START) \in Byte  BY CheckAssumption
<1>2. START_BYTE \in Byte /\ LOG \in Byte /\ LOG_START \in Byte /\ STOP_BYTE \in Byte
  BY DEF START_BYTE, LOG, LOG_START, STOP_BYTE, Byte
<1> QED  BY <1>1, <1>2 DEF Packet

\* The packet, the start, the data, and the byte that closes the frame.
LEMMA TeleBytes ==
  ASSUME NEW record \in Telemetry, NEW leftover \in Leftovers
  PROVE  /\ TelemetryBytes(record, leftover) \in Seq(Byte)
         /\ Len(TelemetryBytes(record, leftover)) = 37
         /\ TelemetryBytes(record, leftover)[1] = START_BYTE
         /\ TelemetryBytes(record, leftover)[2] = TELEMETRY_DATA
         /\ TelemetryBytes(record, leftover)[3] = leftover
         /\ TelemetryBytes(record, leftover)[4] = Crc(TELEMETRY_DATA, leftover)
         /\ TelemetryBytes(record, leftover)[5] = STOP_BYTE
         /\ TelemetryBytes(record, leftover)[6] = TELE_START
         /\ \A i \in 7..36 : TelemetryBytes(record, leftover)[i] = TeleData(record)[i - 6]
         /\ TelemetryBytes(record, leftover)[37] = TELE_STOP
<1> DEFINE head  == Packet(TELEMETRY_DATA, leftover)
           first == <<TELE_START>>
           start == head \o first
           data  == TeleData(record)
           body  == start \o data
           last  == <<TELE_STOP>>
           whole == body \o last
<1>1. TelemetryBytes(record, leftover) = whole
  BY DEF TelemetryBytes
<1>2. /\ head \in Seq(Byte) /\ Len(head) = 5
      /\ head[1] = START_BYTE /\ head[2] = TELEMETRY_DATA /\ head[3] = leftover
      /\ head[4] = Crc(TELEMETRY_DATA, leftover) /\ head[5] = STOP_BYTE
  <2>1. Crc(TELEMETRY_DATA, leftover) \in Byte /\ leftover \in Byte  BY CheckAssumption
  <2>2. START_BYTE \in Byte /\ TELEMETRY_DATA \in Byte /\ STOP_BYTE \in Byte
    BY DEF START_BYTE, TELEMETRY_DATA, STOP_BYTE, Byte
  <2> QED  BY <2>1, <2>2 DEF Packet
<1>3. /\ first \in Seq(Byte) /\ Len(first) = 1 /\ first[1] = TELE_START
      /\ last \in Seq(Byte) /\ Len(last) = 1 /\ last[1] = TELE_STOP
  BY DEF TELE_START, TELE_STOP, Byte
<1>4. data \in Seq(Byte) /\ Len(data) = 30
  BY TeleDataIs, RecordsAssumption
<1> HIDE DEF head, first, data, last
<1>5. /\ start \in Seq(Byte) /\ Len(start) = 6
      /\ \A i \in 1..5 : start[i] = head[i]
      /\ start[6] = TELE_START
  <2>1. start = head \o first  OBVIOUS
  <2>2. head \in Seq(Byte) /\ first \in Seq(Byte)  BY <1>2, <1>3
  <2> HIDE DEF start
  <2>3. /\ start \in Seq(Byte) /\ Len(start) = Len(head) + Len(first)
        /\ \A i \in 1..Len(head) : start[i] = head[i]
        /\ \A i \in 1..Len(first) : start[Len(head) + i] = first[i]
    BY <2>1, <2>2, Glued
  <2> QED  BY <1>2, <1>3, <2>3
<1> HIDE DEF start
<1>6. /\ body \in Seq(Byte) /\ Len(body) = 36
      /\ \A i \in 1..6 : body[i] = start[i]
      /\ \A i \in 1..30 : body[6 + i] = data[i]
  <2>1. body = start \o data  OBVIOUS
  <2>2. start \in Seq(Byte) /\ data \in Seq(Byte)  BY <1>4, <1>5
  <2> HIDE DEF body
  <2>3. /\ body \in Seq(Byte) /\ Len(body) = Len(start) + Len(data)
        /\ \A i \in 1..Len(start) : body[i] = start[i]
        /\ \A i \in 1..Len(data) : body[Len(start) + i] = data[i]
    BY <2>1, <2>2, Glued
  <2> QED  BY <1>4, <1>5, <2>3
<1> HIDE DEF body
<1>7. /\ whole \in Seq(Byte) /\ Len(whole) = 37
      /\ \A i \in 1..36 : whole[i] = body[i]
      /\ whole[37] = TELE_STOP
  <2>1. whole = body \o last  OBVIOUS
  <2>2. body \in Seq(Byte) /\ last \in Seq(Byte)  BY <1>3, <1>6
  <2> HIDE DEF whole
  <2>3. /\ whole \in Seq(Byte) /\ Len(whole) = Len(body) + Len(last)
        /\ \A i \in 1..Len(body) : whole[i] = body[i]
        /\ \A i \in 1..Len(last) : whole[Len(body) + i] = last[i]
    BY <2>1, <2>2, Glued
  <2> QED  BY <1>3, <1>6, <2>3
<1> HIDE DEF whole
<1>8. \A i \in 7..36 : whole[i] = data[i - 6]
  <2> SUFFICES ASSUME NEW i \in 7..36 PROVE whole[i] = data[i - 6]
    OBVIOUS
  <2>1. i - 6 \in 1..30 /\ 6 + (i - 6) = i /\ i \in 1..36  OBVIOUS
  <2>2. body[6 + (i - 6)] = data[i - 6]  BY <1>6, <2>1
  <2> QED  BY <1>7, <2>1, <2>2
<1> QED  BY <1>1, <1>2, <1>5, <1>6, <1>7, <1>8 DEF data

\* The start, the data, and the byte that closes the line.
LEMMA LineBytesAre ==
  ASSUME NEW record \in Lines
  PROVE  /\ LineBytes(record) \in Seq(Byte) /\ Len(LineBytes(record)) = 25
         /\ LineBytes(record)[1] = LOG_LINE_START
         /\ \A i \in 2..24 : LineBytes(record)[i] = LogData(record)[i - 1]
         /\ LineBytes(record)[25] = LOG_LINE_END
<1> DEFINE first == <<LOG_LINE_START>>
           data  == LogData(record)
           body  == first \o data
           last  == <<LOG_LINE_END>>
           whole == body \o last
<1>1. LineBytes(record) = whole
  BY DEF LineBytes
<1>2. /\ first \in Seq(Byte) /\ Len(first) = 1 /\ first[1] = LOG_LINE_START
      /\ last \in Seq(Byte) /\ Len(last) = 1 /\ last[1] = LOG_LINE_END
  BY DEF LOG_LINE_START, LOG_LINE_END, Byte
<1>3. data \in Seq(Byte) /\ Len(data) = 23
  BY LogDataIs, RecordsAssumption
<1> HIDE DEF first, data, last
<1>4. /\ body \in Seq(Byte) /\ Len(body) = 24
      /\ body[1] = LOG_LINE_START
      /\ \A i \in 1..23 : body[1 + i] = data[i]
  <2>1. body = first \o data  OBVIOUS
  <2>2. first \in Seq(Byte) /\ data \in Seq(Byte)  BY <1>2, <1>3
  <2> HIDE DEF body
  <2>3. /\ body \in Seq(Byte) /\ Len(body) = Len(first) + Len(data)
        /\ \A i \in 1..Len(first) : body[i] = first[i]
        /\ \A i \in 1..Len(data) : body[Len(first) + i] = data[i]
    BY <2>1, <2>2, Glued
  <2> QED  BY <1>2, <1>3, <2>3
<1> HIDE DEF body
<1>5. /\ whole \in Seq(Byte) /\ Len(whole) = 25
      /\ \A i \in 1..24 : whole[i] = body[i]
      /\ whole[25] = LOG_LINE_END
  <2>1. whole = body \o last  OBVIOUS
  <2>2. body \in Seq(Byte) /\ last \in Seq(Byte)  BY <1>2, <1>4
  <2> HIDE DEF whole
  <2>3. /\ whole \in Seq(Byte) /\ Len(whole) = Len(body) + Len(last)
        /\ \A i \in 1..Len(body) : whole[i] = body[i]
        /\ \A i \in 1..Len(last) : whole[Len(body) + i] = last[i]
    BY <2>1, <2>2, Glued
  <2> QED  BY <1>2, <1>4, <2>3
<1> HIDE DEF whole
<1>6. \A i \in 2..24 : whole[i] = data[i - 1]
  <2> SUFFICES ASSUME NEW i \in 2..24 PROVE whole[i] = data[i - 1]
    OBVIOUS
  <2>1. i - 1 \in 1..23 /\ 1 + (i - 1) = i /\ i \in 1..24  OBVIOUS
  <2>2. body[1 + (i - 1)] = data[i - 1]  BY <1>4, <2>1
  <2> QED  BY <1>5, <2>1, <2>2
<1> QED  BY <1>1, <1>4, <1>5, <1>6 DEF data


-----------------------------------------------------------------------------
(***************************************************************************)
(* What the three automata do with a byte.                                 *)
(***************************************************************************)

\* A stored byte leaves a record of numbers.
LEMMA Stored ==
  ASSUME NEW F, NEW data \in [F -> Int], NEW case \in Shifts, case.field \in F,
         NEW byte \in Byte
  PROVE  Store(data, case, byte) \in [F -> Int]
<1>1. case.weight \in Int
  BY DEF Shifts
<1>2. byte \in Int /\ byte - 256 \in Int
  BY DEF Byte
<1>3. \A x, y, z \in Int : x + y * z \in Int
  OBVIOUS
<1>4. data[case.field] \in Int
  OBVIOUS
<1> DEFINE digit == IF case.signed /\ byte >= 128 THEN byte - 256 ELSE byte
<1>5. digit \in Int
  <2>1. digit = byte - 256 \/ digit = byte  BY Zenon
  <2> HIDE DEF digit
  <2> QED  BY <1>2, <2>1
<1> HIDE DEF digit
<1>6. data[case.field] + case.weight * digit \in Int
  BY <1>1, <1>3, <1>4, <1>5
<1>7. Store(data, case, byte)
        = [data EXCEPT ![case.field] = data[case.field] + case.weight * digit]
  BY DEF Store, digit
<1> QED  BY <1>6, <1>7

\* The receiver's part of TypeOK.
Records == [FieldsOf(TeleCases) -> Int] \cup [FieldsOf(LogCases) -> Int]

ReceiverTypes ==
  /\ rcv_byte_count \in 0..4 /\ p \in [{"command", "value", "crc"} -> Byte]
  /\ telemetry_rcv_flag \in {0, 1} /\ count \in 0..31
  /\ tele_data \in [FieldsOf(TeleCases) -> Int]
  /\ count > 0 => telemetry_rcv_flag = 1
  /\ log_start_flag \in {0, 1} /\ log_byte_count \in 0..24
  /\ log_line \in [FieldsOf(LogCases) -> Int]
  /\ output \in Seq(Records)

\* Zeroes are numbers.
LEMMA ZeroedIs ==
  ASSUME NEW cases
  PROVE  Zeroed(cases) \in [FieldsOf(cases) -> Int]
  BY DEF Zeroed

\* Every case of the two switches has a field of its record.
LEMMA CaseFields ==
  /\ \A i \in 1..30 : TeleCases[i] \in Shifts /\ TeleCases[i].field \in FieldsOf(TeleCases)
  /\ \A i \in 1..23 : LogCases[i] \in Shifts /\ LogCases[i].field \in FieldsOf(LogCases)
<1>1. /\ TeleCases \in Seq(Shifts) /\ Len(TeleCases) = 30
      /\ LogCases \in Seq(Shifts) /\ Len(LogCases) = 23
  BY TeleCasesAre, LogCasesAre
<1>2. /\ \A i \in 1..30 : TeleCases[i] \in Shifts
      /\ \A i \in 1..23 : LogCases[i] \in Shifts
  <2>1. \A s \in Seq(Shifts) : \A i \in 1..Len(s) : s[i] \in Shifts
    OBVIOUS
  <2> QED  BY <1>1, <2>1
<1> QED  BY <1>1, <1>2 DEF FieldsOf

\* An output shows.
LEMMA AppendDiffers ==
  ASSUME NEW S, NEW s \in Seq(S), NEW e
  PROVE  Append(s, e) # s
<1> SUFFICES ASSUME Append(s, e) = s PROVE FALSE
  OBVIOUS
<1>1. Len(Append(s, e)) = Len(s) + 1 /\ Len(s) \in Nat
  OBVIOUS
<1> QED  BY <1>1

\* get_log.
LEMMA LogStep ==
  ASSUME ReceiverTypes, log_start_flag = 1, NEW byte \in Byte, Receive(byte)
  PROVE  /\ ReceiverTypes'
         /\ UNCHANGED <<packetVars, telemetry_rcv_flag, count, log_start_flag>>
         /\ log_byte_count = 0 => log_byte_count' = IF byte = LOG_LINE_START THEN 1 ELSE 0
         /\ log_byte_count \in 1..23 => log_byte_count' = log_byte_count + 1
         /\ log_byte_count = 24 =>
              /\ log_byte_count' = 0
              /\ byte = LOG_LINE_END => output' # output
<1> USE DEF ReceiverTypes
<1>1. /\ LineStart(byte) \/ LineData(byte) \/ LineEnd(byte)
      /\ UNCHANGED <<packetVars, telemetry_rcv_flag, telemetryVars, log_start_flag>>
  BY DEF Receive, GetLog
<1>2. Len(LogCases) = 23
  BY LogCasesAre
<1>3. CASE LineStart(byte)
  <2>1. log_line' \in [FieldsOf(LogCases) -> Int]
    BY <1>3, ZeroedIs DEF LineStart, logVars
  <2> QED  BY <1>1, <1>3, <2>1 DEF LineStart, logVars, packetVars, telemetryVars
<1>4. CASE LineData(byte)
  <2>1. log_byte_count \in 1..23
    BY <1>2, <1>4 DEF LineData
  <2>2. log_line' \in [FieldsOf(LogCases) -> Int]
    BY <1>4, <2>1, CaseFields, Stored DEF LineData
  <2> QED  BY <1>1, <1>4, <2>1, <2>2 DEF LineData, packetVars, telemetryVars
<1>5. CASE LineEnd(byte)
  <2>1. log_byte_count = 24
    BY <1>2, <1>5 DEF LineEnd
  <2>2. Append(output, log_line) \in Seq(Records) /\ Append(output, log_line) # output
    BY AppendDiffers DEF Records
  <2>3. output' = Append(output, log_line) \/ (output' = output /\ byte # LOG_LINE_END)
    BY <1>5 DEF LineEnd
  <2>4. output' \in Seq(Records) /\ (byte = LOG_LINE_END => output' # output)
    BY <2>2, <2>3
  <2>5. ReceiverTypes'
    BY <1>1, <1>5, <2>4 DEF LineEnd, packetVars, telemetryVars
  <2> HIDE DEF ReceiverTypes
  <2>6. UNCHANGED <<packetVars, telemetry_rcv_flag, count, log_start_flag>>
    BY <1>1 DEF telemetryVars
  <2>7. log_byte_count' = 0
    BY <1>5 DEF LineEnd
  <2> QED  BY <2>1, <2>4, <2>5, <2>6, <2>7
<1> QED  BY <1>1, <1>3, <1>4, <1>5

\* receive_telemetry_data.
LEMMA TelemetryStep ==
  ASSUME ReceiverTypes, log_start_flag = 0, telemetry_rcv_flag = 1,
         NEW byte \in Byte, Receive(byte)
  PROVE  /\ ReceiverTypes'
         /\ UNCHANGED <<packetVars, log_start_flag, log_byte_count>>
         /\ count = 0 =>
              IF byte = TELE_START THEN count' = 1 /\ telemetry_rcv_flag' = 1
                                   ELSE count' = 0 /\ telemetry_rcv_flag' = 0
         /\ count \in 1..30 => count' = count + 1 /\ telemetry_rcv_flag' = 1
         /\ count = 31 =>
              /\ count' = 0 /\ telemetry_rcv_flag' = 0
              /\ byte = TELE_STOP => output' # output
<1> USE DEF ReceiverTypes
<1>1. /\ TelemetryStart(byte) \/ TelemetryData(byte) \/ TelemetryStop(byte)
      /\ UNCHANGED <<packetVars, log_start_flag, logVars>>
  BY DEF Receive, ReceiveTelemetry
<1>2. Len(TeleCases) = 30
  BY TeleCasesAre
<1>3. CASE TelemetryStart(byte)
  <2>1. tele_data' \in [FieldsOf(TeleCases) -> Int]
    BY <1>3, ZeroedIs DEF TelemetryStart, telemetryVars
  <2> QED  BY <1>1, <1>3, <2>1 DEF TelemetryStart, logVars, packetVars, telemetryVars
<1>4. CASE TelemetryData(byte)
  <2>1. count \in 1..30
    BY <1>2, <1>4 DEF TelemetryData
  <2>2. tele_data' \in [FieldsOf(TeleCases) -> Int]
    BY <1>4, <2>1, CaseFields, Stored DEF TelemetryData
  <2> QED  BY <1>1, <1>4, <2>1, <2>2 DEF TelemetryData, packetVars, logVars
<1>5. CASE TelemetryStop(byte)
  <2>1. count = 31
    BY <1>2, <1>5 DEF TelemetryStop
  <2>2. Append(output, tele_data) \in Seq(Records) /\ Append(output, tele_data) # output
    BY AppendDiffers DEF Records
  <2>3. output' = Append(output, tele_data) \/ (output' = output /\ byte # TELE_STOP)
    BY <1>5 DEF TelemetryStop
  <2>4. output' \in Seq(Records) /\ (byte = TELE_STOP => output' # output)
    BY <2>2, <2>3
  <2>5. ReceiverTypes'
    BY <1>1, <1>5, <2>4 DEF TelemetryStop, packetVars, logVars
  <2> HIDE DEF ReceiverTypes
  <2>6. UNCHANGED <<packetVars, log_start_flag, log_byte_count>>
    BY <1>1 DEF logVars
  <2>7. count' = 0 /\ telemetry_rcv_flag' = 0
    BY <1>5 DEF TelemetryStop
  <2> QED  BY <2>1, <2>4, <2>5, <2>6, <2>7
<1> QED  BY <1>1, <1>3, <1>4, <1>5

\* process_receive_packets: the counts, and what the packet collects.
LEMMA PacketStep ==
  ASSUME ReceiverTypes, log_start_flag = 0, telemetry_rcv_flag = 0,
         NEW byte \in Byte, Receive(byte)
  PROVE  /\ ReceiverTypes'
         /\ UNCHANGED <<count, log_byte_count>>
         /\ byte = START_BYTE =>
              /\ rcv_byte_count' = IF rcv_byte_count = 0 THEN 1 ELSE 0
              /\ UNCHANGED <<p, log_start_flag, telemetry_rcv_flag>>
         /\ byte = STOP_BYTE =>
              /\ rcv_byte_count' = 0 /\ p' = p
              /\ IF rcv_byte_count = 4 THEN ProcessPacket
                                       ELSE UNCHANGED <<log_start_flag, telemetry_rcv_flag>>
         /\ byte \notin {START_BYTE, STOP_BYTE} =>
              /\ UNCHANGED <<log_start_flag, telemetry_rcv_flag>>
              /\ rcv_byte_count' = IF rcv_byte_count \in 1..3 THEN rcv_byte_count + 1 ELSE 0
              /\ rcv_byte_count = 1 => p'.command = byte
              /\ rcv_byte_count = 2 => p'.command = p.command /\ p'.value = byte
              /\ rcv_byte_count = 3 =>
                   p'.command = p.command /\ p'.value = p.value /\ p'.crc = byte
<1> USE DEF ReceiverTypes
<1>1. ReceivePacket(byte)
  BY DEF Receive
<1>2. UNCHANGED <<count, tele_data, log_byte_count, log_line, output>>
  BY <1>1 DEF ReceivePacket, telemetryVars, logVars
<1>3. /\ rcv_byte_count' \in 0..4
      /\ telemetry_rcv_flag' \in {0, 1} /\ log_start_flag' \in {0, 1}
  BY <1>1 DEF ReceivePacket, ProcessPacket
<1>4. \A i \in 1..3 : PacketField[i] \in {"command", "value", "crc"}
  BY DEF PacketField
<1>5. p' \in [{"command", "value", "crc"} -> Byte]
  BY <1>1, <1>4 DEF ReceivePacket
<1>6. START_BYTE # STOP_BYTE
  BY DEF START_BYTE, STOP_BYTE
<1>7. ASSUME byte \notin {START_BYTE, STOP_BYTE}, rcv_byte_count \in 1..3
      PROVE  p' = [p EXCEPT ![PacketField[rcv_byte_count]] = byte]
  BY <1>1, <1>7 DEF ReceivePacket
<1>8. count = 0
  OBVIOUS
<1>9. ReceiverTypes'
  BY <1>2, <1>3, <1>5, <1>8
<1>10. byte = START_BYTE =>
         /\ rcv_byte_count' = IF rcv_byte_count = 0 THEN 1 ELSE 0
         /\ UNCHANGED <<p, log_start_flag, telemetry_rcv_flag>>
  BY <1>1, <1>6 DEF ReceivePacket
<1>11. byte = STOP_BYTE =>
         /\ rcv_byte_count' = 0 /\ p' = p
         /\ IF rcv_byte_count = 4 THEN ProcessPacket
                                  ELSE UNCHANGED <<log_start_flag, telemetry_rcv_flag>>
  BY <1>1, <1>6 DEF ReceivePacket
<1>12. byte \notin {START_BYTE, STOP_BYTE} =>
         /\ UNCHANGED <<log_start_flag, telemetry_rcv_flag>>
         /\ rcv_byte_count' = IF rcv_byte_count \in 1..3 THEN rcv_byte_count + 1 ELSE 0
  BY <1>1 DEF ReceivePacket
<1>13. byte \notin {START_BYTE, STOP_BYTE} =>
         /\ rcv_byte_count = 1 => p'.command = byte
         /\ rcv_byte_count = 2 => p'.command = p.command /\ p'.value = byte
         /\ rcv_byte_count = 3 =>
              p'.command = p.command /\ p'.value = p.value /\ p'.crc = byte
  BY <1>7 DEF PacketField
<1> QED  BY <1>2, <1>9, <1>10, <1>11, <1>12, <1>13

-----------------------------------------------------------------------------
(***************************************************************************)
(* The invariant.                                                          *)
(***************************************************************************)

\* The rest of the message is the end of what was begun.
Remaining(bytes) ==
  /\ Len(out) <= Len(bytes)
  /\ \A i \in 1..Len(out) : out[i] = bytes[Len(bytes) - Len(out) + i]

\* What is still to be sent of an undamaged message is its end.
OutInv ==
  /\ message \in Telemetry \cup Lines \cup {NoRecord}
  /\ intact =>
       /\ message \in Telemetry =>
            \E leftover \in Leftovers :
              /\ leftover \notin {START_BYTE, STOP_BYTE}
              /\ Remaining(TelemetryBytes(message, leftover))
       /\ message \in Lines => Remaining(LineBytes(message))
       /\ message = NoRecord => Remaining(Packet(LOG, LOG_START))

\* A message carries a telemetry record, a line or nothing.
LEMMA Kinds ==
  ASSUME NEW record
  PROVE  /\ record \in Telemetry => record \notin Lines /\ record # NoRecord
         /\ record \in Lines => record \notin Telemetry /\ record # NoRecord
  BY RecordsAssumption

\* Nothing is left of an earlier frame.
AtRest == rcv_byte_count = 0 /\ telemetry_rcv_flag = 0 /\ count = 0 /\ log_byte_count = 0

\* At most one of the automata is at work.
OneAtWork ==
  /\ telemetry_rcv_flag = 1 => rcv_byte_count = 0 /\ log_start_flag = 0
  /\ log_start_flag = 1 => rcv_byte_count = 0
  /\ log_byte_count > 0 => log_start_flag = 1

\* How many bytes are still to be sent.
Left == Len(out)

\* A line that get_log has open ends with the message at the latest.
LineFlushed == log_byte_count > 0 => 25 - log_byte_count <= Left

\* Likewise a telemetry frame, and a packet unless it is that of the message itself.
FrameFlushed ==
  /\ count > 0 => 32 - count <= Left
  /\ telemetry_rcv_flag = 1 /\ count = 0 => Left \in {37, 32}
  /\ rcv_byte_count > 0 => Left = 37 \/ rcv_byte_count = 37 - Left

FlushInv ==
  intact /\ Clean(message) =>
    /\ message \in Telemetry \cup Lines => LineFlushed
    /\ message \in Telemetry => FrameFlushed

\* How far the receiver is in a message that found it in step.
TelemetryInStep ==
  /\ log_start_flag = 0
  /\ Left \in {0, 37} => AtRest
  /\ Left = 0 => done
  /\ Left \in 33..36 => rcv_byte_count = 37 - Left /\ telemetry_rcv_flag = 0
  /\ Left \in 33..35 => p.command = TELEMETRY_DATA
  /\ Left = 34 => out[1] = Crc(TELEMETRY_DATA, p.value)
  /\ Left = 33 => p.crc = Crc(TELEMETRY_DATA, p.value)
  /\ Left \in 1..32 => telemetry_rcv_flag = 1 /\ count = 32 - Left

LineInStep ==
  /\ log_start_flag = 1
  /\ Left \in {0, 25} => log_byte_count = 0
  /\ Left = 0 => done
  /\ Left \in 1..24 => log_byte_count = 25 - Left

AnnounceInStep ==
  \/ log_start_flag = 1 /\ log_byte_count = 0
  \/ /\ log_start_flag = 0 /\ telemetry_rcv_flag = 0
     /\ Left \in {0, 5} => rcv_byte_count = 0
     /\ Left \in 1..4 => rcv_byte_count = 5 - Left
     /\ Left \in 1..3 => p.command = LOG

InStepInv ==
  intact /\ due =>
    /\ message \in Telemetry => TelemetryInStep
    /\ message \in Lines => LineInStep
    /\ message = NoRecord => AnnounceInStep

IInv == TypeOK /\ OutInv /\ OneAtWork /\ FlushInv /\ InStepInv

\* TypeOK in numbers.
LEMMA TypesAre ==
  /\ TypeOK <=> ReceiverTypes /\ out \in Seq(Byte) /\ faults \in 0..MaxFaults
  /\ TypeOK' <=> ReceiverTypes' /\ out' \in Seq(Byte) /\ faults' \in 0..MaxFaults
<1>1. Len(TeleCases) = 30 /\ Len(LogCases) = 23
  BY TeleCasesAre, LogCasesAre
<1>2. Len(TeleCases) + 1 = 31 /\ Len(LogCases) + 1 = 24
  BY <1>1
<1> QED  BY <1>2 DEF TypeOK, ReceiverTypes, Records

\* Any byte, in any mode.
LEMMA AnyByte ==
  ASSUME ReceiverTypes, OneAtWork, NEW byte \in Byte, Receive(byte)
  PROVE  /\ ReceiverTypes'
         /\ OneAtWork'
         /\ log_start_flag = 1 => log_start_flag' = 1
<1>1. log_start_flag \in {0, 1} /\ telemetry_rcv_flag \in {0, 1}
  BY DEF ReceiverTypes
<1>2. CASE log_start_flag = 1
  <2>1. /\ ReceiverTypes'
        /\ UNCHANGED <<packetVars, telemetry_rcv_flag, count, log_start_flag>>
    BY <1>2, LogStep
  <2> QED  BY <1>2, <2>1 DEF OneAtWork, packetVars
<1>3. CASE log_start_flag = 0 /\ telemetry_rcv_flag = 1
  <2>1. /\ ReceiverTypes'
        /\ UNCHANGED <<packetVars, log_start_flag, log_byte_count>>
    BY <1>3, TelemetryStep
  <2> QED  BY <1>3, <2>1 DEF OneAtWork, packetVars
<1>4. CASE log_start_flag = 0 /\ telemetry_rcv_flag = 0
  <2>1. ReceiverTypes' /\ log_byte_count' = log_byte_count
    BY <1>4, PacketStep
  <2>2. \/ UNCHANGED <<log_start_flag, telemetry_rcv_flag>>
        \/ rcv_byte_count' = 0 /\ ProcessPacket
    BY <1>4, PacketStep
  <2>3. ProcessPacket => ~(log_start_flag' = 1 /\ telemetry_rcv_flag' = 1)
    BY <1>4 DEF ProcessPacket, LOG, TELEMETRY_DATA
  <2>4. log_byte_count = 0
    BY <1>4 DEF OneAtWork, ReceiverTypes
  <2> QED  BY <1>4, <2>1, <2>2, <2>3, <2>4 DEF OneAtWork, ReceiverTypes
<1> QED  BY <1>1, <1>2, <1>3, <1>4

\* A byte leaves.
Advance == out # <<>> /\ out' = Tail(out)

\* The next byte of what is begun, and what remains.
LEMMA NextByte ==
  ASSUME NEW bytes \in Seq(Byte), out \in Seq(Byte), Remaining(bytes), Advance
  PROVE  /\ Len(out) \in 1..Len(bytes)
         /\ Head(out) = out[1]
         /\ Head(out) \in Byte /\ Head(out) = bytes[Len(bytes) - Len(out) + 1]
         /\ out' \in Seq(Byte) /\ Len(out') = Len(out) - 1
         /\ \A i \in 1..Len(out') : out'[i] = out[i + 1]
         /\ \A i \in 1..Len(out') : out'[i] = bytes[Len(bytes) - Len(out') + i]
<1> DEFINE rest == Tail(out)
           head == Head(out)
           n == Len(out)
           m == Len(rest)
           l == Len(bytes)
<1>1. /\ n \in Nat /\ l \in Nat /\ n # 0
      /\ head = out[1] /\ head \in Byte
      /\ rest \in Seq(Byte) /\ m = n - 1
      /\ \A i \in 1..m : rest[i] = out[i + 1]
  BY DEF Advance
<1>2. n <= l /\ \A i \in 1..n : out[i] = bytes[l - n + i]
  BY DEF Remaining
<1>3. out' = rest
  BY DEF Advance
<1> HIDE DEF rest, head, n, m, l
<1>4. n \in Nat /\ l \in Nat /\ m = n - 1 /\ n \in 1..l
  BY <1>1, <1>2
<1>5. head = bytes[l - n + 1]
  BY <1>1, <1>2, <1>4
<1>6. ASSUME NEW i \in 1..m
      PROVE  rest[i] = bytes[l - m + i]
  <2>1. i + 1 \in 1..n /\ (l - n) + (i + 1) = (l - m) + i
    BY <1>4
  <2>2. rest[i] = out[i + 1]
    BY <1>1
  <2>3. out[i + 1] = bytes[(l - n) + (i + 1)]
    BY <1>2, <2>1
  <2> QED  BY <2>1, <2>2, <2>3
<1> QED  BY <1>1, <1>3, <1>4, <1>5, <1>6 DEF head, n, m, l

\* The first byte of what is sent leaves.
LEMMA ByteLeaves ==
  ASSUME out \in Seq(Byte), Advance
  PROVE  Head(out) \in Byte /\ out' \in Seq(Byte)
<1>1. out # <<>> /\ out' = Tail(out)
  BY DEF Advance
<1>2. ASSUME NEW bytes \in Seq(Byte), bytes # <<>>
      PROVE  Head(bytes) \in Byte /\ Tail(bytes) \in Seq(Byte)
  BY <1>2
<1>3. Head(out) \in Byte /\ Tail(out) \in Seq(Byte)
  BY <1>1, <1>2
<1> QED  BY <1>1, <1>3

\* The byte that leaves next.
First == Head(out)

\* Where a byte is, by the number of bytes that are left.
LEMMA Places ==
  ASSUME NEW bytes, NEW n \in 1..37, NEW head, head = bytes[(37 - n) + 1]
  PROVE  /\ n = 37 => head = bytes[1]
         /\ n = 36 => head = bytes[2]
         /\ n = 35 => head = bytes[3]
         /\ n = 34 => head = bytes[4]
         /\ n = 33 => head = bytes[5]
         /\ n = 32 => head = bytes[6]
         /\ n = 1 => head = bytes[37]
  OBVIOUS

\* The bytes of a telemetry message, by the number that are left.
LEMMA TelemetryByte ==
  ASSUME TypeOK, message \in Telemetry, NEW leftover \in Leftovers,
         Remaining(TelemetryBytes(message, leftover)), Advance
  PROVE  /\ Left \in 1..37 /\ Left' = Left - 1
         /\ First \in Byte
         /\ Left = 37 => First = START_BYTE
         /\ Left = 36 => First = TELEMETRY_DATA
         /\ Left = 35 =>
              First = leftover /\ out'[1] = Crc(TELEMETRY_DATA, leftover)
         /\ Left = 34 =>
              First = out[1] /\ First \notin {START_BYTE, STOP_BYTE}
         /\ Left = 33 => First = STOP_BYTE
         /\ Left = 32 => First = TELE_START
         /\ Left \in 2..31 /\ Clean(message) =>
              First \notin {START_BYTE, LOG_LINE_START}
         /\ Left = 1 => First = TELE_STOP
<1> DEFINE bytes == TelemetryBytes(message, leftover)
           data  == TeleData(message)
<1>1. /\ bytes \in Seq(Byte) /\ Len(bytes) = 37
      /\ bytes[1] = START_BYTE /\ bytes[2] = TELEMETRY_DATA /\ bytes[3] = leftover
      /\ bytes[4] = Crc(TELEMETRY_DATA, leftover) /\ bytes[5] = STOP_BYTE
      /\ bytes[6] = TELE_START /\ bytes[37] = TELE_STOP
      /\ \A i \in 7..36 : bytes[i] = data[i - 6]
  BY TeleBytes
<1>2. \A i \in 7..36 : bytes[i] = data[i - 6]
  BY <1>1
<1>3. Crc(TELEMETRY_DATA, leftover) \notin {START_BYTE, STOP_BYTE}
  BY CheckAssumption
<1>4. Clean(message) => \A i \in 1..30 : data[i] \notin {START_BYTE, LOG_LINE_START}
  <2>1. message # NoRecord /\ message \notin Lines
    BY RecordsAssumption
  <2>2. Len(data) = 30
    BY TeleDataIs, RecordsAssumption
  <2> QED  BY <2>1, <2>2 DEF Clean, DataBytes
<1>5. out \in Seq(Byte)
  BY TypesAre
<1>6. Remaining(bytes)  OBVIOUS
<1> HIDE DEF bytes, data
<1>7. /\ Len(out) \in 1..37 /\ Head(out) = out[1]
      /\ Head(out) \in Byte /\ Head(out) = bytes[(37 - Len(out)) + 1]
      /\ out' \in Seq(Byte) /\ Len(out') = Len(out) - 1
      /\ \A i \in 1..Len(out') : out'[i] = out[i + 1]
      /\ \A i \in 1..Len(out') : out'[i] = bytes[(37 - Len(out')) + i]
  <2>1. bytes \in Seq(Byte)
    BY <1>1
  <2>2. /\ Len(out) \in 1..Len(bytes)
        /\ Head(out) = out[1]
        /\ Head(out) \in Byte /\ Head(out) = bytes[Len(bytes) - Len(out) + 1]
        /\ out' \in Seq(Byte) /\ Len(out') = Len(out) - 1
        /\ \A i \in 1..Len(out') : out'[i] = out[i + 1]
        /\ \A i \in 1..Len(out') : out'[i] = bytes[Len(bytes) - Len(out') + i]
    BY <1>5, <1>6, <2>1, NextByte
  <2>3. Len(bytes) = 37
    BY <1>1
  <2> QED  BY <2>2, <2>3
<1>8. Len(out) \in 1..37 /\ Head(out) = bytes[(37 - Len(out)) + 1]
  BY <1>7
<1>9. Len(out) = 35 => out'[1] = bytes[4]
  <2> SUFFICES ASSUME Len(out) = 35 PROVE out'[1] = bytes[4]
    OBVIOUS
  <2>1. 37 - Len(out') = 3 /\ 1 \in 1..Len(out')
    BY <1>7
  <2>2. out'[1] = bytes[3 + 1]
    BY <1>7, <2>1
  <2> QED  BY <2>2
<1>10. /\ Left \in 1..37 /\ First = bytes[(37 - Left) + 1] /\ First = out[1]
       /\ First \in Byte /\ Left' = Left - 1
  BY <1>7 DEF Left, First
<1>11. Left = 35 => out'[1] = bytes[4]
  BY <1>9 DEF Left
<1>12. /\ Left = 37 => First = bytes[1]
       /\ Left = 36 => First = bytes[2]
       /\ Left = 35 => First = bytes[3]
       /\ Left = 34 => First = bytes[4]
       /\ Left = 33 => First = bytes[5]
       /\ Left = 32 => First = bytes[6]
       /\ Left = 1 => First = bytes[37]
  BY <1>10, Places
<1>13. ASSUME Left \in 2..31, Clean(message)
       PROVE  First \notin {START_BYTE, LOG_LINE_START}
  <2> DEFINE i == (37 - Left) + 1
  <2>1. i \in 7..36 /\ i - 6 \in 1..30
    BY <1>13
  <2>2. First = bytes[i]
    BY <1>10
  <2> HIDE DEF i
  <2>3. bytes[i] = data[i - 6]
    BY <1>2, <2>1
  <2> QED  BY <1>4, <1>13, <2>1, <2>2, <2>3
<1>14. /\ bytes[1] = START_BYTE /\ bytes[2] = TELEMETRY_DATA /\ bytes[3] = leftover
       /\ bytes[4] = Crc(TELEMETRY_DATA, leftover) /\ bytes[5] = STOP_BYTE
       /\ bytes[6] = TELE_START /\ bytes[37] = TELE_STOP
  BY <1>1
<1>15. Left \in 1..37 /\ Left' = Left - 1 /\ First \in Byte
  BY <1>10
<1>16. Left = 37 => First = START_BYTE
  BY <1>12, <1>14
<1>17. Left = 36 => First = TELEMETRY_DATA
  BY <1>12, <1>14
<1>18. Left = 35 => First = leftover /\ out'[1] = Crc(TELEMETRY_DATA, leftover)
  BY <1>12, <1>11, <1>14
<1>19. Left = 34 => First = out[1] /\ First \notin {START_BYTE, STOP_BYTE}
  BY <1>3, <1>10, <1>12, <1>14
<1>20. Left = 33 => First = STOP_BYTE
  BY <1>12, <1>14
<1>21. Left = 32 => First = TELE_START
  BY <1>12, <1>14
<1>22. Left \in 2..31 /\ Clean(message) => First \notin {START_BYTE, LOG_LINE_START}
  BY <1>13
<1>23. Left = 1 => First = TELE_STOP
  BY <1>12, <1>14
<1> QED  BY <1>15, <1>16, <1>17, <1>18, <1>19, <1>20, <1>21, <1>22, <1>23

\* Likewise in a line.
LEMMA LinePlaces ==
  ASSUME NEW bytes, NEW n \in 1..25, NEW head, head = bytes[(25 - n) + 1]
  PROVE  /\ n = 25 => head = bytes[1]
         /\ n \in 2..24 => \E i \in 2..24 : head = bytes[i]
         /\ n = 1 => head = bytes[25]
  OBVIOUS

\* The bytes of a line, by the number that are left.
LEMMA LineByte ==
  ASSUME TypeOK, message \in Lines, Remaining(LineBytes(message)), Advance
  PROVE  /\ Left \in 1..25 /\ Left' = Left - 1
         /\ First \in Byte
         /\ Left = 25 => First = LOG_LINE_START
         /\ Left \in 2..24 /\ Clean(message) => First # LOG_LINE_START
         /\ Left = 1 => First = LOG_LINE_END
<1> DEFINE bytes == LineBytes(message)
           data  == LogData(message)
<1>1. /\ bytes \in Seq(Byte) /\ Len(bytes) = 25
      /\ bytes[1] = LOG_LINE_START /\ bytes[25] = LOG_LINE_END
      /\ \A i \in 2..24 : bytes[i] = data[i - 1]
  BY LineBytesAre
<1>2. \A i \in 2..24 : bytes[i] = data[i - 1]
  BY <1>1
<1>3. Clean(message) => \A i \in 1..23 : data[i] # LOG_LINE_START
  <2>1. message # NoRecord /\ message \in Lines
    BY RecordsAssumption
  <2>2. Len(data) = 23
    BY LogDataIs, RecordsAssumption
  <2> QED  BY <2>1, <2>2 DEF Clean, DataBytes
<1>4. out \in Seq(Byte)
  BY TypesAre
<1>5. Remaining(bytes)  OBVIOUS
<1> HIDE DEF bytes, data
<1>6. /\ Len(out) \in 1..25
      /\ Head(out) \in Byte /\ Head(out) = bytes[(25 - Len(out)) + 1]
      /\ Len(out') = Len(out) - 1
  <2>1. bytes \in Seq(Byte)
    BY <1>1
  <2>2. /\ Len(out) \in 1..Len(bytes)
        /\ Head(out) \in Byte /\ Head(out) = bytes[Len(bytes) - Len(out) + 1]
        /\ Len(out') = Len(out) - 1
    BY <1>4, <1>5, <2>1, NextByte
  <2>3. Len(bytes) = 25
    BY <1>1
  <2> QED  BY <2>2, <2>3
<1>7. Left \in 1..25 /\ First = bytes[(25 - Left) + 1] /\ First \in Byte /\ Left' = Left - 1
  BY <1>6 DEF Left, First
<1>8. /\ Left = 25 => First = bytes[1]
      /\ Left \in 2..24 => \E i \in 2..24 : First = bytes[i]
      /\ Left = 1 => First = bytes[25]
  BY <1>7, LinePlaces
<1>9. ASSUME Left \in 2..24, Clean(message)
      PROVE  First # LOG_LINE_START
  <2>1. PICK i \in 2..24 : First = bytes[i]
    BY <1>8, <1>9
  <2>2. i - 1 \in 1..23 /\ bytes[i] = data[i - 1]
    BY <1>2
  <2> QED  BY <1>3, <1>9, <2>1, <2>2
<1> QED  BY <1>1, <1>7, <1>8, <1>9

\* Likewise in the packet that announces an upload.
LEMMA AnnouncePlaces ==
  ASSUME NEW bytes, NEW n \in 1..5, NEW head, head = bytes[(5 - n) + 1]
  PROVE  /\ n = 5 => head = bytes[1]
         /\ n = 4 => head = bytes[2]
         /\ n = 3 => head = bytes[3]
         /\ n = 2 => head = bytes[4]
         /\ n = 1 => head = bytes[5]
  OBVIOUS

\* The bytes of that packet, by the number that are left.
LEMMA AnnounceByte ==
  ASSUME TypeOK, Remaining(Packet(LOG, LOG_START)), Advance
  PROVE  /\ Left \in 1..5 /\ Left' = Left - 1
         /\ First \in Byte /\ First # LOG_LINE_START
         /\ Left = 5 => First = START_BYTE
         /\ Left \in 2..4 => First \notin {START_BYTE, STOP_BYTE}
         /\ Left = 4 => First = LOG
         /\ Left = 1 => First = STOP_BYTE
<1> DEFINE bytes == Packet(LOG, LOG_START)
<1>1. /\ bytes \in Seq(Byte) /\ Len(bytes) = 5
      /\ bytes[1] = START_BYTE /\ bytes[2] = LOG /\ bytes[3] = LOG_START
      /\ bytes[4] = Crc(LOG, LOG_START) /\ bytes[5] = STOP_BYTE
  BY AnnounceBytes
<1>2. Crc(LOG, LOG_START) \notin {START_BYTE, STOP_BYTE, LOG_LINE_START}
  BY CheckAssumption
<1>3. /\ LOG \notin {START_BYTE, STOP_BYTE, LOG_LINE_START}
      /\ LOG_START \notin {START_BYTE, STOP_BYTE, LOG_LINE_START}
      /\ LOG_LINE_START \notin {START_BYTE, STOP_BYTE}
  BY DEF LOG, LOG_START, START_BYTE, STOP_BYTE, LOG_LINE_START
<1>4. out \in Seq(Byte)
  BY TypesAre
<1>5. Remaining(bytes)  OBVIOUS
<1> HIDE DEF bytes
<1>6. /\ Len(out) \in 1..5
      /\ Head(out) \in Byte /\ Head(out) = bytes[(5 - Len(out)) + 1]
      /\ Len(out') = Len(out) - 1
  <2>1. bytes \in Seq(Byte)
    BY <1>1
  <2>2. /\ Len(out) \in 1..Len(bytes)
        /\ Head(out) \in Byte /\ Head(out) = bytes[Len(bytes) - Len(out) + 1]
        /\ Len(out') = Len(out) - 1
    BY <1>4, <1>5, <2>1, NextByte
  <2>3. Len(bytes) = 5
    BY <1>1
  <2> QED  BY <2>2, <2>3
<1>7. Left \in 1..5 /\ First = bytes[(5 - Left) + 1] /\ First \in Byte /\ Left' = Left - 1
  BY <1>6 DEF Left, First
<1>8. /\ Left = 5 => First = bytes[1]
      /\ Left = 4 => First = bytes[2]
      /\ Left = 3 => First = bytes[3]
      /\ Left = 2 => First = bytes[4]
      /\ Left = 1 => First = bytes[5]
  BY <1>7, AnnouncePlaces
<1>9. Left \in {1, 2, 3, 4, 5}
  BY <1>7
<1> QED  BY <1>1, <1>2, <1>3, <1>7, <1>8, <1>9

-----------------------------------------------------------------------------
(***************************************************************************)
(* A byte of a message.                                                    *)
(***************************************************************************)

\* What remains when a byte leaves is still the end of the message.
LEMMA OutKept ==
  ASSUME TypeOK, OutInv, Advance, UNCHANGED <<message, intact>>, intact
  PROVE  OutInv'
<1>1. out \in Seq(Byte)
  BY TypesAre
<1>2. ASSUME NEW bytes \in Seq(Byte), Remaining(bytes)
      PROVE  /\ out' \in Seq(Byte)
             /\ Len(out') <= Len(bytes)
             /\ \A i \in 1..Len(out') : out'[i] = bytes[Len(bytes) - Len(out') + i]
  <2>1. /\ Len(out) \in 1..Len(bytes)
        /\ out' \in Seq(Byte) /\ Len(out') = Len(out) - 1
        /\ \A i \in 1..Len(out') : out'[i] = bytes[Len(bytes) - Len(out') + i]
    BY <1>1, <1>2, NextByte
  <2> DEFINE n == Len(out)
             m == Len(out')
             l == Len(bytes)
  <2>2. n \in 1..l /\ m = n - 1 /\ l \in Nat
    BY <2>1
  <2> HIDE DEF n, m, l
  <2>3. m <= l
    BY <2>2
  <2> QED  BY <2>1, <2>3 DEF m, l
<1>3. CASE message \in Telemetry
  <2>1. PICK leftover \in Leftovers :
          /\ leftover \notin {START_BYTE, STOP_BYTE}
          /\ Remaining(TelemetryBytes(message, leftover))
    BY <1>3 DEF OutInv
  <2> DEFINE bytes == TelemetryBytes(message, leftover)
  <2>2. bytes \in Seq(Byte) /\ Remaining(bytes)
    BY <1>3, <2>1, TeleBytes
  <2>3. bytes = TelemetryBytes(message', leftover)
    OBVIOUS
  <2> HIDE DEF bytes
  <2>4. /\ out' \in Seq(Byte)
        /\ Len(out') <= Len(bytes)
        /\ \A i \in 1..Len(out') : out'[i] = bytes[Len(bytes) - Len(out') + i]
    BY <1>2, <2>2
  <2>5. Remaining(TelemetryBytes(message, leftover))'
    BY <2>3, <2>4 DEF Remaining
  <2> QED  BY <1>3, <2>1, <2>4, <2>5, Kinds DEF OutInv
<1>4. CASE message \in Lines
  <2> DEFINE bytes == LineBytes(message)
  <2>1. Remaining(LineBytes(message))
    BY <1>4, RecordsAssumption DEF OutInv
  <2>2. bytes \in Seq(Byte) /\ Remaining(bytes)
    BY <1>4, <2>1, LineBytesAre
  <2>3. bytes = LineBytes(message')
    OBVIOUS
  <2> HIDE DEF bytes
  <2>4. /\ out' \in Seq(Byte)
        /\ Len(out') <= Len(bytes)
        /\ \A i \in 1..Len(out') : out'[i] = bytes[Len(bytes) - Len(out') + i]
    BY <1>2, <2>2
  <2>5. Remaining(LineBytes(message))'
    BY <2>3, <2>4 DEF Remaining
  <2> QED  BY <1>4, <2>4, <2>5, Kinds DEF OutInv
<1>5. CASE message = NoRecord
  <2> DEFINE bytes == Packet(LOG, LOG_START)
  <2>1. Remaining(Packet(LOG, LOG_START))
    BY <1>5, RecordsAssumption DEF OutInv
  <2>2. bytes \in Seq(Byte) /\ Remaining(bytes)
    BY <2>1, AnnounceBytes
  <2>3. bytes = Packet(LOG, LOG_START)
    OBVIOUS
  <2> HIDE DEF bytes
  <2>4. /\ out' \in Seq(Byte)
        /\ Len(out') <= Len(bytes)
        /\ \A i \in 1..Len(out') : out'[i] = bytes[Len(bytes) - Len(out') + i]
    BY <1>2, <2>2
  <2>5. Remaining(Packet(LOG, LOG_START))'
    BY <2>3, <2>4 DEF Remaining
  <2> QED  BY <1>5, <2>4, <2>5, Kinds DEF OutInv
<1> QED  BY <1>3, <1>4, <1>5 DEF OutInv

\* The three modes of the receive loop.
LEMMA FlagsAre ==
  ASSUME ReceiverTypes, OneAtWork
  PROVE  \/ log_start_flag = 1 /\ telemetry_rcv_flag = 0 /\ rcv_byte_count = 0 /\ count = 0
         \/ /\ log_start_flag = 0 /\ telemetry_rcv_flag = 1
            /\ rcv_byte_count = 0 /\ log_byte_count = 0
         \/ /\ log_start_flag = 0 /\ telemetry_rcv_flag = 0
            /\ log_byte_count = 0 /\ count = 0
  BY DEF ReceiverTypes, OneAtWork

\* A telemetry message flushes the receiver.
LEMMA TelemetryFlushes ==
  ASSUME TypeOK, OneAtWork, LineFlushed, FrameFlushed, Clean(message),
         message \in Telemetry, NEW leftover \in Leftovers,
         leftover \notin {START_BYTE, STOP_BYTE},
         Remaining(TelemetryBytes(message, leftover)), Advance, Receive(First)
  PROVE  LineFlushed' /\ FrameFlushed'
<1> DEFINE byte == First
<1>1. /\ Left \in 1..37 /\ Left' = Left - 1 /\ byte \in Byte
      /\ Left = 37 => byte = START_BYTE
      /\ Left \in 33..36 /\ Left # 33 => byte # START_BYTE /\ byte # STOP_BYTE
      /\ Left = 33 => byte = STOP_BYTE
      /\ Left = 32 => byte = TELE_START
      /\ Left \in 2..31 => byte \notin {START_BYTE, LOG_LINE_START}
      /\ Left = 1 => byte = TELE_STOP
  <2>1. Left \in 1..37 /\ Left' = Left - 1 /\ byte \in Byte
    BY TelemetryByte
  <2>2. /\ Left = 36 => byte = TELEMETRY_DATA
        /\ Left = 35 => byte = leftover
        /\ Left = 34 => byte \notin {START_BYTE, STOP_BYTE}
    BY TelemetryByte
  <2>3. TELEMETRY_DATA # START_BYTE /\ TELEMETRY_DATA # STOP_BYTE
    BY DEF TELEMETRY_DATA, START_BYTE, STOP_BYTE
  <2>4. Left \in 33..36 /\ Left # 33 => Left \in {34, 35, 36}
    OBVIOUS
  <2> HIDE DEF byte
  <2>5. Left \in 33..36 /\ Left # 33 => byte # START_BYTE /\ byte # STOP_BYTE
    BY <2>2, <2>3, <2>4
  <2> QED  BY <2>1, <2>5, TelemetryByte DEF byte
<1>2. ReceiverTypes
  BY TypesAre
<1>3. Receive(byte)
  OBVIOUS
<1> HIDE DEF byte
<1> USE DEF START_BYTE, STOP_BYTE, LOG_LINE_START, TELE_START, TELE_STOP
<1>4. CASE log_start_flag = 1
  <2>1. /\ UNCHANGED <<rcv_byte_count, telemetry_rcv_flag, count>>
        /\ log_byte_count = 0 => log_byte_count' = IF byte = LOG_LINE_START THEN 1 ELSE 0
        /\ log_byte_count \in 1..23 => log_byte_count' = log_byte_count + 1
        /\ log_byte_count = 24 => log_byte_count' = 0
    BY <1>1, <1>2, <1>3, <1>4, LogStep DEF packetVars
  <2>2. log_byte_count \in 0..24
    BY <1>2 DEF ReceiverTypes
  <2>3. telemetry_rcv_flag = 0 /\ rcv_byte_count = 0 /\ count = 0
    BY <1>2, <1>4, FlagsAre
  <2>4. LineFlushed'
    BY <1>1, <2>1, <2>2 DEF LineFlushed
  <2> QED  BY <2>1, <2>3, <2>4 DEF FrameFlushed
<1>5. CASE log_start_flag = 0 /\ telemetry_rcv_flag = 1
  <2>1. /\ UNCHANGED <<rcv_byte_count, log_byte_count>>
        /\ count = 0 =>
             IF byte = TELE_START THEN count' = 1 /\ telemetry_rcv_flag' = 1
                                  ELSE count' = 0 /\ telemetry_rcv_flag' = 0
        /\ count \in 1..30 => count' = count + 1 /\ telemetry_rcv_flag' = 1
        /\ count = 31 => count' = 0 /\ telemetry_rcv_flag' = 0
    BY <1>1, <1>2, <1>3, <1>5, TelemetryStep DEF packetVars
  <2>2. count \in 0..31
    BY <1>2 DEF ReceiverTypes
  <2>3. rcv_byte_count = 0 /\ log_byte_count = 0
    BY <1>2, <1>5, FlagsAre
  <2> QED  BY <1>1, <1>5, <2>1, <2>2, <2>3 DEF LineFlushed, FrameFlushed
<1>6. CASE log_start_flag = 0 /\ telemetry_rcv_flag = 0
  <2>1. /\ UNCHANGED <<count, log_byte_count>>
        /\ byte = START_BYTE =>
             /\ rcv_byte_count' = IF rcv_byte_count = 0 THEN 1 ELSE 0
             /\ telemetry_rcv_flag' = telemetry_rcv_flag
        /\ byte = STOP_BYTE =>
             /\ rcv_byte_count' = 0
             /\ rcv_byte_count # 4 => telemetry_rcv_flag' = telemetry_rcv_flag
        /\ byte \notin {START_BYTE, STOP_BYTE} =>
             /\ telemetry_rcv_flag' = telemetry_rcv_flag
             /\ rcv_byte_count' = IF rcv_byte_count \in 1..3 THEN rcv_byte_count + 1 ELSE 0
    BY <1>1, <1>2, <1>3, <1>6, PacketStep
  <2>2. rcv_byte_count \in 0..4 /\ telemetry_rcv_flag \in {0, 1}
    BY <1>2 DEF ReceiverTypes
  <2>3. log_byte_count = 0 /\ count = 0
    BY <1>2, <1>6, FlagsAre
  <2> QED  BY <1>1, <1>6, <2>1, <2>2, <2>3 DEF LineFlushed, FrameFlushed
<1> QED  BY <1>2, <1>4, <1>5, <1>6, FlagsAre

\* A line flushes get_log.
LEMMA LineFlushes ==
  ASSUME TypeOK, OneAtWork, LineFlushed, Clean(message), message \in Lines,
         Remaining(LineBytes(message)), Advance, Receive(First)
  PROVE  LineFlushed'
<1> DEFINE byte == First
<1>1. /\ Left \in 1..25 /\ Left' = Left - 1 /\ byte \in Byte
      /\ Left \in 2..24 => byte # LOG_LINE_START
      /\ Left = 1 => byte = LOG_LINE_END
  BY LineByte
<1>2. ReceiverTypes
  BY TypesAre
<1>3. Receive(byte)
  OBVIOUS
<1> HIDE DEF byte
<1>4. CASE log_start_flag = 1
  <2>1. /\ log_byte_count = 0 => log_byte_count' = IF byte = LOG_LINE_START THEN 1 ELSE 0
        /\ log_byte_count \in 1..23 => log_byte_count' = log_byte_count + 1
        /\ log_byte_count = 24 => log_byte_count' = 0
    BY <1>1, <1>2, <1>3, <1>4, LogStep
  <2>2. log_byte_count \in 0..24
    BY <1>2 DEF ReceiverTypes
  <2> QED  BY <1>1, <2>1, <2>2 DEF LineFlushed, LOG_LINE_START, LOG_LINE_END
<1>5. CASE log_start_flag = 0
  <2>1. log_byte_count = 0 /\ telemetry_rcv_flag \in {0, 1}
    BY <1>2, <1>5, FlagsAre
  <2>2. log_byte_count' = log_byte_count
    BY <1>1, <1>2, <1>3, <1>5, <2>1, TelemetryStep, PacketStep
  <2> QED  BY <2>1, <2>2 DEF LineFlushed
<1> QED  BY <1>2, <1>4, <1>5, FlagsAre

\* A telemetry message that found the receiver in step is shown.
LEMMA TelemetryIsShown ==
  ASSUME TypeOK, OneAtWork, TelemetryInStep,
         message \in Telemetry, NEW leftover \in Leftovers,
         leftover \notin {START_BYTE, STOP_BYTE},
         Remaining(TelemetryBytes(message, leftover)), Advance, Receive(First),
         done' = (done \/ output' # output)
  PROVE  TelemetryInStep'
<1> DEFINE byte == First
<1>1. /\ Left \in 1..37 /\ Left' = Left - 1 /\ byte \in Byte
      /\ Left = 37 => byte = START_BYTE
      /\ Left = 36 => byte = TELEMETRY_DATA
      /\ Left = 35 => byte = leftover /\ out'[1] = Crc(TELEMETRY_DATA, leftover)
      /\ Left = 34 => byte = out[1] /\ byte \notin {START_BYTE, STOP_BYTE}
      /\ Left = 33 => byte = STOP_BYTE
      /\ Left = 32 => byte = TELE_START
      /\ Left = 1 => byte = TELE_STOP
  BY TelemetryByte
<1>2. ReceiverTypes
  BY TypesAre
<1>3. Receive(byte)
  OBVIOUS
<1>4. TELEMETRY_DATA \notin {START_BYTE, STOP_BYTE}
  BY DEF TELEMETRY_DATA, START_BYTE, STOP_BYTE
<1> HIDE DEF byte
<1>5. log_start_flag = 0
  BY DEF TelemetryInStep
<1>6. CASE Left \in 33..37
  <2>1. telemetry_rcv_flag = 0 /\ rcv_byte_count = 37 - Left
    BY <1>6 DEF TelemetryInStep, AtRest
  <2>2. /\ UNCHANGED <<count, log_byte_count>>
        /\ byte = START_BYTE =>
             /\ rcv_byte_count' = IF rcv_byte_count = 0 THEN 1 ELSE 0
             /\ UNCHANGED <<p, log_start_flag, telemetry_rcv_flag>>
        /\ byte = STOP_BYTE =>
             /\ rcv_byte_count' = 0 /\ p' = p
             /\ IF rcv_byte_count = 4 THEN ProcessPacket
                                      ELSE UNCHANGED <<log_start_flag, telemetry_rcv_flag>>
        /\ byte \notin {START_BYTE, STOP_BYTE} =>
             /\ UNCHANGED <<log_start_flag, telemetry_rcv_flag>>
             /\ rcv_byte_count' = IF rcv_byte_count \in 1..3 THEN rcv_byte_count + 1 ELSE 0
             /\ rcv_byte_count = 1 => p'.command = byte
             /\ rcv_byte_count = 2 => p'.command = p.command /\ p'.value = byte
             /\ rcv_byte_count = 3 =>
                  p'.command = p.command /\ p'.value = p.value /\ p'.crc = byte
    BY <1>1, <1>2, <1>3, <1>5, <2>1, PacketStep
  <2>3. count = 0 /\ log_byte_count = 0
    BY <1>2, <1>5, <2>1, FlagsAre
  <2>4. CASE Left = 37
    BY <1>1, <1>5, <2>1, <2>2, <2>4 DEF TelemetryInStep
  <2>5. CASE Left = 36
    BY <1>1, <1>4, <1>5, <2>1, <2>2, <2>5 DEF TelemetryInStep
  <2>6. CASE Left = 35
    BY <1>1, <1>5, <2>1, <2>2, <2>6 DEF TelemetryInStep
  <2>7. CASE Left = 34
    BY <1>1, <1>5, <2>1, <2>2, <2>7 DEF TelemetryInStep
  <2>8. CASE Left = 33
    <3>1. p.command = TELEMETRY_DATA /\ p.crc = Crc(p.command, p.value)
      BY <2>8 DEF TelemetryInStep
    <3>2. ProcessPacket
      BY <1>1, <2>1, <2>2, <2>8
    <3>3. log_start_flag' = 0 /\ telemetry_rcv_flag' = 1
      BY <1>5, <3>1, <3>2 DEF ProcessPacket, LOG, TELEMETRY_DATA
    <3> QED  BY <1>1, <2>2, <2>3, <2>8, <3>3 DEF TelemetryInStep
  <2> QED  BY <1>6, <2>4, <2>5, <2>6, <2>7, <2>8
<1>7. CASE Left \in 1..32
  <2>1. telemetry_rcv_flag = 1 /\ count = 32 - Left
    BY <1>7 DEF TelemetryInStep
  <2>2. /\ UNCHANGED <<rcv_byte_count, log_start_flag, log_byte_count>>
        /\ count = 0 /\ byte = TELE_START => count' = 1 /\ telemetry_rcv_flag' = 1
        /\ count \in 1..30 => count' = count + 1 /\ telemetry_rcv_flag' = 1
        /\ count = 31 =>
             /\ count' = 0 /\ telemetry_rcv_flag' = 0
             /\ byte = TELE_STOP => output' # output
    BY <1>1, <1>2, <1>3, <1>5, <2>1, TelemetryStep DEF packetVars
  <2>3. rcv_byte_count = 0 /\ log_byte_count = 0
    BY <1>2, <1>5, <2>1, FlagsAre
  <2>4. Left = 1 => output' # output
    BY <1>1, <2>1, <2>2
  <2>5. Left = 1 => done'
    BY <2>4, Zenon
  <2>6. CASE Left \in 2..32
    BY <1>1, <1>5, <2>1, <2>2, <2>6 DEF TelemetryInStep
  <2>7. CASE Left = 1
    BY <1>1, <1>5, <2>1, <2>2, <2>3, <2>5, <2>7 DEF TelemetryInStep, AtRest
  <2> QED  BY <1>7, <2>6, <2>7
<1> QED  BY <1>1, <1>6, <1>7

\* A line that found the receiver in step is filed.
LEMMA LineIsFiled ==
  ASSUME TypeOK, LineInStep, message \in Lines, Remaining(LineBytes(message)),
         Advance, Receive(First), done' = (done \/ output' # output)
  PROVE  LineInStep'
<1> DEFINE byte == First
<1>1. /\ Left \in 1..25 /\ Left' = Left - 1 /\ byte \in Byte
      /\ Left = 25 => byte = LOG_LINE_START
      /\ Left = 1 => byte = LOG_LINE_END
  BY LineByte
<1>2. ReceiverTypes
  BY TypesAre
<1>3. Receive(byte)
  OBVIOUS
<1> HIDE DEF byte
<1>4. log_start_flag = 1 /\ log_byte_count = 25 - Left
  BY <1>1 DEF LineInStep
<1>5. /\ log_start_flag' = log_start_flag
      /\ log_byte_count = 0 => log_byte_count' = IF byte = LOG_LINE_START THEN 1 ELSE 0
      /\ log_byte_count \in 1..23 => log_byte_count' = log_byte_count + 1
      /\ log_byte_count = 24 =>
           /\ log_byte_count' = 0
           /\ byte = LOG_LINE_END => output' # output
  BY <1>1, <1>2, <1>3, <1>4, LogStep
<1>6. Left = 1 => output' # output
  BY <1>1, <1>4, <1>5
<1>7. Left = 1 => done'
  BY <1>6, Zenon
<1>8. CASE Left \in 2..25
  BY <1>1, <1>4, <1>5, <1>8 DEF LineInStep
<1>9. CASE Left = 1
  BY <1>1, <1>4, <1>5, <1>7, <1>9 DEF LineInStep
<1> QED  BY <1>1, <1>8, <1>9

\* The packet that announces an upload keeps the receiver in step.
LEMMA AnnouncementKeepsStep ==
  ASSUME TypeOK, OneAtWork, AnnounceInStep, Remaining(Packet(LOG, LOG_START)),
         Advance, Receive(First)
  PROVE  AnnounceInStep'
<1> DEFINE byte == First
<1>1. /\ Left \in 1..5 /\ Left' = Left - 1
      /\ byte \in Byte /\ byte # LOG_LINE_START
      /\ Left = 5 => byte = START_BYTE
      /\ Left \in 2..4 => byte \notin {START_BYTE, STOP_BYTE}
      /\ Left = 4 => byte = LOG
      /\ Left = 1 => byte = STOP_BYTE
  BY AnnounceByte
<1>2. ReceiverTypes
  BY TypesAre
<1>3. Receive(byte)
  OBVIOUS
<1> HIDE DEF byte
<1>4. CASE log_start_flag = 1
  <2>1. log_byte_count = 0
    BY <1>4 DEF AnnounceInStep
  <2>2. log_start_flag' = 1 /\ log_byte_count' = 0
    BY <1>1, <1>2, <1>3, <1>4, <2>1, LogStep
  <2> QED  BY <2>2 DEF AnnounceInStep
<1>5. CASE log_start_flag = 0
  <2>1. /\ telemetry_rcv_flag = 0
        /\ rcv_byte_count = 5 - Left
        /\ Left \in 1..3 => p.command = LOG
    BY <1>1, <1>5 DEF AnnounceInStep
  <2>2. /\ log_byte_count' = log_byte_count
        /\ byte = START_BYTE =>
             /\ rcv_byte_count' = IF rcv_byte_count = 0 THEN 1 ELSE 0
             /\ UNCHANGED <<p, log_start_flag, telemetry_rcv_flag>>
        /\ byte = STOP_BYTE =>
             /\ rcv_byte_count' = 0 /\ p' = p
             /\ IF rcv_byte_count = 4 THEN ProcessPacket
                                      ELSE UNCHANGED <<log_start_flag, telemetry_rcv_flag>>
        /\ byte \notin {START_BYTE, STOP_BYTE} =>
             /\ UNCHANGED <<log_start_flag, telemetry_rcv_flag>>
             /\ rcv_byte_count' = IF rcv_byte_count \in 1..3 THEN rcv_byte_count + 1 ELSE 0
             /\ rcv_byte_count = 1 => p'.command = byte
             /\ rcv_byte_count = 2 => p'.command = p.command
             /\ rcv_byte_count = 3 => p'.command = p.command
    BY <1>1, <1>2, <1>3, <1>5, <2>1, PacketStep
  <2>3. log_byte_count = 0
    BY <1>2, <1>5, <2>1, FlagsAre
  <2>4. CASE Left = 5
    BY <1>1, <1>5, <2>1, <2>2, <2>4 DEF AnnounceInStep
  <2>5. CASE Left = 4
    BY <1>1, <1>5, <2>1, <2>2, <2>5 DEF AnnounceInStep
  <2>6. CASE Left \in 2..3
    BY <1>1, <1>5, <2>1, <2>2, <2>6 DEF AnnounceInStep
  <2>7. CASE Left = 1
    <3>1. p.command # TELEMETRY_DATA
      BY <2>1, <2>7 DEF LOG, TELEMETRY_DATA
    <3>2. ProcessPacket
      BY <1>1, <2>1, <2>2, <2>7
    <3>3. telemetry_rcv_flag' = 0 /\ log_start_flag' \in {0, 1}
      BY <1>5, <2>1, <3>1, <3>2 DEF ProcessPacket
    <3> QED  BY <1>1, <2>2, <2>3, <2>7, <3>3 DEF AnnounceInStep
  <2> QED  BY <1>1, <2>4, <2>5, <2>6, <2>7
<1> QED  BY <1>4, <1>5 DEF AnnounceInStep

-----------------------------------------------------------------------------
(***************************************************************************)
(* The invariant is inductive.                                             *)
(***************************************************************************)

\* A whole message is what remains of it.
LEMMA Begun ==
  ASSUME NEW bytes \in Seq(Byte), NEW sent, sent = bytes
  PROVE  /\ Len(sent) <= Len(bytes)
         /\ \A i \in 1..Len(sent) : sent[i] = bytes[Len(bytes) - Len(sent) + i]
<1> DEFINE n == Len(bytes)
<1>1. n \in Nat
  OBVIOUS
<1>2. Len(sent) = n
  OBVIOUS
<1> HIDE DEF n
<1>3. n <= n /\ \A i \in 1..n : n - n + i = i
  BY <1>1
<1> QED  BY <1>2, <1>3 DEF n

\* A message that was in step, or long enough, has left nothing open.
LEMMA Settled ==
  ASSUME IInv, out = <<>>, InStep
  PROVE  AtRest
<1>1. Left = 0
  BY DEF Left
<1>2. ReceiverTypes
  BY TypesAre DEF IInv
<1>3. OneAtWork /\ OutInv /\ FlushInv /\ InStepInv
  BY DEF IInv
<1>4. intact /\ Clean(message) /\ (due \/ LongEnough(message))
  BY DEF InStep
<1>5. message \in Telemetry \/ message \in Lines \/ message = NoRecord
  BY <1>3 DEF OutInv
<1>6. log_byte_count \in Nat /\ count \in Nat /\ rcv_byte_count \in Nat
  BY <1>2 DEF ReceiverTypes
<1>7. log_byte_count <= 24 /\ count <= 31 /\ rcv_byte_count <= 4 /\ telemetry_rcv_flag \in {0, 1}
  BY <1>2 DEF ReceiverTypes
<1>8. CASE due
  <2>1. CASE message \in Telemetry
    BY <1>1, <1>3, <1>4, <1>8, <2>1 DEF InStepInv, TelemetryInStep
  <2>2. CASE message \in Lines
    <3>1. log_start_flag = 1 /\ log_byte_count = 0
      BY <1>1, <1>3, <1>4, <1>8, <2>2 DEF InStepInv, LineInStep
    <3> QED  BY <1>2, <1>3, <3>1, FlagsAre DEF AtRest
  <2>3. CASE message = NoRecord
    <3>1. AnnounceInStep
      BY <1>3, <1>4, <1>8, <2>3 DEF InStepInv
    <3> QED  BY <1>1, <1>2, <1>3, <3>1, FlagsAre DEF AtRest, AnnounceInStep
  <2> QED  BY <1>5, <2>1, <2>2, <2>3
<1>9. CASE LongEnough(message)
  <2>1. message \in Telemetry \/ (message \in Lines /\ log_start_flag = 1)
    BY <1>9 DEF LongEnough
  <2>2. LineFlushed
    BY <1>3, <1>4, <2>1 DEF FlushInv
  <2>3. log_byte_count = 0
    BY <1>1, <1>6, <1>7, <2>2 DEF LineFlushed
  <2>4. CASE message \in Telemetry
    <3>1. FrameFlushed
      BY <1>3, <1>4, <2>4 DEF FlushInv
    <3>2. rcv_byte_count = 0 /\ count = 0 /\ telemetry_rcv_flag = 0
      BY <1>1, <1>6, <1>7, <3>1 DEF FrameFlushed
    <3> QED  BY <2>3, <3>2 DEF AtRest
  <2>5. CASE log_start_flag = 1
    BY <1>2, <1>3, <2>3, <2>5, FlagsAre DEF AtRest
  <2> QED  BY <2>1, <2>4, <2>5
<1> QED  BY <1>4, <1>8, <1>9

\* What the receiver's invariants make of an unchanged receiver.
LEMMA ReceiverStays ==
  ASSUME ReceiverTypes, OneAtWork, UNCHANGED receiverVars
  PROVE  ReceiverTypes' /\ OneAtWork'
  BY DEF ReceiverTypes, OneAtWork, receiverVars, packetVars, telemetryVars, logVars, Records

\* SendTelemetry: the frame is longer than whatever the receiver has open.
LEMMA SendTelemetryKeeps ==
  ASSUME IInv, NEW record \in Telemetry, NEW leftover \in Leftovers,
         SendTelemetry(record, leftover)
  PROVE  IInv'
<1> DEFINE bytes == TelemetryBytes(record, leftover)
<1>1. ReceiverTypes /\ OneAtWork /\ faults \in 0..MaxFaults
  BY TypesAre DEF IInv
<1>2. Begin(record, bytes) /\ intact' = (leftover \notin {START_BYTE, STOP_BYTE})
  BY DEF SendTelemetry
<1>3. /\ out = <<>> /\ out' = bytes /\ message' = record
      /\ due' = (InStep /\ Heard(record)) /\ UNCHANGED <<receiverVars, faults>>
  BY <1>2 DEF Begin
<1>4. bytes \in Seq(Byte) /\ Len(bytes) = 37
  BY TeleBytes
<1>5. record # NoRecord /\ record \notin Lines
  BY RecordsAssumption
<1>6. ReceiverTypes' /\ OneAtWork'
  BY <1>1, <1>3, ReceiverStays
<1>7. TypeOK'
  BY <1>1, <1>2, <1>3, <1>4, <1>6, TypesAre
<1>8. OutInv'
  <2>1. bytes = TelemetryBytes(message', leftover)
    BY <1>3
  <2>2. bytes \in Seq(Byte) /\ out' = bytes
    BY <1>3, <1>4
  <2> HIDE DEF bytes
  <2>3. /\ Len(out') <= Len(bytes)
        /\ \A i \in 1..Len(out') : out'[i] = bytes[Len(bytes) - Len(out') + i]
    BY <2>2, Begun
  <2>4. Remaining(TelemetryBytes(message, leftover))'
    BY <2>1, <2>3 DEF Remaining
  <2> QED  BY <1>2, <1>3, <2>4, Kinds DEF OutInv
<1>9. Left' = 37
  BY <1>3, <1>4 DEF Left
<1>10. FlushInv'
  <2>1. log_byte_count' \in 0..24 /\ count' \in 0..31
    BY <1>6 DEF ReceiverTypes
  <2>2. /\ log_byte_count' > 0 => 25 - log_byte_count' <= 37
        /\ count' > 0 => 32 - count' <= 37
    <3>1. \A n \in 0..24 : n > 0 => 25 - n <= 37
      OBVIOUS
    <3>2. \A n \in 0..31 : n > 0 => 32 - n <= 37
      OBVIOUS
    <3> QED  BY <2>1, <3>1, <3>2
  <2>3. LineFlushed' /\ FrameFlushed'
    BY <1>9, <2>2 DEF LineFlushed, FrameFlushed
  <2> QED  BY <2>3 DEF FlushInv
<1>11. InStepInv'
  <2>1. ASSUME due' PROVE TelemetryInStep'
    <3>1. InStep /\ Heard(record)
      BY <1>3, <2>1
    <3>2. AtRest /\ log_start_flag = 0
      BY <1>1, <1>3, <1>5, <3>1, Settled DEF Heard, ReceiverTypes
    <3>3. AtRest' /\ log_start_flag' = 0
      BY <1>3, <3>2 DEF AtRest, receiverVars, packetVars, telemetryVars, logVars
    <3> QED  BY <1>9, <3>3 DEF TelemetryInStep
  <2> QED  BY <1>3, <1>5, <2>1 DEF InStepInv
<1> QED  BY <1>6, <1>7, <1>8, <1>10, <1>11 DEF IInv

\* StartUpload.
LEMMA StartUploadKeeps ==
  ASSUME IInv, StartUpload
  PROVE  IInv'
<1> DEFINE bytes == Packet(LOG, LOG_START)
<1>1. ReceiverTypes /\ OneAtWork /\ faults \in 0..MaxFaults
  BY TypesAre DEF IInv
<1>2. Begin(NoRecord, bytes)
  BY DEF StartUpload
<1>3. /\ out = <<>> /\ out' = bytes /\ message' = NoRecord
      /\ due' = (InStep /\ Heard(NoRecord)) /\ UNCHANGED <<receiverVars, faults>>
  BY <1>2 DEF Begin
<1>4. bytes \in Seq(Byte) /\ Len(bytes) = 5
  BY AnnounceBytes
<1>5. NoRecord \notin Telemetry /\ NoRecord \notin Lines
  BY RecordsAssumption
<1>6. ReceiverTypes' /\ OneAtWork'
  BY <1>1, <1>3, ReceiverStays
<1>7. TypeOK'
  BY <1>1, <1>2, <1>3, <1>4, <1>6, TypesAre
<1>8. OutInv'
  <2>1. bytes = Packet(LOG, LOG_START)
    OBVIOUS
  <2>2. bytes \in Seq(Byte) /\ out' = bytes
    BY <1>3, <1>4
  <2> HIDE DEF bytes
  <2>3. /\ Len(out') <= Len(bytes)
        /\ \A i \in 1..Len(out') : out'[i] = bytes[Len(bytes) - Len(out') + i]
    BY <2>2, Begun
  <2>4. Remaining(Packet(LOG, LOG_START))'
    BY <2>1, <2>3 DEF Remaining
  <2> QED  BY <1>3, <2>4, Kinds DEF OutInv
<1>9. Left' = 5
  BY <1>3, <1>4 DEF Left
<1>10. FlushInv'
  BY <1>3, <1>5 DEF FlushInv
<1>11. InStepInv'
  <2>1. ASSUME due' PROVE AnnounceInStep'
    <3>1. InStep
      BY <1>3, <2>1
    <3>2. AtRest
      BY <1>3, <3>1, Settled
    <3>3. AtRest' /\ log_start_flag' \in {0, 1}
      BY <1>1, <1>3, <3>2
         DEF AtRest, ReceiverTypes, receiverVars, packetVars, telemetryVars, logVars
    <3> QED  BY <1>9, <3>3 DEF AnnounceInStep, AtRest
  <2> QED  BY <1>3, <1>5, <2>1 DEF InStepInv
<1> QED  BY <1>6, <1>7, <1>8, <1>10, <1>11 DEF IInv

\* SendLine: the line is longer than whatever get_log has open.
LEMMA SendLineKeeps ==
  ASSUME IInv, NEW record \in Lines, SendLine(record)
  PROVE  IInv'
<1> DEFINE bytes == LineBytes(record)
<1>1. ReceiverTypes /\ OneAtWork /\ faults \in 0..MaxFaults
  BY TypesAre DEF IInv
<1>2. Begin(record, bytes)
  BY DEF SendLine
<1>3. /\ out = <<>> /\ out' = bytes /\ message' = record
      /\ due' = (InStep /\ Heard(record)) /\ UNCHANGED <<receiverVars, faults>>
  BY <1>2 DEF Begin
<1>4. bytes \in Seq(Byte) /\ Len(bytes) = 25
  BY LineBytesAre
<1>5. record # NoRecord /\ record \notin Telemetry
  BY RecordsAssumption
<1>6. ReceiverTypes' /\ OneAtWork'
  BY <1>1, <1>3, ReceiverStays
<1>7. TypeOK'
  BY <1>1, <1>2, <1>3, <1>4, <1>6, TypesAre
<1>8. OutInv'
  <2>1. bytes = LineBytes(message')
    BY <1>3
  <2>2. bytes \in Seq(Byte) /\ out' = bytes
    BY <1>3, <1>4
  <2> HIDE DEF bytes
  <2>3. /\ Len(out') <= Len(bytes)
        /\ \A i \in 1..Len(out') : out'[i] = bytes[Len(bytes) - Len(out') + i]
    BY <2>2, Begun
  <2>4. Remaining(LineBytes(message))'
    BY <2>1, <2>3 DEF Remaining
  <2> QED  BY <1>3, <2>4, Kinds DEF OutInv
<1>9. Left' = 25
  BY <1>3, <1>4 DEF Left
<1>10. FlushInv'
  <2>1. log_byte_count' \in 0..24
    BY <1>6 DEF ReceiverTypes
  <2>2. log_byte_count' > 0 => 25 - log_byte_count' <= 25
    <3>1. \A n \in 0..24 : n > 0 => 25 - n <= 25
      OBVIOUS
    <3> QED  BY <2>1, <3>1
  <2>3. LineFlushed'
    BY <1>9, <2>2 DEF LineFlushed
  <2> QED  BY <1>3, <1>5, <2>3 DEF FlushInv
<1>11. InStepInv'
  <2>1. ASSUME due' PROVE LineInStep'
    <3>1. InStep /\ Heard(record)
      BY <1>3, <2>1
    <3>2. AtRest /\ log_start_flag = 1
      BY <1>3, <1>5, <3>1, Settled DEF Heard
    <3>3. log_byte_count' = 0 /\ log_start_flag' = 1
      BY <1>3, <3>2 DEF AtRest, receiverVars, packetVars, telemetryVars, logVars
    <3> QED  BY <1>9, <3>3 DEF LineInStep
  <2> QED  BY <1>3, <1>5, <2>1 DEF InStepInv
<1> QED  BY <1>6, <1>7, <1>8, <1>10, <1>11 DEF IInv

\* EndUpload.
LEMMA EndUploadKeeps ==
  ASSUME IInv, EndUpload
  PROVE  IInv'
<1>1. UNCHANGED <<receiverVars, out, message, faults, intact, due, done>>
  BY DEF EndUpload, historyVars
<1>2. ReceiverTypes' /\ OneAtWork'
  BY <1>1, TypesAre, ReceiverStays DEF IInv
<1>3. TypeOK'
  BY <1>1, <1>2, TypesAre DEF IInv
<1>4. OutInv'
  BY <1>1 DEF IInv, OutInv, Remaining
<1>5. Left' = Left
  BY <1>1 DEF Left
<1>6. UNCHANGED <<rcv_byte_count, p, telemetry_rcv_flag, count, log_start_flag, log_byte_count>>
  BY <1>1 DEF receiverVars, packetVars, telemetryVars, logVars
<1>7. FlushInv'
  BY <1>1, <1>5, <1>6 DEF IInv, FlushInv, LineFlushed, FrameFlushed
<1>8. InStepInv'
  BY <1>1, <1>5, <1>6
     DEF IInv, InStepInv, TelemetryInStep, LineInStep, AnnounceInStep, AtRest
<1> QED  BY <1>2, <1>3, <1>4, <1>7, <1>8 DEF IInv

\* SendByte: each message flushes, and keeps step, as the lemmas above say.
LEMMA SendByteKeeps ==
  ASSUME IInv, SendByte
  PROVE  IInv'
<1>1. TypeOK /\ OutInv /\ OneAtWork /\ FlushInv /\ InStepInv /\ ReceiverTypes
  BY TypesAre DEF IInv
<1>2. /\ Advance /\ Receive(First)
      /\ message' = message /\ intact' = intact /\ due' = due /\ faults' = faults
      /\ done' = (done \/ output' # output)
  BY DEF SendByte, Advance, First
<1>3. First \in Byte /\ out' \in Seq(Byte)
  BY <1>1, <1>2, TypesAre, ByteLeaves DEF First
<1>4. ReceiverTypes' /\ OneAtWork'
  BY <1>1, <1>2, <1>3, AnyByte
<1>5. OutInv'
  <2>1. CASE intact
    BY <1>1, <1>2, <2>1, OutKept
  <2>2. CASE ~intact
    BY <1>1, <1>2, <2>2 DEF OutInv
  <2> QED  BY <2>1, <2>2
<1>6. TypeOK'
  BY <1>1, <1>2, <1>3, <1>4, TypesAre
<1>7. FlushInv'
  <2> SUFFICES ASSUME intact, Clean(message)
               PROVE  /\ message \in Telemetry \cup Lines => LineFlushed'
                      /\ message \in Telemetry => FrameFlushed'
    BY <1>2 DEF FlushInv
  <2>1. CASE message \in Telemetry
    <3>1. PICK leftover \in Leftovers :
            /\ leftover \notin {START_BYTE, STOP_BYTE}
            /\ Remaining(TelemetryBytes(message, leftover))
      BY <1>1, <2>1, RecordsAssumption DEF OutInv
    <3>2. LineFlushed /\ FrameFlushed
      BY <1>1, <2>1 DEF FlushInv
    <3> QED  BY <1>1, <1>2, <2>1, <3>1, <3>2, TelemetryFlushes
  <2>2. CASE message \in Lines
    <3>1. Remaining(LineBytes(message)) /\ message \notin Telemetry
      BY <1>1, <2>2, RecordsAssumption DEF OutInv
    <3>2. LineFlushed
      BY <1>1, <2>2 DEF FlushInv
    <3> QED  BY <1>1, <1>2, <2>2, <3>1, <3>2, LineFlushes
  <2> QED  BY <2>1, <2>2
<1>8. InStepInv'
  <2> SUFFICES ASSUME intact, due
               PROVE  /\ message \in Telemetry => TelemetryInStep'
                      /\ message \in Lines => LineInStep'
                      /\ message = NoRecord => AnnounceInStep'
    BY <1>2 DEF InStepInv
  <2>1. ASSUME message \in Telemetry PROVE TelemetryInStep'
    <3>1. PICK leftover \in Leftovers :
            /\ leftover \notin {START_BYTE, STOP_BYTE}
            /\ Remaining(TelemetryBytes(message, leftover))
      BY <1>1, <2>1, RecordsAssumption DEF OutInv
    <3>2. TelemetryInStep
      BY <1>1, <2>1 DEF InStepInv
    <3> QED  BY <1>1, <1>2, <2>1, <3>1, <3>2, TelemetryIsShown
  <2>2. ASSUME message \in Lines PROVE LineInStep'
    <3>1. Remaining(LineBytes(message))
      BY <1>1, <2>2, RecordsAssumption DEF OutInv
    <3>2. LineInStep
      BY <1>1, <2>2 DEF InStepInv
    <3> QED  BY <1>1, <1>2, <2>2, <3>1, <3>2, LineIsFiled
  <2>3. ASSUME message = NoRecord PROVE AnnounceInStep'
    <3>1. Remaining(Packet(LOG, LOG_START))
      BY <1>1, <2>3, RecordsAssumption DEF OutInv
    <3>2. AnnounceInStep
      BY <1>1, <2>3 DEF InStepInv
    <3> QED  BY <1>1, <1>2, <3>1, <3>2, AnnouncementKeepsStep
  <2> QED  BY <2>1, <2>2, <2>3
<1> QED  BY <1>4, <1>5, <1>6, <1>7, <1>8 DEF IInv

\* LoseByte: the message is no longer intact.
LEMMA LoseByteKeeps ==
  ASSUME IInv, LoseByte
  PROVE  IInv'
<1>1. TypeOK /\ OutInv /\ OneAtWork /\ ReceiverTypes /\ faults \in 0..MaxFaults
  BY TypesAre DEF IInv
<1>2. /\ Advance /\ UNCHANGED receiverVars
      /\ message' = message /\ intact' = FALSE
      /\ faults < MaxFaults /\ faults' = faults + 1
  BY DEF LoseByte, Fault, Advance
<1>3. ReceiverTypes' /\ OneAtWork'
  BY <1>1, <1>2, ReceiverStays
<1>4. out' \in Seq(Byte)
  BY <1>1, <1>2, TypesAre, ByteLeaves
<1>5. OutInv'
  BY <1>1, <1>2 DEF OutInv
<1>6. faults' \in 0..MaxFaults
  <2> HIDE DEF OutInv
  <2> QED  BY <1>1, <1>2, BoundsAssumption
<1>7. TypeOK'
  BY <1>3, <1>4, <1>6, TypesAre
<1> QED  BY <1>2, <1>3, <1>5, <1>7 DEF IInv, FlushInv, InStepInv

\* Report, likewise.
LEMMA ReportKeeps ==
  ASSUME IInv, NEW text \in Reports, Report(text)
  PROVE  IInv'
<1>1. TypeOK /\ OutInv /\ OneAtWork /\ ReceiverTypes /\ faults \in 0..MaxFaults
  BY TypesAre DEF IInv
<1>2. /\ out' = text \o out /\ UNCHANGED receiverVars
      /\ message' = message /\ intact' = FALSE
      /\ faults < MaxFaults /\ faults' = faults + 1
  BY DEF Report, Fault
<1>3. ReceiverTypes' /\ OneAtWork'
  BY <1>1, <1>2, ReceiverStays
<1>4. out' \in Seq(Byte)
  <2>1. text \in Seq(Byte)
    <3>1. text \in Seq(0..127)
      BY TextAssumption
    <3>2. 0..127 \subseteq Byte
      BY DEF Byte
    <3> QED  BY <3>1, <3>2, SeqMonotonic
  <2>2. out \in Seq(Byte)
    BY <1>1, TypesAre
  <2> QED  BY <1>2, <2>1, <2>2
<1>5. OutInv'
  BY <1>1, <1>2 DEF OutInv
<1>6. faults' \in 0..MaxFaults
  <2> HIDE DEF OutInv
  <2> QED  BY <1>1, <1>2, BoundsAssumption
<1>7. TypeOK'
  BY <1>3, <1>4, <1>6, TypesAre
<1> QED  BY <1>2, <1>3, <1>5, <1>7 DEF IInv, FlushInv, InStepInv

\* A byte between two messages opens nothing.
LEMMA NothingOpens ==
  ASSUME ReceiverTypes, OneAtWork, NEW byte \in Byte, Receive(byte),
         byte \notin {START_BYTE, LOG_LINE_START}
  PROVE  /\ log_byte_count = 0 => log_byte_count' = 0
         /\ AtRest /\ log_start_flag = 0 => AtRest' /\ log_start_flag' = 0
         /\ log_start_flag = 1 => log_start_flag' = 1
         /\ AtRest => AtRest'
<1>1. CASE log_start_flag = 1
  <2>1. /\ UNCHANGED <<rcv_byte_count, telemetry_rcv_flag, count, log_start_flag>>
        /\ log_byte_count = 0 => log_byte_count' = 0
    BY <1>1, LogStep DEF packetVars
  <2> QED  BY <1>1, <2>1 DEF AtRest
<1>2. CASE log_start_flag = 0 /\ telemetry_rcv_flag = 1
  <2>1. log_byte_count' = log_byte_count
    BY <1>2, TelemetryStep
  <2> QED  BY <1>2, <2>1 DEF AtRest
<1>3. CASE log_start_flag = 0 /\ telemetry_rcv_flag = 0
  <2>1. UNCHANGED <<count, log_byte_count>>
    BY <1>3, PacketStep
  <2>2. rcv_byte_count = 0 =>
          rcv_byte_count' = 0 /\ UNCHANGED <<log_start_flag, telemetry_rcv_flag>>
    BY <1>3, PacketStep
  <2> QED  BY <1>3, <2>1, <2>2 DEF AtRest
<1> QED  BY <1>1, <1>2, <1>3, FlagsAre

\* Gap: neither text nor an idle line opens anything.
LEMMA GapKeeps ==
  ASSUME IInv, NEW byte \in TextBytes \cup {IDLE_BYTE}, Gap(byte)
  PROVE  IInv'
<1>1. /\ TypeOK /\ OutInv /\ OneAtWork /\ FlushInv /\ InStepInv
      /\ ReceiverTypes /\ faults \in 0..MaxFaults
  BY TypesAre DEF IInv
<1>2. /\ Receive(byte) /\ out = <<>>
      /\ UNCHANGED <<out, message, faults, intact, due, done>>
  BY DEF Gap, senderVars, historyVars
<1>3. byte \in Byte /\ byte \notin {START_BYTE, LOG_LINE_START}
  BY TextAssumption DEF Byte, IDLE_BYTE, START_BYTE, LOG_LINE_START
<1>4. ReceiverTypes' /\ OneAtWork'
  BY <1>1, <1>2, <1>3, AnyByte
<1>5. TypeOK'
  BY <1>1, <1>2, <1>4, TypesAre
<1>6. OutInv'
  BY <1>1, <1>2 DEF OutInv, Remaining
<1>7. Left = 0 /\ Left' = 0
  BY <1>2 DEF Left
<1>8. /\ log_byte_count = 0 => log_byte_count' = 0
      /\ AtRest /\ log_start_flag = 0 => AtRest' /\ log_start_flag' = 0
      /\ log_start_flag = 1 => log_start_flag' = 1
      /\ AtRest => AtRest'
  BY <1>1, <1>2, <1>3, NothingOpens
<1>9. log_byte_count \in 0..24 /\ count \in 0..31 /\ rcv_byte_count \in 0..4
  BY <1>1 DEF ReceiverTypes
<1>10. log_start_flag \in {0, 1} /\ log_start_flag' \in {0, 1} /\ telemetry_rcv_flag \in {0, 1}
  BY <1>1, <1>4 DEF ReceiverTypes
<1>11. FlushInv'
  <2> SUFFICES ASSUME intact, Clean(message)
               PROVE  /\ message \in Telemetry \cup Lines => LineFlushed'
                      /\ message \in Telemetry => FrameFlushed'
    BY <1>2 DEF FlushInv
  <2>1. ASSUME message \in Telemetry \cup Lines PROVE LineFlushed'
    <3>1. LineFlushed
      BY <1>1, <2>1 DEF FlushInv
    <3>2. log_byte_count = 0
      BY <1>7, <1>9, <3>1 DEF LineFlushed
    <3> QED  BY <1>8, <3>2 DEF LineFlushed
  <2>2. ASSUME message \in Telemetry PROVE FrameFlushed'
    <3>1. FrameFlushed /\ LineFlushed
      BY <1>1, <2>2 DEF FlushInv
    <3>2. AtRest
      BY <1>7, <1>9, <1>10, <3>1 DEF LineFlushed, FrameFlushed, AtRest
    <3> QED  BY <1>8, <3>2 DEF AtRest, FrameFlushed
  <2> QED  BY <2>1, <2>2
<1>12. InStepInv'
  <2> SUFFICES ASSUME intact, due
               PROVE  /\ message \in Telemetry => TelemetryInStep'
                      /\ message \in Lines => LineInStep'
                      /\ message = NoRecord => AnnounceInStep'
    BY <1>2 DEF InStepInv
  <2>1. ASSUME message \in Telemetry PROVE TelemetryInStep'
    <3>1. TelemetryInStep
      BY <1>1, <2>1 DEF InStepInv
    <3>2. AtRest /\ log_start_flag = 0 /\ done
      BY <1>7, <3>1 DEF TelemetryInStep
    <3> QED  BY <1>2, <1>7, <1>8, <3>2 DEF TelemetryInStep
  <2>2. ASSUME message \in Lines PROVE LineInStep'
    <3>1. LineInStep
      BY <1>1, <2>2 DEF InStepInv
    <3>2. log_start_flag = 1 /\ log_byte_count = 0 /\ done
      BY <1>7, <3>1 DEF LineInStep
    <3> QED  BY <1>2, <1>7, <1>8, <3>2 DEF LineInStep
  <2>3. ASSUME message = NoRecord PROVE AnnounceInStep'
    <3>1. AnnounceInStep
      BY <1>1, <2>3 DEF InStepInv
    <3>2. AtRest
      BY <1>1, <1>7, <3>1, FlagsAre DEF AnnounceInStep, AtRest
    <3> QED  BY <1>7, <1>8, <1>10, <3>2 DEF AnnounceInStep, AtRest
  <2> QED  BY <2>1, <2>2, <2>3
<1> QED  BY <1>4, <1>5, <1>6, <1>11, <1>12 DEF IInv

\* A stutter.
LEMMA StutterKeeps ==
  ASSUME IInv, UNCHANGED vars
  PROVE  IInv'
<1>1. UNCHANGED <<receiverVars, out, message, faults, intact, due, done>>
  BY DEF vars, senderVars, historyVars
<1>2. ReceiverTypes' /\ OneAtWork'
  BY <1>1, TypesAre, ReceiverStays DEF IInv
<1>3. TypeOK'
  BY <1>1, <1>2, TypesAre DEF IInv
<1>4. OutInv'
  BY <1>1 DEF IInv, OutInv, Remaining
<1>5. Left' = Left
  BY <1>1 DEF Left
<1>6. UNCHANGED <<rcv_byte_count, p, telemetry_rcv_flag, count, log_start_flag, log_byte_count>>
  BY <1>1 DEF receiverVars, packetVars, telemetryVars, logVars
<1>7. FlushInv'
  BY <1>1, <1>5, <1>6 DEF IInv, FlushInv, LineFlushed, FrameFlushed
<1>8. InStepInv'
  BY <1>1, <1>5, <1>6
     DEF IInv, InStepInv, TelemetryInStep, LineInStep, AnnounceInStep, AtRest
<1> QED  BY <1>2, <1>3, <1>4, <1>7, <1>8 DEF IInv

\* The initial state.
LEMMA InitHolds ==
  ASSUME Init
  PROVE  IInv
<1>1. /\ rcv_byte_count = 0 /\ p = [command |-> 0, value |-> 0, crc |-> 0]
      /\ telemetry_rcv_flag = 0 /\ count = 0 /\ tele_data = Zeroed(TeleCases)
      /\ log_start_flag = 0 /\ log_byte_count = 0 /\ log_line = Zeroed(LogCases)
      /\ output = <<>>
  BY DEF Init, ReceiverInit
<1>2. /\ out = <<>> /\ message = NoRecord /\ faults = 0
  BY DEF Init
<1>3. ReceiverTypes
  <2>1. p \in [{"command", "value", "crc"} -> Byte]
    BY <1>1 DEF Byte
  <2>2. /\ tele_data \in [FieldsOf(TeleCases) -> Int]
        /\ log_line \in [FieldsOf(LogCases) -> Int]
    BY <1>1, ZeroedIs
  <2>3. output \in Seq(Records)
    BY <1>1
  <2> QED  BY <1>1, <2>1, <2>2, <2>3 DEF ReceiverTypes
<1>4. TypeOK
  <2>1. out \in Seq(Byte) /\ faults \in 0..MaxFaults
    BY <1>2, BoundsAssumption
  <2> QED  BY <1>3, <2>1, TypesAre
<1>5. OneAtWork
  BY <1>1 DEF OneAtWork
<1>6. Left = 0
  BY <1>2 DEF Left
<1>7. OutInv
  <2> DEFINE bytes == Packet(LOG, LOG_START)
  <2>1. bytes \in Seq(Byte)
    BY AnnounceBytes
  <2>2. Len(bytes) \in Nat
    BY <2>1
  <2>3. Len(out) = 0
    BY <1>2
  <2> HIDE DEF bytes
  <2>4. Remaining(bytes)
    BY <2>2, <2>3 DEF Remaining
  <2> QED  BY <1>2, <2>4, Kinds DEF OutInv, bytes
<1>8. NoRecord \notin Telemetry /\ NoRecord \notin Lines
  BY RecordsAssumption
<1>9. AnnounceInStep
  BY <1>1, <1>6 DEF AnnounceInStep
<1> QED  BY <1>2, <1>4, <1>5, <1>7, <1>8, <1>9 DEF IInv, FlushInv, InStepInv

\* The invariant holds.
LEMMA Inductive == Spec => []IInv
<1>1. Init => IInv
  BY InitHolds
<1>2. IInv /\ [Next]_vars => IInv'
  <2> SUFFICES ASSUME IInv, [Next]_vars PROVE IInv'
    OBVIOUS
  <2> QED
    BY SendTelemetryKeeps, StartUploadKeeps, SendLineKeeps, EndUploadKeeps, SendByteKeeps,
       LoseByteKeeps, ReportKeeps, GapKeeps, StutterKeeps DEF Next
<1> QED  BY <1>1, <1>2, PTL DEF Spec

-----------------------------------------------------------------------------
(***************************************************************************)
(* The theorems.                                                           *)
(***************************************************************************)

\* TypeOK: the counts of the three automata stay where their switches have cases, so that each
\* data byte has a field; records and bytes stay what they are.
THEOREM DownlinkTypes == Spec => []TypeOK
<1>1. IInv => TypeOK
  BY DEF IInv
<1> QED  BY <1>1, Inductive, PTL

\* Resync: an undamaged message that follows one which left the receiver in step is shown or
\* filed, however many bytes were lost and reports inserted before.
THEOREM PcResynchronises == Spec => []Resync
<1>1. IInv => Resync
  <2> SUFFICES ASSUME IInv, out = <<>>, message # NoRecord, intact, due
               PROVE  done
    BY DEF Resync
  <2>1. Left = 0
    BY DEF Left
  <2>2. message \in Telemetry \/ message \in Lines
    BY DEF IInv, OutInv
  <2>3. /\ message \in Telemetry => TelemetryInStep
        /\ message \in Lines => LineInStep
    BY DEF IInv, InStepInv
  <2> QED  BY <2>1, <2>2, <2>3 DEF TelemetryInStep, LineInStep
<1> QED  BY <1>1, Inductive, PTL
=============================================================================
