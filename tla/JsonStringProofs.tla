-------------------------- MODULE JsonStringProofs --------------------------
(***************************************************************************)
(* What parse_string and parse_string_raw make of an escape and of what     *)
(* dump writes, for every code and every string.                           *)
(***************************************************************************)
EXTENDS JsonString, DataLemmas

-----------------------------------------------------------------------------
(* One escape *)

LEMMA HexValueIs ==
  ASSUME NEW c \in Hex
  PROVE  HexValue(c) \in 0..15
BY DEF Hex, Digits, HexValue

\* What two, three and four digits can say.
Two   == 0..255
Three == 0..4095
Units == 0..65535
Sum(a, b, c, d) == 16 * (16 * (16 * a + b) + c) + d

LEMMA OneMore ==
  ASSUME NEW N \in Nat, NEW q \in 0..N, NEW d \in 0..15
  PROVE  16 * q + d \in 0..16 * N + 15
<1>1. PICK x \in Int : x = 16 * q + d
  OBVIOUS
<1>2. PICK M \in Int : M = 16 * N + 15
  OBVIOUS
<1>3. 0 <= x /\ x <= M
  BY <1>1, <1>2
<1>4. x \in 0..M
  BY <1>3
<1> QED BY <1>1, <1>2, <1>4, Zenon

LEMMA OneMoreDigit ==
  /\ \A a, b \in 0..15 : 16 * a + b \in Two
  /\ \A p \in Two, c \in 0..15 : 16 * p + c \in Three
  /\ \A q \in Three, d \in 0..15 : 16 * q + d \in Units
<1>1. ASSUME NEW q \in 0..15, NEW d \in 0..15 PROVE 16 * q + d \in Two
  <2>1. PICK N \in Nat : N = 15
    OBVIOUS
  <2>2. PICK M \in Nat : M = 255
    OBVIOUS
  <2>3. 0..15 = 0..N /\ Two = 0..M
    BY <2>1, <2>2 DEF Two
  <2>4. 16 * N + 15 = M
    BY <2>1, <2>2
  <2>5. 16 * q + d \in 0..16 * N + 15
    BY <2>3, OneMore
  <2> QED BY <2>3, <2>4, <2>5
<1>2. ASSUME NEW q \in Two, NEW d \in 0..15 PROVE 16 * q + d \in Three
  <2>1. PICK N \in Nat : N = 255
    OBVIOUS
  <2>2. PICK M \in Nat : M = 4095
    OBVIOUS
  <2>3. Two = 0..N /\ Three = 0..M
    BY <2>1, <2>2 DEF Two, Three
  <2>4. 16 * N + 15 = M
    BY <2>1, <2>2
  <2>5. 16 * q + d \in 0..16 * N + 15
    BY <2>3, OneMore
  <2> QED BY <2>3, <2>4, <2>5
<1>3. ASSUME NEW q \in Three, NEW d \in 0..15 PROVE 16 * q + d \in Units
  <2>1. PICK N \in Nat : N = 4095
    OBVIOUS
  <2>2. PICK M \in Nat : M = 65535
    OBVIOUS
  <2>3. Three = 0..N /\ Units = 0..M
    BY <2>1, <2>2 DEF Three, Units
  <2>4. 16 * N + 15 = M
    BY <2>1, <2>2
  <2>5. 16 * q + d \in 0..16 * N + 15
    BY <2>3, OneMore
  <2> QED BY <2>3, <2>4, <2>5
<1> QED BY <1>1, <1>2, <1>3

LEMMA FourDigits ==
  ASSUME NEW a \in 0..15, NEW b \in 0..15, NEW c \in 0..15, NEW d \in 0..15
  PROVE  Sum(a, b, c, d) \in Units
<1>1. PICK p \in Two : p = 16 * a + b
  BY OneMoreDigit, Zenon
<1>2. PICK q \in Three : q = 16 * p + c
  BY <1>1, OneMoreDigit, Zenon
<1>3. 16 * q + d \in Units
  BY <1>2, OneMoreDigit, Zenon
<1>4. Sum(a, b, c, d) = 16 * q + d
  BY <1>1, <1>2, Zenon DEF Sum
<1> QED BY <1>3, <1>4, Zenon

LEMMA Hex4Is ==
  ASSUME NEW t, NEW pos \in Int, IsHex4(t, pos)
  PROVE  Hex4(t, pos) \in Units
<1>1. t[pos] \in Hex /\ t[pos + 1] \in Hex /\ t[pos + 2] \in Hex /\ t[pos + 3] \in Hex
  BY DEF IsHex4
<1>2. /\ HexValue(t[pos]) \in 0..15 /\ HexValue(t[pos + 1]) \in 0..15
      /\ HexValue(t[pos + 2]) \in 0..15 /\ HexValue(t[pos + 3]) \in 0..15
  BY <1>1, HexValueIs
<1>3. Hex4(t, pos) = Sum(HexValue(t[pos]), HexValue(t[pos + 1]), HexValue(t[pos + 2]), HexValue(t[pos + 3]))
  BY DEF Hex4, Sum
<1> QED BY <1>2, <1>3, FourDigits, Zenon

\* A code takes four bytes at most, three in the first plane.
LEMMA EncodedIs ==
  ASSUME NEW u \in Nat
  PROVE  /\ Encoded(u) \in Seq(Int)
         /\ Len(Encoded(u)) \in 1..4
<1>1. /\ u \div 64 \in Int /\ u % 64 \in Int /\ u \div 4096 \in Int /\ u \div 262144 \in Int
      /\ (u \div 64) % 64 \in Int /\ (u \div 4096) % 64 \in Int
  OBVIOUS
<1> QED BY <1>1 DEF Encoded

\* An escape has less bytes than its text, which ends within the text.
Goes(t, pos, e) ==
  e.ok => /\ e.length \in 2..12 /\ pos + e.length <= Len(t) + 1
          /\ e.bytes \in Seq(Int) /\ Len(e.bytes) \in 0..e.length - 1

LEMMA EscapeGoes ==
  ASSUME NEW t, Len(t) \in Nat, NEW pos \in 1..Len(t)
  PROVE  Goes(t, pos, Escape(t, pos))
<1> DEFINE is(i, c) == pos + i <= Len(t) /\ t[pos + i] = c
           single == IsHex4(t, pos + 2) /\ Hex4(t, pos + 2) \notin High
           double == /\ IsHex4(t, pos + 2) /\ Hex4(t, pos + 2) \in High
                     /\ is(6, Backslash) /\ is(7, LetterU)
                     /\ IsHex4(t, pos + 8) /\ Hex4(t, pos + 8) \in Low
           letter == pos < Len(t) /\ t[pos + 1] \in DOMAIN Escapes
<1>1. Escape(t, pos) =
        IF letter THEN [ok |-> TRUE, bytes |-> <<Escapes[t[pos + 1]]>>, length |-> 2]
        ELSE IF is(1, LetterU) /\ single
          THEN [ok |-> TRUE, bytes |-> Encoded(Hex4(t, pos + 2)), length |-> 6]
        ELSE IF is(1, LetterU) /\ double
          THEN [ok |-> TRUE, length |-> 12,
                bytes |-> Encoded(JoinedPair(Hex4(t, pos + 2), Hex4(t, pos + 8)))]
        ELSE NoEscape
  BY DEF Escape
<1>2. CASE letter
  <2>1. PICK c \in DOMAIN Escapes : c = t[pos + 1]
    BY <1>2
  <2>2. Escapes[c] \in Int
    BY DEF Escapes
  <2>3. Escape(t, pos) = [ok |-> TRUE, bytes |-> <<Escapes[c]>>, length |-> 2]
    BY <1>1, <1>2, <2>1
  <2> QED BY <1>2, <2>2, <2>3 DEF Goes
<1>3. CASE ~letter /\ is(1, LetterU) /\ single
  <2>1. PICK u \in Nat : u = Hex4(t, pos + 2)
    <3>1. IsHex4(t, pos + 2) /\ pos + 2 \in Int
      BY <1>3
    <3>2. Hex4(t, pos + 2) \in Units
      BY <3>1, Hex4Is, Zenon
    <3>3. Units \subseteq Nat
      BY DEF Units
    <3> QED BY <3>2, <3>3, Zenon
  <2>2. PICK b : b = Encoded(u)
    OBVIOUS
  <2>3. b \in Seq(Int) /\ Len(b) \in 1..4
    BY <2>2, EncodedIs
  <2>4. Escape(t, pos) = [ok |-> TRUE, bytes |-> b, length |-> 6]
    BY <1>1, <1>3, <2>1, <2>2
  <2>5. pos + 5 <= Len(t)
    BY <1>3 DEF IsHex4
  <2>6. PICK e : e = Escape(t, pos)
    OBVIOUS
  <2>7. e.ok /\ e.length = 6 /\ e.bytes = b
    BY <2>4, <2>6
  <2>8. Goes(t, pos, e)
    BY <2>3, <2>5, <2>7 DEF Goes
  <2> QED BY <2>6, <2>8
<1>4. CASE ~letter /\ is(1, LetterU) /\ ~single /\ double
  <2>1. PICK u \in Nat : u = JoinedPair(Hex4(t, pos + 2), Hex4(t, pos + 8))
    <3>1. PICK h \in High : h = Hex4(t, pos + 2)
      BY <1>4
    <3>2. PICK l \in Low : l = Hex4(t, pos + 8)
      BY <1>4
    <3>3. JoinedPair(h, l) \in Nat
      BY DEF JoinedPair, High, Low
    <3> QED BY <3>1, <3>2, <3>3
  <2>2. PICK b : b = Encoded(u)
    OBVIOUS
  <2>3. b \in Seq(Int) /\ Len(b) \in 1..4
    BY <2>2, EncodedIs
  <2>4. Escape(t, pos) = [ok |-> TRUE, length |-> 12, bytes |-> b]
    BY <1>1, <1>4, <2>1, <2>2
  <2>5. pos + 11 <= Len(t)
    BY <1>4 DEF IsHex4
  <2>6. PICK e : e = Escape(t, pos)
    OBVIOUS
  <2>7. e.ok /\ e.length = 12 /\ e.bytes = b
    BY <2>4, <2>6
  <2>8. Goes(t, pos, e)
    BY <2>3, <2>5, <2>7 DEF Goes
  <2> QED BY <2>6, <2>8
<1>5. CASE ~letter /\ ~(is(1, LetterU) /\ single) /\ ~(is(1, LetterU) /\ double)
  BY <1>1, <1>5 DEF NoEscape, Goes
<1> QED BY <1>2, <1>3, <1>4, <1>5

-----------------------------------------------------------------------------
(* What parse_string reads, from each place *)

\* What is read from each place from a on.
StringRead(t, a, read) ==
  read = [pos \in a..Len(t) + 1 |->
            IF pos > Len(t) \/ t[pos] = 0 THEN Unread
            ELSE IF t[pos] = Quote THEN [ok |-> TRUE, bytes |-> <<>>]
            ELSE IF t[pos] # Backslash THEN Behind(<<t[pos]>>, read[pos + 1])
            ELSE IF Escape(t, pos).ok
                 THEN Behind(Escape(t, pos).bytes, read[pos + Escape(t, pos).length])
                 ELSE Unread]

\* The same, for one place.
StringFrom(t, read, pos) ==
  IF pos > Len(t) \/ t[pos] = 0 THEN Unread
  ELSE IF t[pos] = Quote THEN [ok |-> TRUE, bytes |-> <<>>]
  ELSE IF t[pos] # Backslash THEN Behind(<<t[pos]>>, read[pos + 1])
  ELSE IF Escape(t, pos).ok
       THEN Behind(Escape(t, pos).bytes, read[pos + Escape(t, pos).length])
       ELSE Unread

\* What is read from a place depends on what is read from the places behind it.
LEMMA StringFromBehind ==
  ASSUME NEW t, Len(t) \in Nat, NEW pos \in 1..Len(t) + 1, NEW r, NEW q,
         \A i \in pos + 1..Len(t) + 1 : r[i] = q[i]
  PROVE  StringFrom(t, r, pos) = StringFrom(t, q, pos)
<1>1. CASE pos \in 1..Len(t)
  <2>1. Goes(t, pos, Escape(t, pos))
    BY <1>1, EscapeGoes
  <2>2. PICK e : e = Escape(t, pos)
    OBVIOUS
  <2>3. e.ok => pos + e.length \in pos + 1..Len(t) + 1
    BY <1>1, <2>1, <2>2, SMTT(20) DEF Goes
  <2>4. pos + 1 \in pos + 1..Len(t) + 1
    BY <1>1
  <2>5. r[pos + 1] = q[pos + 1] /\ (e.ok => r[pos + e.length] = q[pos + e.length])
    BY <2>3, <2>4
  <2>6. CASE e.ok
    <3>1. r[pos + 1] = q[pos + 1] /\ r[pos + e.length] = q[pos + e.length]
      BY <2>5, <2>6
    <3> QED BY <2>2, <3>1 DEF StringFrom
  <2>7. CASE ~e.ok
    BY <2>2, <2>5, <2>7 DEF StringFrom
  <2> QED BY <2>6, <2>7
<1>2. CASE pos > Len(t)
  BY <1>2 DEF StringFrom
<1> QED BY <1>1, <1>2

LEMMA StringReadable ==
  ASSUME NEW t, Len(t) \in Nat
  PROVE  \E read : StringRead(t, 1, read)
<1> DEFINE S == {a \in 0..Len(t) : \E read : StringRead(t, a + 1, read)}
<1>1. \A a, read : StringRead(t, a, read)
                     <=> read = [pos \in a..Len(t) + 1 |-> StringFrom(t, read, pos)]
  BY DEF StringRead, StringFrom
<1>2. PICK N : N = Len(t) /\ N \in Nat
  OBVIOUS
<1>3. N \in S
  <2>1. PICK r : r = [pos \in N + 1..N + 1 |-> Unread]
    OBVIOUS
  <2>2. \A pos \in N + 1..N + 1 : StringFrom(t, r, pos) = Unread
    BY <1>2 DEF StringFrom
  <2>3. r = [pos \in N + 1..N + 1 |-> StringFrom(t, r, pos)]
    BY <2>1, <2>2
  <2>4. StringRead(t, N + 1, r)
    BY <1>1, <1>2, <2>3
  <2> QED BY <1>2, <2>4
<1>4. ASSUME NEW a \in 1..N, a \in S PROVE a - 1 \in S
  <2>1. PICK r : r = [pos \in a + 1..N + 1 |-> StringFrom(t, r, pos)]
    BY <1>1, <1>2, <1>4
  <2>2. PICK q : q = [pos \in a..N + 1 |-> IF pos = a THEN StringFrom(t, r, pos) ELSE r[pos]]
    OBVIOUS
  <2>3. \A pos \in a + 1..N + 1 : q[pos] = r[pos]
    <3>1. \A pos \in a + 1..N + 1 : pos # a /\ pos \in a..N + 1
      BY <1>2
    <3> QED BY <2>2, <3>1
  <2>4. ASSUME NEW pos \in a..N + 1 PROVE StringFrom(t, r, pos) = StringFrom(t, q, pos)
    <3>1. pos \in 1..N + 1 /\ \A i \in pos + 1..N + 1 : i \in a + 1..N + 1
      BY <1>2
    <3>2. \A i \in pos + 1..N + 1 : r[i] = q[i]
      BY <2>3, <3>1
    <3> QED BY <1>2, <3>1, <3>2, StringFromBehind
  <2>5. ASSUME NEW pos \in a..N + 1 PROVE q[pos] = StringFrom(t, q, pos)
    <3>1. pos = a \/ pos \in a + 1..N + 1
      BY <1>2
    <3>2. CASE pos = a
      BY <2>2, <2>4, <3>2
    <3>3. CASE pos \in a + 1..N + 1
      BY <2>1, <2>3, <2>4, <3>3
    <3> QED BY <3>1, <3>2, <3>3
  <2>6. q = [pos \in a..N + 1 |-> StringFrom(t, q, pos)]
    BY <2>2, <2>5
  <2>7. StringRead(t, a, q) /\ a - 1 \in 0..N /\ (a - 1) + 1 = a
    BY <1>1, <1>2, <2>6
  <2> QED BY <1>2, <2>7
<1>5. 0..N \subseteq S
  <2> HIDE DEF S
  <2> QED BY <1>2, <1>3, <1>4, InductionDown
<1>6. 0 \in S
  BY <1>2, <1>5
<1> QED BY <1>6

\* parse_string by what it reads from each place.
LEMMA StringIsRead ==
  ASSUME NEW t, Len(t) \in Nat
  PROVE  \E read : /\ parse_string(t) = read[1]
                   /\ \A pos \in 1..Len(t) + 1 : read[pos] = StringFrom(t, read, pos)
<1> DEFINE read == CHOOSE read : StringRead(t, 1, read)
<1>1. StringRead(t, 1, read)
  BY StringReadable
<1>2. parse_string(t) = read[1]
  BY DEF parse_string, StringRead
<1>3. \A pos \in 1..Len(t) + 1 : read[pos] = StringFrom(t, read, pos)
  <2> HIDE DEF read
  <2> QED BY <1>1 DEF StringRead, StringFrom
<1> QED BY <1>2, <1>3
-----------------------------------------------------------------------------
(* The digits of a code *)

LEMMA HexDigitRead ==
  ASSUME NEW n \in 0..15
  PROVE  HexDigit(n) \in Hex /\ HexDigit(n) \in Byte /\ HexValue(HexDigit(n)) = n
BY DEF HexDigit, HexValue, Hex, Digits, Byte

LEMMA DivMod16 ==
  ASSUME NEW u \in Nat
  PROVE  u = 16 * (u \div 16) + (u % 16) /\ u \div 16 \in Nat /\ u % 16 \in 0..15
OBVIOUS

\* The digits of a code.
First(u)  == u \div 4096
Second(u) == (u \div 256) % 16
Third(u)  == (u \div 16) % 16
Fourth(u) == u % 16

LEMMA DigitsOf ==
  ASSUME NEW u \in Units
  PROVE  /\ First(u) \in 0..15 /\ Second(u) \in 0..15 /\ Third(u) \in 0..15 /\ Fourth(u) \in 0..15
         /\ Sum(First(u), Second(u), Third(u), Fourth(u)) = u
<1>1. u \in Nat /\ u < 65536
  <2>1. PICK N \in Nat : N = 65535
    OBVIOUS
  <2>2. Units = 0..N
    BY <2>1 DEF Units
  <2>3. u \in Nat /\ u <= N
    BY <2>2
  <2> QED BY <2>1, <2>3
<1>2. PICK x \in Nat : x = u \div 16
  BY <1>1
<1>3. PICK y \in Nat : y = u \div 256
  BY <1>1
<1>4. PICK z \in Nat : z = u \div 4096
  BY <1>1
<1>5. x \div 16 = y
  BY <1>1, <1>2, <1>3
<1>6. y \div 16 = z
  BY <1>1, <1>3, <1>4
<1>7. z \in 0..15 /\ z = First(u)
  BY <1>1, <1>4 DEF First
<1>8. PICK a \in 0..15 : a = Fourth(u) /\ a = u % 16
  BY <1>1, DivMod16 DEF Fourth
<1>9. PICK b \in 0..15 : b = Third(u) /\ b = x % 16
  BY <1>2, DivMod16 DEF Third
<1>10. PICK c \in 0..15 : c = Second(u) /\ c = y % 16
  BY <1>3, DivMod16 DEF Second
<1>11. u = 16 * x + a
  BY <1>1, <1>2, <1>8, DivMod16
<1>12. x = 16 * y + b
  BY <1>5, <1>9, DivMod16
<1>13. y = 16 * z + c
  BY <1>6, <1>10, DivMod16
<1>14. Sum(z, c, b, a) = u
  BY <1>11, <1>12, <1>13, Zenon DEF Sum
<1> QED BY <1>7, <1>8, <1>9, <1>10, <1>14, Zenon

\* At a place is \u and the four digits of a code.
Says(t, pos, u) ==
  /\ t[pos] = Backslash /\ t[pos + 1] = LetterU
  /\ t[pos + 2] = HexDigit(First(u)) /\ t[pos + 3] = HexDigit(Second(u))
  /\ t[pos + 4] = HexDigit(Third(u)) /\ t[pos + 5] = HexDigit(Fourth(u))

LEMMA SaidIsRead ==
  ASSUME NEW t, Len(t) \in Nat, NEW pos \in 1..Len(t), pos + 5 <= Len(t), NEW u \in Units, Says(t, pos, u)
  PROVE  IsHex4(t, pos + 2) /\ Hex4(t, pos + 2) = u
<1>1. PICK d1 \in 0..15, d2 \in 0..15, d3 \in 0..15, d4 \in 0..15 :
        d1 = First(u) /\ d2 = Second(u) /\ d3 = Third(u) /\ d4 = Fourth(u) /\ Sum(d1, d2, d3, d4) = u
  <2>1. PICK d1, d2, d3, d4 : d1 = First(u) /\ d2 = Second(u) /\ d3 = Third(u) /\ d4 = Fourth(u)
    OBVIOUS
  <2>2. d1 \in 0..15 /\ d2 \in 0..15 /\ d3 \in 0..15 /\ d4 \in 0..15 /\ Sum(d1, d2, d3, d4) = u
    BY <2>1, DigitsOf, Zenon
  <2> QED BY <2>1, <2>2, Zenon
<1>2. t[pos + 2] = HexDigit(d1) /\ t[pos + 3] = HexDigit(d2) /\ t[pos + 4] = HexDigit(d3) /\ t[pos + 5] = HexDigit(d4)
  BY <1>1 DEF Says
<1>3. PICK p \in Int : p = pos + 2
  OBVIOUS
<1>4. t[p] = HexDigit(d1) /\ t[p + 1] = HexDigit(d2) /\ t[p + 2] = HexDigit(d3) /\ t[p + 3] = HexDigit(d4)
  <2>1. p + 1 = pos + 3 /\ p + 2 = pos + 4 /\ p + 3 = pos + 5
    BY <1>3
  <2> QED BY <1>2, <1>3, <2>1, Zenon
<1>5. IsHex4(t, p)
  <2>1. HexDigit(d1) \in Hex /\ HexDigit(d2) \in Hex /\ HexDigit(d3) \in Hex /\ HexDigit(d4) \in Hex
    BY HexDigitRead
  <2>2. p + 3 <= Len(t)
    BY <1>3
  <2>3. ASSUME NEW i \in 0..3 PROVE t[p + i] \in Hex
    <3>1. i = 0 \/ i = 1 \/ i = 2 \/ i = 3
      OBVIOUS
    <3>2. p + 0 = p
      OBVIOUS
    <3> QED BY <1>4, <2>1, <3>1, <3>2, Zenon
  <2> QED BY <2>2, <2>3 DEF IsHex4
<1>6. Hex4(t, p) = Sum(HexValue(t[p]), HexValue(t[p + 1]), HexValue(t[p + 2]), HexValue(t[p + 3]))
  BY Zenon DEF Hex4, Sum
<1>7. HexValue(t[p]) = d1 /\ HexValue(t[p + 1]) = d2 /\ HexValue(t[p + 2]) = d3 /\ HexValue(t[p + 3]) = d4
  BY <1>4, HexDigitRead, Zenon
<1>8. Hex4(t, p) = u
  BY <1>1, <1>6, <1>7, Zenon
<1> QED BY <1>3, <1>5, <1>8, Zenon

-----------------------------------------------------------------------------
(* The bytes of a code *)

TwoBytes(u)   == <<192 + u \div 64, 128 + (u % 64)>>
ThreeBytes(u) == <<224 + u \div 4096, 128 + ((u \div 64) % 64), 128 + (u % 64)>>
FourBytes(u)  == <<240 + u \div 262144, 128 + ((u \div 4096) % 64), 128 + ((u \div 64) % 64), 128 + (u % 64)>>

LEMMA InBytesAre ==
  ASSUME NEW u \in Nat
  PROVE  /\ InBytes(u, 1) = <<u>> /\ InBytes(u, 2) = TwoBytes(u)
         /\ InBytes(u, 3) = ThreeBytes(u) /\ InBytes(u, 4) = FourBytes(u)
<1>1. u \div 1 = u
  OBVIOUS
<1>2. Sextets[1] = 1 /\ Sextets[2] = 64 /\ Sextets[3] = 4096 /\ Sextets[4] = 262144
  BY DEF Sextets
<1>3. Leads[1] = 0 /\ Leads[2] = 192 /\ Leads[3] = 224 /\ Leads[4] = 240
  BY DEF Leads
<1> DEFINE at(n, i) == IF i = 1 THEN Leads[n] + (u \div Sextets[n])
                       ELSE 128 + ((u \div Sextets[n - i + 1]) % 64)
<1>4. \A n : InBytes(u, n) = [i \in 1..n |-> at(n, i)]
  BY DEF InBytes
<1>5. PICK x1 \in Int : x1 = 128 + (u % 64)
  OBVIOUS
<1>6. PICK x2 \in Int : x2 = 128 + ((u \div 64) % 64)
  OBVIOUS
<1>7. PICK x3 \in Int : x3 = 128 + ((u \div 4096) % 64)
  OBVIOUS
<1>8. PICK l2 \in Int : l2 = 192 + u \div 64
  OBVIOUS
<1>9. PICK l3 \in Int : l3 = 224 + u \div 4096
  OBVIOUS
<1>10. PICK l4 \in Int : l4 = 240 + u \div 262144
  OBVIOUS
<1>11. at(1, 1) = u
  BY <1>1, <1>2, <1>3
<1>12. at(2, 1) = l2 /\ at(3, 1) = l3 /\ at(4, 1) = l4
  BY <1>2, <1>3, <1>8, <1>9, <1>10
<1>13. at(2, 2) = x1 /\ at(3, 3) = x1 /\ at(4, 4) = x1
  <2>1. at(2, 2) = 128 + ((u \div 1) % 64) /\ at(3, 3) = 128 + ((u \div 1) % 64) /\ at(4, 4) = 128 + ((u \div 1) % 64)
    BY <1>2
  <2> QED BY <1>1, <1>5, <2>1
<1>14. at(3, 2) = x2 /\ at(4, 3) = x2
  BY <1>2, <1>6
<1>15. at(4, 2) = x3
  BY <1>2, <1>7
<1> HIDE DEF at
<1>16. /\ [i \in 1..1 |-> at(1, i)] = <<at(1, 1)>>
       /\ [i \in 1..2 |-> at(2, i)] = <<at(2, 1), at(2, 2)>>
       /\ [i \in 1..3 |-> at(3, i)] = <<at(3, 1), at(3, 2), at(3, 3)>>
       /\ [i \in 1..4 |-> at(4, i)] = <<at(4, 1), at(4, 2), at(4, 3), at(4, 4)>>
  OBVIOUS
<1>17. /\ InBytes(u, 1) = <<u>> /\ InBytes(u, 2) = <<l2, x1>>
       /\ InBytes(u, 3) = <<l3, x2, x1>> /\ InBytes(u, 4) = <<l4, x3, x2, x1>>
  BY <1>4, <1>11, <1>12, <1>13, <1>14, <1>15, <1>16, Zenon
<1>18. TwoBytes(u) = <<l2, x1>>
  BY <1>5, <1>8 DEF TwoBytes
<1>19. ThreeBytes(u) = <<l3, x2, x1>>
  BY <1>5, <1>6, <1>9 DEF ThreeBytes
<1>20. FourBytes(u) = <<l4, x3, x2, x1>>
  BY <1>5, <1>6, <1>7, <1>10 DEF FourBytes
<1> QED BY <1>17, <1>18, <1>19, <1>20, Zenon

\* The length that the bounds of the code make of a code, by those of UTF-8.
Length(u) == Needed(u) + IF u = 127 \/ u \in 256..2047 THEN 1 ELSE 0

LEMMA EncodedRight ==
  ASSUME NEW u \in Nat
  PROVE  Encoded(u) = InBytes(u, Length(u))
<1>1. CASE u < 127
  <2>1. Encoded(u) = <<u>> /\ Length(u) = 1
    BY <1>1 DEF Encoded, Length, Needed
  <2> QED BY <2>1, InBytesAre, Zenon
<1>2. CASE u >= 127 /\ u <= 255
  <2>1. Encoded(u) = TwoBytes(u) /\ Length(u) = 2
    BY <1>2 DEF Encoded, Length, Needed, TwoBytes
  <2> QED BY <2>1, InBytesAre, Zenon
<1>3. CASE u > 255 /\ u <= 65535
  <2>1. Encoded(u) = ThreeBytes(u) /\ Length(u) = 3
    BY <1>3 DEF Encoded, Length, Needed, ThreeBytes
  <2> QED BY <2>1, InBytesAre, Zenon
<1>4. CASE u > 65535
  <2>1. Encoded(u) = FourBytes(u) /\ Length(u) = 4
    BY <1>4 DEF Encoded, Length, Needed, FourBytes
  <2> QED BY <2>1, InBytesAre, Zenon
<1> QED BY <1>1, <1>2, <1>3, <1>4

-----------------------------------------------------------------------------
(* The escape of a code is read *)

LEMMA UnicodeSays ==
  ASSUME NEW u \in Units
  PROVE  Unicode(u) \in Seq(Int) /\ Len(Unicode(u)) = 6 /\ Says(Unicode(u), 1, u)
<1>1. PICK a \in Int, b \in Int, c \in Int, d \in Int :
        /\ a = HexDigit(First(u)) /\ b = HexDigit(Second(u))
        /\ c = HexDigit(Third(u)) /\ d = HexDigit(Fourth(u))
  <2>1. /\ First(u) \in 0..15 /\ Second(u) \in 0..15 /\ Third(u) \in 0..15 /\ Fourth(u) \in 0..15
    BY DigitsOf
  <2>2. \A n \in 0..15 : HexDigit(n) \in Int
    BY HexDigitRead DEF Byte
  <2> QED BY <2>1, <2>2, Zenon
<1>2. Unicode(u) = <<92, 117, a, b, c, d>>
  <2>1. Unicode(u) = <<Backslash, LetterU, HexDigit(First(u)), HexDigit(Second(u)),
                       HexDigit(Third(u)), HexDigit(Fourth(u))>>
    BY DEF Unicode, First, Second, Third, Fourth
  <2> QED BY <1>1, <2>1, Zenon DEF Backslash, LetterU
<1>3. PICK w : w = <<92, 117, a, b, c, d>>
  OBVIOUS
<1>4. /\ w \in Seq(Int) /\ Len(w) = 6 /\ w[1] = 92 /\ w[2] = 117
      /\ w[3] = a /\ w[4] = b /\ w[5] = c /\ w[6] = d
  BY <1>3
<1>5. Says(w, 1, u)
  <2>1. 1 + 1 = 2 /\ 1 + 2 = 3 /\ 1 + 3 = 4 /\ 1 + 4 = 5 /\ 1 + 5 = 6
    OBVIOUS
  <2> QED BY <1>1, <1>4, <2>1, Zenon DEF Says, Backslash, LetterU
<1> QED BY <1>2, <1>3, <1>4, <1>5, Zenon

\* An escape says the same at the place that it is put.
LEMMA SaysThere ==
  ASSUME NEW u, NEW w, Says(w, 1, u), NEW t, NEW pos \in Nat, \A i \in 0..5 : t[pos + i] = w[1 + i]
  PROVE  Says(t, pos, u)
<1>1. t[pos + 0] = w[1 + 0] /\ pos + 0 = pos /\ 1 + 0 = 1
  OBVIOUS
<1>2. t[pos + 1] = w[1 + 1] /\ t[pos + 2] = w[1 + 2] /\ t[pos + 3] = w[1 + 3]
      /\ t[pos + 4] = w[1 + 4] /\ t[pos + 5] = w[1 + 5]
  OBVIOUS
<1> QED BY <1>1, <1>2, Zenon DEF Says

LEMMA NoLetter ==
  ASSUME NEW t, NEW u, Says(t, 1, u)
  PROVE  t[1] = Backslash /\ t[1 + 1] = LetterU /\ t[1 + 1] \notin DOMAIN Escapes
<1>1. LetterU \notin DOMAIN Escapes
  BY DEF LetterU, Escapes
<1> QED BY <1>1, Zenon DEF Says

LEMMA EscapeOfOne ==
  ASSUME NEW t, Len(t) \in Nat, 7 <= Len(t), NEW u \in Units, u \notin High, Says(t, 1, u)
  PROVE  Escape(t, 1) = [ok |-> TRUE, bytes |-> Encoded(u), length |-> 6]
<1>1. IsHex4(t, 1 + 2) /\ Hex4(t, 1 + 2) = u
  <2>1. 1 \in 1..Len(t) /\ 1 + 5 <= Len(t)
    OBVIOUS
  <2> QED BY <2>1, SaidIsRead
<1>2. 1 + 1 <= Len(t)
  OBVIOUS
<1> QED BY <1>1, <1>2, NoLetter, Zenon DEF Escape

LEMMA UnitIs ==
  ASSUME NEW x \in Int, 0 <= x, x <= 65535
  PROVE  x \in Units
<1>1. PICK N \in Int : N = 65535
  OBVIOUS
<1>2. 0 <= x /\ x <= N
  BY <1>1
<1>3. x \in 0..N
  BY <1>2
<1>4. PICK I : I = 0..N
  OBVIOUS
<1>5. I = Units
  BY <1>1, <1>4 DEF Units
<1> QED BY <1>3, <1>4, <1>5

LEMMA UnitsAre == High \subseteq Units /\ Low \subseteq Units
<1>1. ASSUME NEW h \in High PROVE h \in Units
  <2>1. h \in Int /\ 0 <= h /\ h <= 65535
    BY DEF High
  <2> QED BY <2>1, UnitIs
<1>2. ASSUME NEW l \in Low PROVE l \in Units
  <2>1. l \in Int /\ 0 <= l /\ l <= 65535
    BY DEF Low
  <2> QED BY <2>1, UnitIs
<1> QED BY <1>1, <1>2

LEMMA EscapeOfTwo ==
  ASSUME NEW t, Len(t) \in Nat, 13 <= Len(t), NEW h \in High, NEW l \in Low, Says(t, 1, h), Says(t, 7, l)
  PROVE  Escape(t, 1) = [ok |-> TRUE, length |-> 12, bytes |-> Encoded(JoinedPair(h, l))]
<1>1. h \in Units /\ l \in Units
  BY UnitsAre
<1>2. IsHex4(t, 1 + 2) /\ Hex4(t, 1 + 2) = h
  <2>1. 1 \in 1..Len(t) /\ 1 + 5 <= Len(t)
    OBVIOUS
  <2> QED BY <1>1, <2>1, SaidIsRead
<1>3. IsHex4(t, 1 + 8) /\ Hex4(t, 1 + 8) = l
  <2>1. 7 \in 1..Len(t) /\ 7 + 5 <= Len(t) /\ 7 + 2 = 1 + 8
    OBVIOUS
  <2> QED BY <1>1, <2>1, SaidIsRead
<1>4. 1 + 1 <= Len(t) /\ 1 + 6 <= Len(t) /\ 1 + 7 <= Len(t) /\ 1 + 6 = 7 /\ 1 + 7 = 7 + 1
  OBVIOUS
<1>5. t[1 + 6] = Backslash /\ t[1 + 7] = LetterU
  BY <1>4, Zenon DEF Says
<1> QED BY <1>2, <1>3, <1>4, <1>5, NoLetter, Zenon DEF Escape

\* A text that is one escape and a quote.
LEMMA EscapeAlone ==
  ASSUME NEW t, Len(t) \in Nat, NEW b \in Seq(Int), NEW n \in 2..12,
         t[1] = Backslash, Escape(t, 1).ok, Escape(t, 1).bytes = b, Escape(t, 1).length = n,
         Len(t) = n + 1, t[n + 1] = Quote
  PROVE  parse_string(t) = [ok |-> TRUE, bytes |-> b]
<1>1. PICK read : /\ parse_string(t) = read[1]
                  /\ \A pos \in 1..Len(t) + 1 : read[pos] = StringFrom(t, read, pos)
  BY StringIsRead
<1>2. 1 \in 1..Len(t) + 1 /\ n + 1 \in 1..Len(t) + 1 /\ ~(1 > Len(t)) /\ ~(n + 1 > Len(t)) /\ 1 + n = n + 1
  OBVIOUS
<1>3. Quote # 0 /\ Backslash # 0 /\ Backslash # Quote
  BY DEF Quote, Backslash
<1>4. PICK q : q = [ok |-> TRUE, bytes |-> <<>>]
  OBVIOUS
<1>5. read[n + 1] = q
  BY <1>1, <1>2, <1>3, <1>4, Zenon DEF StringFrom
<1>6. read[1] = Behind(b, q)
  BY <1>1, <1>2, <1>3, <1>5, Zenon DEF StringFrom
<1>7. Behind(b, q) = [ok |-> TRUE, bytes |-> b \o <<>>]
  <2>1. q.ok = TRUE /\ q.bytes = <<>>
    BY <1>4
  <2> QED BY <2>1, Zenon DEF Behind
<1>8. b \o <<>> = b
  BY ConcatEmptySeq
<1> QED BY <1>1, <1>6, <1>7, <1>8, Zenon
LEMMA QuoteBehind ==
  ASSUME NEW w \in Seq(Int), NEW n \in Nat, Len(w) = n
  PROVE  \E t : /\ t = Append(w, Quote) /\ Len(t) = n + 1 /\ t[n + 1] = Quote
                /\ \A i \in 1..n : t[i] = w[i]
<1>1. Quote \in Int
  BY DEF Quote
<1>2. PICK t : t = Append(w, Quote)
  OBVIOUS
<1>3. Len(t) = Len(w) + 1 /\ t[Len(w) + 1] = Quote /\ \A i \in 1..Len(w) : t[i] = w[i]
  BY <1>1, <1>2, AppendProperties
<1>4. Len(t) = n + 1 /\ t[n + 1] = Quote /\ \A i \in 1..n : t[i] = w[i]
  BY <1>3, Zenon
<1> QED BY <1>2, <1>4, Zenon

LEMMA TwoOfSix ==
  ASSUME NEW w \in Seq(Int), NEW x \in Seq(Int), Len(w) = 6, Len(x) = 6
  PROVE  \E y \in Seq(Int) : /\ y = w \o x /\ Len(y) = 12
                             /\ \A i \in 0..5 : y[1 + i] = w[1 + i] /\ y[7 + i] = x[1 + i]
<1>1. PICK y : y = w \o x
  OBVIOUS
<1>2. /\ y \in Seq(Int) /\ Len(y) = Len(w) + Len(x)
      /\ \A i \in 1..Len(w) + Len(x) : y[i] = IF i <= Len(w) THEN w[i] ELSE x[i - Len(w)]
  BY <1>1, ConcatProperties, Zenon
<1>3. Len(w) + Len(x) = 12
  OBVIOUS
<1>4. \A i \in 1..12 : y[i] = IF i <= 6 THEN w[i] ELSE x[i - 6]
  BY <1>2, <1>3
<1>5. \A i \in 0..5 : /\ 1 + i \in 1..12 /\ 1 + i <= 6
                       /\ 7 + i \in 1..12 /\ ~(7 + i <= 6) /\ 7 + i - 6 = 1 + i
  OBVIOUS
<1>6. \A i \in 0..5 : y[1 + i] = w[1 + i] /\ y[7 + i] = x[1 + i]
  <2> SUFFICES ASSUME NEW i \in 0..5 PROVE y[1 + i] = w[1 + i] /\ y[7 + i] = x[1 + i]
    OBVIOUS
  <2>1. PICK j \in 1..12 : j = 1 + i /\ j <= 6
    BY <1>5
  <2>2. PICK k \in 1..12 : k = 7 + i /\ ~(k <= 6) /\ k - 6 = 1 + i
    BY <1>5
  <2>3. y[j] = w[j]
    BY <1>4, <2>1
  <2>4. y[k] = x[k - 6]
    BY <1>4, <2>2
  <2> QED BY <2>1, <2>2, <2>3, <2>4
<1> QED BY <1>1, <1>2, <1>3, <1>6, Zenon

\* The text of a code of the first plane, with the quote behind it.
LEMMA FirstPlane ==
  ASSUME NEW u \in Units, u \notin High
  PROVE  parse_string(Append(Unicode(u), Quote)) = [ok |-> TRUE, bytes |-> Encoded(u)]
<1>1. PICK w : w = Unicode(u)
  OBVIOUS
<1>2. w \in Seq(Int) /\ Len(w) = 6
  BY <1>1, UnicodeSays
<1>3. PICK t : t = Append(w, Quote) /\ Len(t) = 6 + 1 /\ t[6 + 1] = Quote /\ \A i \in 1..6 : t[i] = w[i]
  <2>1. 6 \in Nat
    OBVIOUS
  <2> QED BY <1>2, <2>1, QuoteBehind, Zenon
<1>4. Len(t) = 7 /\ Len(t) \in Nat /\ t[7] = Quote
  BY <1>3
<1>5. Says(t, 1, u)
  <2>1. \A i \in 0..5 : 1 + i \in 1..6
    OBVIOUS
  <2>2. \A i \in 0..5 : t[1 + i] = w[1 + i]
    BY <1>3, <2>1, Zenon
  <2>3. Says(w, 1, u)
    BY <1>1, UnicodeSays
  <2> QED BY <2>2, <2>3, SaysThere
<1>6. Escape(t, 1) = [ok |-> TRUE, bytes |-> Encoded(u), length |-> 6]
  <2>1. 7 <= Len(t)
    BY <1>4
  <2> QED BY <1>4, <1>5, <2>1, EscapeOfOne, Zenon
<1>7. PICK b \in Seq(Int) : b = Encoded(u)
  <2>1. u \in Nat
    BY DEF Units
  <2> QED BY <2>1, EncodedIs, Zenon
<1>8. parse_string(t) = [ok |-> TRUE, bytes |-> b]
  <2>1. t[1] = Backslash
    BY <1>5 DEF Says
  <2>2. PICK e : e = [ok |-> TRUE, bytes |-> b, length |-> 6]
    OBVIOUS
  <2>3. e.ok /\ e.bytes = b /\ e.length = 6
    BY <2>2
  <2>5. e = Escape(t, 1)
    BY <1>6, <1>7, <2>2, Zenon
  <2>4. 6 \in 2..12 /\ 6 + 1 = 7 /\ Len(t) \in Nat
    BY <1>4
  <2> QED BY <1>4, <2>1, <2>3, <2>4, <2>5, EscapeAlone
<1> QED BY <1>1, <1>3, <1>7, <1>8, Zenon

\* The text of two escapes, a surrogate pair, with the quote behind it.
LEMMA OtherPlanes ==
  ASSUME NEW h \in High, NEW l \in Low
  PROVE  parse_string(Append(Unicode(h) \o Unicode(l), Quote)) =
           [ok |-> TRUE, bytes |-> Encoded(JoinedPair(h, l))]
<1>1. PICK w : w = Unicode(h)
  OBVIOUS
<1>2. PICK x : x = Unicode(l)
  OBVIOUS
<1>3. h \in Units /\ l \in Units
  BY UnitsAre
<1>4. w \in Seq(Int) /\ Len(w) = 6 /\ x \in Seq(Int) /\ Len(x) = 6
  BY <1>1, <1>2, <1>3, UnicodeSays
<1>5. PICK y \in Seq(Int) : /\ y = w \o x /\ Len(y) = 12
                            /\ \A i \in 0..5 : y[1 + i] = w[1 + i] /\ y[7 + i] = x[1 + i]
  BY <1>4, TwoOfSix
<1>6. PICK t : t = Append(y, Quote) /\ Len(t) = 12 + 1 /\ t[12 + 1] = Quote /\ \A i \in 1..12 : t[i] = y[i]
  <2>1. 12 \in Nat
    OBVIOUS
  <2> QED BY <1>5, <2>1, QuoteBehind, Zenon
<1>7. Len(t) = 13 /\ Len(t) \in Nat /\ t[13] = Quote
  BY <1>6
<1>8. Says(t, 1, h)
  <2>1. \A i \in 0..5 : 1 + i \in 1..12
    OBVIOUS
  <2>2. \A i \in 0..5 : t[1 + i] = w[1 + i]
    BY <1>5, <1>6, <2>1, Zenon
  <2>3. Says(w, 1, h)
    BY <1>1, <1>3, UnicodeSays
  <2> QED BY <2>2, <2>3, SaysThere
<1>9. Says(t, 7, l)
  <2>1. \A i \in 0..5 : 7 + i \in 1..12
    OBVIOUS
  <2>2. \A i \in 0..5 : t[7 + i] = x[1 + i]
    BY <1>5, <1>6, <2>1, Zenon
  <2>3. Says(x, 1, l)
    BY <1>2, <1>3, UnicodeSays
  <2> QED BY <2>2, <2>3, SaysThere
<1>10. Escape(t, 1) = [ok |-> TRUE, length |-> 12, bytes |-> Encoded(JoinedPair(h, l))]
  <2>1. 13 <= Len(t)
    BY <1>7
  <2> QED BY <1>7, <1>8, <1>9, <2>1, EscapeOfTwo, Zenon
<1>11. PICK b \in Seq(Int) : b = Encoded(JoinedPair(h, l))
  <2>1. JoinedPair(h, l) \in Nat
    BY DEF JoinedPair, High, Low
  <2> QED BY <2>1, EncodedIs, Zenon
<1>12. parse_string(t) = [ok |-> TRUE, bytes |-> b]
  <2>1. t[1] = Backslash
    BY <1>8 DEF Says
  <2>2. PICK e : e = [ok |-> TRUE, length |-> 12, bytes |-> b]
    OBVIOUS
  <2>3. e.ok /\ e.bytes = b /\ e.length = 12
    BY <2>2
  <2>5. e = Escape(t, 1)
    BY <1>10, <1>11, <2>2, Zenon
  <2>4. 12 \in 2..12 /\ 12 + 1 = 13 /\ Len(t) \in Nat
    BY <1>7
  <2> QED BY <1>7, <2>1, <2>3, <2>4, <2>5, EscapeAlone
<1> QED BY <1>1, <1>2, <1>5, <1>6, <1>11, <1>12, Zenon

\* The pair that stands for a code behind the first plane.
LEMMA PairIsJoined ==
  ASSUME NEW v \in Nat, v < 1048576
  PROVE  /\ 55296 + (v \div 1024) \in High /\ 56320 + (v % 1024) \in Low
         /\ JoinedPair(55296 + (v \div 1024), 56320 + (v % 1024)) = v + 65536
<1>1. PICK q \in Int : q = v \div 1024
  OBVIOUS
<1>2. PICK r \in Int : r = v % 1024
  OBVIOUS
<1>3. v = q * 1024 + r /\ 0 <= q /\ q <= 1023 /\ 0 <= r /\ r <= 1023
  BY <1>1, <1>2
<1>4. 55296 + q \in High /\ 56320 + r \in Low
  BY <1>3 DEF High, Low
<1>5. JoinedPair(55296 + q, 56320 + r) = v + 65536
  <2>1. (55296 + q) - 55296 = q /\ (56320 + r) - 56320 = r
    BY <1>3
  <2>2. JoinedPair(55296 + q, 56320 + r) = q * 1024 + r + 65536
    BY <2>1 DEF JoinedPair
  <2> QED BY <1>3, <2>2
<1> QED BY <1>1, <1>2, <1>4, <1>5

\* The escape of a code is read as its bytes.
LEMMA WrittenIsRead ==
  ASSUME NEW u, CodePoint(u)
  PROVE  parse_string(Append(Written(u), Quote)) = [ok |-> TRUE, bytes |-> InBytes(u, Length(u))]
<1>1. u \in Nat /\ u <= 1114111 /\ u \notin High /\ u \notin Low
  BY DEF CodePoint
<1>2. Encoded(u) = InBytes(u, Length(u))
  BY <1>1, EncodedRight
<1>3. CASE u < 65536
  <2>1. u \in Units
    BY <1>1, <1>3, UnitIs
  <2>2. Written(u) = Unicode(u)
    BY <1>3 DEF Written
  <2>3. parse_string(Append(Unicode(u), Quote)) = [ok |-> TRUE, bytes |-> Encoded(u)]
    BY <1>1, <2>1, FirstPlane
  <2> HIDE DEF CodePoint
  <2> QED BY <1>2, <2>2, <2>3
<1>4. CASE u >= 65536
  <2>1. PICK v \in Nat : v = u - 65536
    BY <1>1, <1>4
  <2>0. v < 1048576
    BY <1>1, <2>1
  <2>2. PICK h \in High : h = 55296 + (v \div 1024)
    BY <2>0, PairIsJoined
  <2>3. PICK l \in Low : l = 56320 + (v % 1024)
    BY <2>0, PairIsJoined
  <2>4. JoinedPair(h, l) = u
    <3>1. JoinedPair(h, l) = v + 65536
      BY <2>0, <2>2, <2>3, PairIsJoined
    <3> QED BY <1>1, <2>1, <3>1
  <2>5. Written(u) = Unicode(h) \o Unicode(l)
    BY <1>1, <1>4, <2>1, <2>2, <2>3 DEF Written
  <2>6. parse_string(Append(Unicode(h) \o Unicode(l), Quote)) = [ok |-> TRUE, bytes |-> Encoded(u)]
    BY <2>4, OtherPlanes
  <2> QED BY <1>2, <2>5, <2>6
<1> QED BY <1>1, <1>3, <1>4
-----------------------------------------------------------------------------
(* What a value is read as *)

Special == {Quote, Backslash, 0}

\* What is read from a place is as long as the rest of the text, but for the
\* quote at its end; and shorter if there is anything to undo within it.
Fits(t, pos, r) ==
  /\ r.ok \in BOOLEAN /\ r.bytes \in Seq(Int) /\ r = [ok |-> r.ok, bytes |-> r.bytes]
  /\ r.ok => /\ pos <= Len(t) /\ Len(r.bytes) <= Len(t) - pos
             /\ (\E i \in pos..Len(t) - 1 : t[i] \in Special) => Len(r.bytes) < Len(t) - pos

LEMMA BehindFits ==
  ASSUME NEW t \in Seq(Int), NEW pos \in 1..Len(t), NEW b \in Seq(Int), NEW n \in 1..12,
         pos + n <= Len(t) + 1, NEW r, Fits(t, pos + n, r),
         \/ Len(b) < n
         \/ Len(b) = n /\ n = 1 /\ t[pos] \notin Special
  PROVE  Fits(t, pos, Behind(b, r))
<1>1. /\ r.ok \in BOOLEAN /\ r.bytes \in Seq(Int)
      /\ r.ok => pos + n <= Len(t) /\ Len(r.bytes) <= Len(t) - (pos + n)
  BY DEF Fits
<1>2. PICK c : c = b \o r.bytes
  OBVIOUS
<1>3. c \in Seq(Int) /\ Len(c) = Len(b) + Len(r.bytes)
  <2>1. PICK x \in Seq(Int) : x = r.bytes
    BY <1>1
  <2> QED BY <1>2, <2>1, ConcatProperties
<1>4. PICK q : q = Behind(b, r)
  OBVIOUS
<1>5. q = [ok |-> r.ok, bytes |-> c]
  BY <1>2, <1>4, Zenon DEF Behind
<1>6. q.ok = r.ok /\ q.bytes = c /\ q = [ok |-> q.ok, bytes |-> q.bytes]
  BY <1>5
<1>7. ASSUME r.ok PROVE pos <= Len(t) /\ Len(c) <= Len(t) - pos
  <2>1. PICK m \in Nat : m = Len(r.bytes)
    BY <1>1
  <2>2. m <= Len(t) - (pos + n) /\ pos + n <= Len(t)
    BY <1>1, <1>7, <2>1
  <2>3. Len(c) = Len(b) + m /\ Len(b) <= n /\ Len(b) \in Nat /\ Len(t) \in Nat
    BY <1>3, <2>1
  <2> QED BY <2>2, <2>3
<1>8. ASSUME r.ok, NEW i \in pos..Len(t) - 1, t[i] \in Special PROVE Len(c) < Len(t) - pos
  <2>1. PICK m \in Nat : m = Len(r.bytes)
    BY <1>1
  <2>2. m <= Len(t) - (pos + n) /\ pos + n <= Len(t)
    BY <1>1, <1>8, <2>1
  <2>3. Len(c) = Len(b) + m /\ Len(b) \in Nat /\ Len(t) \in Nat
    BY <1>3, <2>1
  <2>4. CASE Len(b) < n
    BY <2>2, <2>3, <2>4
  <2>5. CASE Len(b) = n /\ n = 1 /\ t[pos] \notin Special
    <3>1. i # pos
      BY <1>8, <2>5
    <3>2. i \in pos + n..Len(t) - 1
      BY <2>3, <2>5, <3>1
    <3>3. m < Len(t) - (pos + n)
      BY <1>8, <2>1, <3>2 DEF Fits
    <3> QED BY <2>2, <2>3, <2>5, <3>3
  <2> QED BY <2>4, <2>5
<1>9. Fits(t, pos, q)
  BY <1>1, <1>3, <1>6, <1>7, <1>8 DEF Fits
<1> QED BY <1>4, <1>9

\* It holds of each place if it holds of the places behind it.
LEMMA ReadFits ==
  ASSUME NEW t \in Seq(Int), NEW pos \in 1..Len(t) + 1, NEW read,
         \A i \in pos + 1..Len(t) + 1 : Fits(t, i, read[i])
  PROVE  Fits(t, pos, StringFrom(t, read, pos))
<1>1. Len(t) \in Nat
  OBVIOUS
<1>2. Fits(t, pos, Unread)
  BY DEF Fits, Unread
<1>3. CASE pos > Len(t) \/ t[pos] = 0
  BY <1>2, <1>3 DEF StringFrom
<1>4. CASE pos \in 1..Len(t) /\ t[pos] = Quote
  <2>1. PICK q : q = [ok |-> TRUE, bytes |-> <<>>]
    OBVIOUS
  <2>2. q.ok = TRUE /\ q.bytes = <<>> /\ q.bytes \in Seq(Int) /\ Len(q.bytes) = 0
    BY <2>1
  <2>3. q = [ok |-> q.ok, bytes |-> q.bytes]
    BY <2>1
  <2>4. ASSUME NEW i \in pos..Len(t) - 1 PROVE 0 < Len(t) - pos
    BY <1>1
  <2>5. pos <= Len(t) /\ 0 <= Len(t) - pos
    BY <1>1, <1>4
  <2>6. Fits(t, pos, q)
    BY <2>2, <2>3, <2>4, <2>5 DEF Fits
  <2>7. StringFrom(t, read, pos) = q
    BY <1>1, <1>4, <2>1 DEF StringFrom, Quote
  <2> QED BY <2>6, <2>7
<1>5. CASE pos \in 1..Len(t) /\ t[pos] # 0 /\ t[pos] # Quote /\ t[pos] # Backslash
  <2>1. PICK b : b = <<t[pos]>>
    OBVIOUS
  <2>2. b \in Seq(Int) /\ Len(b) = 1
    <3>1. PICK x \in Int : x = t[pos]
      BY <1>5
    <3> QED BY <2>1, <3>1
  <2>3. pos + 1 \in pos + 1..Len(t) + 1 /\ pos + 1 <= Len(t) + 1
    BY <1>1, <1>5
  <2>4. Fits(t, pos + 1, read[pos + 1])
    BY <2>3
  <2>5. t[pos] \notin Special
    BY <1>5 DEF Special
  <2>6. Fits(t, pos, Behind(b, read[pos + 1]))
    <3>1. 1 \in 1..12 /\ pos \in 1..Len(t)
      BY <1>5
    <3> QED BY <2>2, <2>3, <2>4, <2>5, <3>1, BehindFits
  <2>7. StringFrom(t, read, pos) = Behind(b, read[pos + 1])
    <3>1. ~(pos > Len(t))
      BY <1>1, <1>5
    <3> QED BY <1>5, <2>1, <3>1, Zenon DEF StringFrom
  <2> QED BY <2>6, <2>7
<1>6. CASE pos \in 1..Len(t) /\ t[pos] = Backslash
  <2>1. PICK e : e = Escape(t, pos)
    OBVIOUS
  <2>2. Goes(t, pos, e)
    BY <1>1, <1>6, <2>1, EscapeGoes
  <2>3. ~(pos > Len(t)) /\ t[pos] # 0 /\ t[pos] # Quote
    BY <1>1, <1>6 DEF Backslash, Quote
  <2>4. CASE ~e.ok
    <3>1. StringFrom(t, read, pos) = Unread
      BY <1>6, <2>1, <2>3, <2>4, Zenon DEF StringFrom
    <3> QED BY <1>2, <3>1
  <2>5. CASE e.ok
    <3>1. PICK n \in 2..12 : n = e.length /\ pos + n <= Len(t) + 1
      BY <2>2, <2>5 DEF Goes
    <3>2. PICK b \in Seq(Int) : b = e.bytes /\ Len(b) < n
      BY <2>2, <2>5, <3>1 DEF Goes
    <3>3. pos + n \in pos + 1..Len(t) + 1 /\ n \in 1..12
      <4>1. n \in 2..12 /\ pos + n <= Len(t) + 1
        BY <3>1
      <4>2. n \in Int /\ 1 <= n /\ n <= 12
        BY <4>1
      <4> QED BY <1>1, <4>1, <4>2
    <3>4. Fits(t, pos + n, read[pos + n])
      BY <3>3
    <3>5. Fits(t, pos, Behind(b, read[pos + n]))
      BY <1>6, <3>1, <3>2, <3>3, <3>4, BehindFits
    <3>6. StringFrom(t, read, pos) = Behind(b, read[pos + n])
      BY <1>6, <2>1, <2>3, <2>5, <3>1, <3>2, Zenon DEF StringFrom
    <3> QED BY <3>5, <3>6
  <2> QED BY <2>4, <2>5
<1> QED BY <1>1, <1>3, <1>4, <1>5, <1>6

LEMMA ValueFits ==
  ASSUME NEW t \in Seq(Int)
  PROVE  Fits(t, 1, parse_string(t))
<1>1. PICK N \in Nat : N = Len(t)
  OBVIOUS
<1>2. PICK read : /\ parse_string(t) = read[1]
                  /\ \A pos \in 1..N + 1 : read[pos] = StringFrom(t, read, pos)
  BY <1>1, StringIsRead
<1> DEFINE S == {a \in 0..N : \A pos \in a + 1..N + 1 : Fits(t, pos, read[pos])}
<1>3. ASSUME NEW pos \in 1..N + 1, \A i \in pos + 1..N + 1 : Fits(t, i, read[i])
      PROVE  Fits(t, pos, read[pos])
  <2>1. Fits(t, pos, StringFrom(t, read, pos))
    BY <1>1, <1>3, ReadFits
  <2> QED BY <1>2, <2>1
<1>4. N \in S
  <2>1. \A pos \in N + 1..N + 1 : pos = N + 1
    OBVIOUS
  <2>2. \A i \in (N + 1) + 1..N + 1 : FALSE
    OBVIOUS
  <2>3. Fits(t, N + 1, read[N + 1])
    BY <1>3, <2>2
  <2> QED BY <2>1, <2>3
<1>5. ASSUME NEW a \in 1..N, a \in S PROVE a - 1 \in S
  <2>1. \A i \in a + 1..N + 1 : Fits(t, i, read[i])
    BY <1>5
  <2>2. Fits(t, a, read[a])
    BY <1>3, <2>1
  <2>3. ASSUME NEW pos \in (a - 1) + 1..N + 1 PROVE Fits(t, pos, read[pos])
    <3>1. pos = a \/ pos \in a + 1..N + 1
      OBVIOUS
    <3> QED BY <2>1, <2>2, <3>1
  <2> QED BY <2>3
<1>6. 0..N \subseteq S
  <2> HIDE DEF S
  <2> QED BY <1>4, <1>5, InductionDown
<1>7. 0 \in S /\ 1 \in 0 + 1..N + 1
  <2>1. 0 \in 0..N /\ 1 \in 0 + 1..N + 1
    OBVIOUS
  <2> HIDE DEF S
  <2> QED BY <1>6, <2>1
<1>8. Fits(t, 1, read[1])
  BY <1>7
<1> QED BY <1>2, <1>8
\* A text with nothing to undo is read as it is, up to the quote at its end.
Literal(t) == t[Len(t)] = Quote /\ \A i \in 1..Len(t) - 1 : t[i] \notin Special

Copies(t, pos, r) ==
  /\ r.ok = TRUE /\ r.bytes \in Seq(Int) /\ r = [ok |-> r.ok, bytes |-> r.bytes]
  /\ Len(r.bytes) = Len(t) - pos
  /\ \A i \in 1..Len(t) - pos : r.bytes[i] = t[pos + i - 1]

LEMMA BehindCopies ==
  ASSUME NEW t \in Seq(Int), NEW pos \in 1..Len(t) - 1, NEW r, Copies(t, pos + 1, r)
  PROVE  Copies(t, pos, Behind(<<t[pos]>>, r))
<1>1. PICK x \in Int : x = t[pos]
  OBVIOUS
<1>2. PICK b \in Seq(Int) : b = <<x>> /\ Len(b) = 1 /\ b[1] = x
  <2>1. PICK b : b = <<x>>
    OBVIOUS
  <2>2. b \in Seq(Int) /\ Len(b) = 1 /\ b[1] = x
    BY <2>1
  <2> QED BY <2>1, <2>2
<1>3. PICK y \in Seq(Int) : y = r.bytes
  BY DEF Copies
<1>4. PICK m \in Nat : m = Len(t) - pos
  <2>1. Len(t) \in Nat /\ pos <= Len(t) - 1
    OBVIOUS
  <2>2. Len(t) - pos \in Nat
    BY <2>1
  <2> QED BY <2>2
<1>5. Len(y) = m - 1
  BY <1>3, <1>4 DEF Copies
<1>6. \A i \in 1..m - 1 : y[i] = t[pos + i]
  <2> SUFFICES ASSUME NEW i \in 1..m - 1 PROVE y[i] = t[pos + i]
    OBVIOUS
  <2>1. i \in 1..Len(t) - (pos + 1) /\ (pos + 1) + i - 1 = pos + i
    BY <1>4
  <2> QED BY <1>3, <2>1 DEF Copies
<1>7. PICK c : c = b \o y
  OBVIOUS
<1>8. /\ c \in Seq(Int) /\ Len(c) = Len(b) + Len(y)
      /\ \A i \in 1..Len(b) + Len(y) : c[i] = IF i <= Len(b) THEN b[i] ELSE y[i - Len(b)]
  BY <1>7, ConcatProperties, Zenon
<1>9. Len(c) = m /\ \A i \in 1..m : c[i] = IF i <= 1 THEN b[i] ELSE y[i - 1]
  BY <1>2, <1>5, <1>8
<1>10. ASSUME NEW i \in 1..m PROVE c[i] = t[pos + i - 1]
  <2>1. CASE i = 1
    <3>1. c[1] = x /\ pos + 1 - 1 = pos
      BY <1>2, <1>9, <2>1
    <3> QED BY <1>1, <2>1, <3>1
  <2>2. CASE i # 1
    <3>1. i - 1 \in 1..m - 1 /\ ~(i <= 1) /\ pos + (i - 1) = pos + i - 1
      BY <2>2
    <3>2. c[i] = y[i - 1]
      BY <1>9, <3>1
    <3>3. y[i - 1] = t[pos + (i - 1)]
      BY <1>6, <3>1
    <3> QED BY <3>1, <3>2, <3>3
  <2> QED BY <2>1, <2>2
<1>11. PICK q : q = Behind(<<t[pos]>>, r)
  OBVIOUS
<1>12. q = [ok |-> r.ok, bytes |-> c]
  BY <1>1, <1>2, <1>3, <1>7, <1>11, Zenon DEF Behind
<1>13. q.ok = TRUE /\ q.bytes = c /\ q = [ok |-> q.ok, bytes |-> q.bytes]
  <2>1. r.ok = TRUE
    BY DEF Copies
  <2> QED BY <1>12, <2>1
<1>14. Copies(t, pos, q)
  BY <1>4, <1>8, <1>9, <1>10, <1>13 DEF Copies
<1> QED BY <1>11, <1>14

LEMMA LiteralIsRead ==
  ASSUME NEW t \in Seq(Int), t # <<>>, Literal(t)
  PROVE  Copies(t, 1, parse_string(t))
<1>1. PICK N \in Nat : Len(t) = N + 1
  OBVIOUS
<1>2. PICK read : /\ parse_string(t) = read[1]
                  /\ \A pos \in 1..(N + 1) + 1 : read[pos] = StringFrom(t, read, pos)
  BY <1>1, StringIsRead
<1> DEFINE S == {a \in 0..N : Copies(t, a + 1, read[a + 1])}
<1>3. N \in S
  <2>1. PICK q : q = [ok |-> TRUE, bytes |-> <<>>]
    OBVIOUS
  <2>2. q.ok = TRUE /\ q.bytes = <<>> /\ q = [ok |-> q.ok, bytes |-> q.bytes]
    BY <2>1
  <2>3. q.bytes \in Seq(Int) /\ Len(q.bytes) = 0 /\ Len(t) - (N + 1) = 0
    BY <1>1, <2>2
  <2>4. Copies(t, N + 1, q)
    <3>1. \A i \in 1..0 : FALSE
      OBVIOUS
    <3> QED BY <2>2, <2>3, <3>1 DEF Copies
  <2>5. t[N + 1] = Quote /\ Quote # 0 /\ ~(N + 1 > Len(t)) /\ N + 1 \in 1..(N + 1) + 1
    BY <1>1 DEF Literal, Quote
  <2>6. read[N + 1] = q
    BY <1>2, <2>1, <2>5, Zenon DEF StringFrom
  <2> QED BY <2>4, <2>6
<1>4. ASSUME NEW a \in 1..N, a \in S PROVE a - 1 \in S
  <2>1. Copies(t, a + 1, read[a + 1])
    BY <1>4
  <2>2. a \in 1..Len(t) - 1 /\ ~(a > Len(t)) /\ a \in 1..(N + 1) + 1
    BY <1>1
  <2>3. t[a] \notin Special
    BY <2>2 DEF Literal
  <2>4. t[a] # 0 /\ t[a] # Quote /\ t[a] # Backslash
    BY <2>3 DEF Special
  <2>5. read[a] = Behind(<<t[a]>>, read[a + 1])
    BY <1>2, <2>2, <2>4, Zenon DEF StringFrom
  <2>6. Copies(t, a, read[a])
    BY <2>1, <2>2, <2>5, BehindCopies
  <2>7. a - 1 \in 0..N /\ (a - 1) + 1 = a
    OBVIOUS
  <2> QED BY <2>6, <2>7
<1>5. 0..N \subseteq S
  <2> HIDE DEF S
  <2> QED BY <1>3, <1>4, InductionDown
<1>6. 0 \in S /\ 0 + 1 = 1
  <2>1. 0 \in 0..N /\ 0 + 1 = 1
    OBVIOUS
  <2> HIDE DEF S
  <2> QED BY <1>5, <2>1
<1>7. Copies(t, 0 + 1, read[0 + 1])
  BY <1>6
<1> QED BY <1>2, <1>6, <1>7
-----------------------------------------------------------------------------
(* What dump writes of a string, and what is read of it *)

LEMMA FirstOfIs ==
  ASSUME NEW t \in Seq(Int), NEW bytes
  PROVE  /\ FirstOf(t, bytes) \in 1..Len(t) + 1
         /\ FirstOf(t, bytes) <= Len(t) => t[FirstOf(t, bytes)] \in bytes
         /\ \A i \in 1..Len(t) : i < FirstOf(t, bytes) => t[i] \notin bytes
<1> DEFINE found == {i \in DOMAIN t : t[i] \in bytes} \cup {Len(t) + 1}
<1>1. PICK N \in Nat : N = Len(t) + 1
  OBVIOUS
<1>2. DOMAIN t = 1..Len(t) /\ Len(t) \in Nat
  OBVIOUS
<1>3. found \in SUBSET (0..N) /\ found # {} /\ found \subseteq 1..N
  BY <1>1, <1>2
<1>4. PICK m \in found : \A x \in found : m <= x
  <2> HIDE DEF found
  <2> QED BY <1>3, LeastExists
<1>5. PICK f : f = FirstOf(t, bytes)
  OBVIOUS
<1>6. f \in found /\ \A x \in found : f <= x
  BY <1>4, <1>5 DEF FirstOf
<1>7. f \in 1..Len(t) + 1
  <2> HIDE DEF found
  <2> QED BY <1>1, <1>3, <1>6
<1>8. f <= Len(t) => t[f] \in bytes
  <2>1. f # Len(t) + 1 => t[f] \in bytes
    BY <1>6
  <2> HIDE DEF found
  <2> QED BY <1>2, <1>7, <2>1
<1>9. ASSUME NEW i \in 1..Len(t), i < f PROVE t[i] \notin bytes
  <2> SUFFICES ASSUME t[i] \in bytes PROVE FALSE
    OBVIOUS
  <2>1. i \in found
    BY <1>2
  <2>2. f <= i
    <3> HIDE DEF found
    <3> QED BY <1>6, <2>1
  <2> QED BY <1>7, <1>9, <2>2
<1> QED BY <1>5, <1>7, <1>8, <1>9

\* What is written of a value, with the quote behind it.
LEMMA DumpedIs ==
  ASSUME NEW s \in Seq(Int)
  PROVE  \E p \in Nat, t \in Seq(Int) :
           /\ p <= Len(s)
           /\ t = Append(Dumped(s), Quote) /\ Len(t) = p + 1 /\ t[p + 1] = Quote
           /\ \A i \in 1..p : t[i] = s[i] /\ s[i] # 0
           /\ p < Len(s) => s[p + 1] = 0
<1>1. PICK k : k = FirstOf(s, {0})
  OBVIOUS
<1>2. /\ k \in 1..Len(s) + 1
      /\ k <= Len(s) => s[k] = 0
      /\ \A i \in 1..Len(s) : i < k => s[i] # 0
  <2>1. /\ k \in 1..Len(s) + 1
        /\ k <= Len(s) => s[k] \in {0}
        /\ \A i \in 1..Len(s) : i < k => s[i] \notin {0}
    BY <1>1, FirstOfIs, Zenon
  <2> QED BY <2>1
<1>3. PICK p \in 0..Len(s) : p = k - 1
  <2>1. Len(s) \in Nat
    OBVIOUS
  <2> QED BY <1>2, <2>1
<1>4. PICK d : d = SubSeq(s, 1, p)
  OBVIOUS
<1>5. d \in Seq(Int) /\ Len(d) = p /\ \A i \in 1..p : d[i] = s[i]
  BY <1>4, SubSeqProperties
<1>6. d = Dumped(s)
  BY <1>1, <1>3, <1>4, Zenon DEF Dumped
<1>7. PICK t : /\ t = Append(d, Quote) /\ Len(t) = p + 1 /\ t[p + 1] = Quote
               /\ \A i \in 1..p : t[i] = d[i]
  <2>1. p \in Nat
    OBVIOUS
  <2> QED BY <1>5, <2>1, QuoteBehind, Zenon
<1>8. t \in Seq(Int)
  <2>1. Quote \in Int
    BY DEF Quote
  <2> QED BY <1>5, <1>7, <2>1, AppendProperties
<1>9. ASSUME NEW i \in 1..p PROVE t[i] = s[i] /\ s[i] # 0
  <2>1. i \in 1..Len(s) /\ i < k
    BY <1>2, <1>3
  <2> QED BY <1>2, <1>5, <1>7, <2>1
<1>10. p < Len(s) => s[p + 1] = 0
  <2>1. p + 1 = k /\ (p < Len(s) => k <= Len(s))
    BY <1>2, <1>3
  <2> QED BY <1>2, <2>1
<1>11. p \in Nat /\ p <= Len(s)
  BY <1>3
<1> QED BY <1>6, <1>7, <1>8, <1>9, <1>10, <1>11, Zenon

\* A value survives just if there is nothing special in it.
LEMMA ValueSurvives ==
  ASSUME NEW s \in Seq(Int)
  PROVE  parse_string(Append(Dumped(s), Quote)) = [ok |-> TRUE, bytes |-> s]
           <=> Without(s, {Quote, Backslash, 0})
<1>0. PICK n \in Nat : n = Len(s)
  OBVIOUS
<1>1. PICK p \in Nat, t \in Seq(Int) :
        /\ p <= n
        /\ t = Append(Dumped(s), Quote) /\ Len(t) = p + 1 /\ t[p + 1] = Quote
        /\ \A i \in 1..p : t[i] = s[i] /\ s[i] # 0
        /\ p < n => s[p + 1] = 0
  BY <1>0, DumpedIs, Zenon
<1>2. PICK r : r = parse_string(t)
  OBVIOUS
<1>3. DOMAIN s = 1..n
  BY <1>0
<1>4. ASSUME Without(s, Special) PROVE r = [ok |-> TRUE, bytes |-> s]
  <2>1. \A i \in 1..n : s[i] \notin Special
    BY <1>3, <1>4 DEF Without
  <2>2. p = n
    <3> SUFFICES ASSUME p < n PROVE FALSE
      BY <1>1
    <3>1. s[p + 1] = 0
      BY <1>1
    <3>3. p + 1 \in 1..n
      OBVIOUS
    <3> QED BY <2>1, <3>1, <3>3 DEF Special
  <2>3. Literal(t) /\ t # <<>>
    <3>1. \A i \in 1..p : t[i] \notin Special
      BY <1>1, <2>1, <2>2
    <3>2. Len(t) - 1 = p /\ t[Len(t)] = Quote /\ t # <<>>
      BY <1>1
    <3> QED BY <3>1, <3>2 DEF Literal
  <2>4. Copies(t, 1, r)
    BY <1>2, <2>3, LiteralIsRead
  <2>5. Len(t) - 1 = p /\ \A i \in 1..p : 1 + i - 1 = i
    BY <1>1
  <2>6. r.bytes \in Seq(Int) /\ Len(r.bytes) = p /\ \A i \in 1..p : r.bytes[i] = t[i]
    BY <2>4, <2>5 DEF Copies
  <2>7. PICK b \in Seq(Int) : b = r.bytes
    BY <2>6
  <2>8. Len(b) = n /\ \A i \in 1..n : b[i] = s[i]
    BY <1>1, <2>2, <2>6, <2>7
  <2>9. b = s
    BY <1>0, <2>8, SeqEqual, Zenon
  <2>10. r = [ok |-> r.ok, bytes |-> r.bytes] /\ r.ok = TRUE
    BY <2>4 DEF Copies
  <2> QED BY <2>7, <2>9, <2>10, Zenon
<1>5. ASSUME r = [ok |-> TRUE, bytes |-> s] PROVE Without(s, Special)
  <2>1. r.ok = TRUE /\ r.bytes = s
    BY <1>5
  <2>2. Fits(t, 1, r)
    BY <1>2, ValueFits
  <2>3. Len(t) - 1 = p
    BY <1>1
  <2>4. n <= p /\ ((\E i \in 1..p : t[i] \in Special) => n < p)
    <3>1. n = Len(r.bytes)
      BY <1>0, <2>1
    <3> QED BY <2>1, <2>2, <2>3, <3>1 DEF Fits
  <2>5. p = n
    BY <1>1, <2>4
  <2>6. \A i \in 1..p : t[i] \notin Special
    <3>1. ~(n < p)
      BY <2>5
    <3> SUFFICES ASSUME NEW i \in 1..p, t[i] \in Special PROVE FALSE
      OBVIOUS
    <3>2. \E j \in 1..p : t[j] \in Special
      OBVIOUS
    <3> QED BY <2>4, <3>1, <3>2, Zenon
  <2>7. \A i \in 1..n : s[i] \notin Special
    BY <1>1, <2>5, <2>6
  <2> QED BY <1>3, <2>7 DEF Without
<1> QED BY <1>1, <1>2, <1>4, <1>5, Zenon DEF Special

\* A key survives just if it has neither a quote nor a 0.
LEMMA KeySurvives ==
  ASSUME NEW s \in Seq(Int)
  PROVE  parse_string_raw(Append(DumpedKey(s), Quote)) = [ok |-> TRUE, bytes |-> s]
           <=> Without(s, {Quote, 0})
<1>1. PICK n \in Nat : n = Len(s)
  OBVIOUS
<1>2. PICK t : t = Append(s, Quote) /\ Len(t) = n + 1 /\ t[n + 1] = Quote /\ \A i \in 1..n : t[i] = s[i]
  BY <1>1, QuoteBehind, Zenon
<1>3. t \in Seq(Int)
  <2>1. Quote \in Int
    BY DEF Quote
  <2> QED BY <1>2, <2>1, AppendProperties
<1>4. PICK Ends : Ends = {Quote, 0}
  OBVIOUS
<1>5. PICK end : end = FirstOf(t, Ends)
  OBVIOUS
<1>6. /\ end \in 1..Len(t) + 1
      /\ end <= Len(t) => t[end] \in Ends
      /\ \A i \in 1..Len(t) : i < end => t[i] \notin Ends
  BY <1>3, <1>5, FirstOfIs, Zenon
<1>7. end \in 1..n + 1
  <2>1. n + 1 \in 1..Len(t) /\ t[n + 1] \in Ends
    BY <1>2, <1>4
  <2>2. ~(n + 1 < end)
    BY <1>6, <2>1
  <2> QED BY <1>6, <2>2
<1>8. PICK r : r = parse_string_raw(t)
  OBVIOUS
<1>9. r = IF end > Len(t) \/ t[end] = 0 THEN Unread ELSE [ok |-> TRUE, bytes |-> SubSeq(t, 1, end - 1)]
  BY <1>4, <1>5, <1>8, Zenon DEF parse_string_raw
<1>10. DOMAIN s = 1..n
  BY <1>1
<1>11. PICK x : x = SubSeq(t, 1, end - 1)
  OBVIOUS
<1>12. x \in Seq(Int) /\ Len(x) = end - 1 /\ \A i \in 1..end - 1 : x[i] = t[i]
  <2>1. PICK m \in 0..n : m = end - 1
    BY <1>7
  <2>2. m \in 0..Len(t) /\ x = SubSeq(t, 1, m)
    BY <1>2, <1>11, <2>1
  <2>3. x \in Seq(Int) /\ Len(x) = m /\ \A i \in 1..m : x[i] = t[i]
    BY <1>3, <2>2, SubSeqProperties
  <2> QED BY <2>1, <2>3
<1>13. ASSUME Without(s, Ends) PROVE r = [ok |-> TRUE, bytes |-> s]
  <2>1. \A i \in 1..n : t[i] \notin Ends
    BY <1>2, <1>10, <1>13 DEF Without
  <2>2. end = n + 1
    <3> SUFFICES ASSUME end \in 1..n PROVE FALSE
      BY <1>7
    <3>1. end <= Len(t)
      BY <1>2
    <3> QED BY <1>6, <2>1, <3>1
  <2>3. t[end] = Quote /\ Quote # 0 /\ ~(end > Len(t))
    BY <1>2, <2>2 DEF Quote
  <2>4. Len(x) = Len(s) /\ \A i \in 1..Len(s) : x[i] = s[i]
    BY <1>1, <1>2, <1>12, <2>2
  <2>5. x = s
    BY <1>12, <2>4, SeqEqual
  <2> QED BY <1>9, <1>11, <2>3, <2>5, Zenon
<1>14. ASSUME r = [ok |-> TRUE, bytes |-> s] PROVE Without(s, Ends)
  <2>1. r.ok = TRUE /\ r.bytes = s
    BY <1>14
  <2>2. ~(end > Len(t) \/ t[end] = 0)
    <3>1. Unread.ok = FALSE
      BY DEF Unread
    <3> QED BY <1>9, <2>1, <3>1
  <2>3. PICK q : q = [ok |-> TRUE, bytes |-> x]
    OBVIOUS
  <2>4. r = q
    BY <1>9, <1>11, <2>2, <2>3, Zenon
  <2>5. s = x
    <3>1. q.bytes = x
      BY <2>3
    <3> QED BY <2>1, <2>4, <3>1, Zenon
  <2>6. end = n + 1
    BY <1>1, <1>7, <1>12, <2>5
  <2>7. \A i \in 1..n : t[i] \notin Ends
    BY <1>2, <1>6, <2>6
  <2> QED BY <1>2, <1>10, <2>7 DEF Without
<1> QED BY <1>2, <1>4, <1>8, <1>13, <1>14, Zenon DEF DumpedKey
-----------------------------------------------------------------------------
(* The theorems.  Each reading stands alone, so that what holds of one holds    *)
(* of what was read last; nothing more has to be remembered.                *)

LEMMA CodesAre == \A u \in Codes : CodePoint(u)
BY StringsAssumption

LEMMA SampleIs == \A s \in Sample : s \in Seq(Int)
<1>1. \A s \in Sample : s \in Seq(Byte)
  BY StringsAssumption, Zenon
<1>2. Byte \subseteq Int
  BY DEF Byte
<1>3. ASSUME NEW s \in Seq(Byte) PROVE s \in Seq(Int)
  BY <1>2, SeqMonotonic, Zenon
<1> QED BY <1>1, <1>3, Zenon

\* Whatever is read, an escape is read as the bytes of its code, for every code:
\* as those of UTF-8, but for 7F and 100 to 7FF, which get one too many.
THEOREM EscapesAreRead == StringSpec => []EscapesRight
<1>1. StringInit => EscapesRight
  <2> SUFFICES ASSUME StringInit PROVE EscapesRight
    OBVIOUS
  <2>1. string.kind = "none"
    BY DEF StringInit
  <2>2. "none" # "escape"
    OBVIOUS
  <2> QED BY <2>1, <2>2, Zenon DEF EscapesRight
<1>2. EscapesRight /\ [ReadString]_string => EscapesRight'
  <2> SUFFICES ASSUME EscapesRight, [ReadString]_string PROVE EscapesRight'
    OBVIOUS
  <2>1. ASSUME NEW u \in Codes, ReadEscape(u) PROVE EscapesRight'
    <3>1. CodePoint(u)
      BY CodesAre
    <3>2. parse_string(Append(Written(u), Quote)) = [ok |-> TRUE, bytes |-> InBytes(u, Length(u))]
      BY <3>1, WrittenIsRead
    <3>3. PICK r : r = parse_string(Append(Written(u), Quote))
      OBVIOUS
    <3>4. string' = [kind |-> "escape", of |-> u, read |-> r]
      BY <2>1, <3>3, Zenon DEF ReadEscape
    <3>5. string'.of = u /\ string'.read = r
      BY <3>4
    <3> QED BY <3>2, <3>3, <3>5 DEF EscapesRight, Length
  <2>2. ASSUME NEW s \in Sample, ReadValue(s) PROVE EscapesRight'
    <3>1. PICK r : r = parse_string(Append(Dumped(s), Quote))
      OBVIOUS
    <3>2. string' = [kind |-> "value", of |-> s, read |-> r]
      BY <2>2, <3>1, Zenon DEF ReadValue
    <3>3. string'.kind # "escape"
      BY <3>2
    <3> QED BY <3>3 DEF EscapesRight
  <2>3. ASSUME NEW s \in Sample, ReadKey(s) PROVE EscapesRight'
    <3>1. PICK r : r = parse_string_raw(Append(DumpedKey(s), Quote))
      OBVIOUS
    <3>2. string' = [kind |-> "key", of |-> s, read |-> r]
      BY <2>3, <3>1, Zenon DEF ReadKey
    <3>3. string'.kind # "escape"
      BY <3>2
    <3> QED BY <3>3 DEF EscapesRight
  <2>4. CASE UNCHANGED string
    BY <2>4 DEF EscapesRight
  <2> QED BY <2>1, <2>2, <2>3, <2>4 DEF ReadString
<1> QED BY <1>1, <1>2, PTL DEF StringSpec

\* Whatever string dump writes, as a value it is read as the same string just if
\* it has neither a quote nor a \ nor a 0, as a key just if it has neither a
\* quote nor a 0.
THEOREM DumpedAreRead == StringSpec => []DumpedStrings
<1>1. StringInit => DumpedStrings
  <2> SUFFICES ASSUME StringInit PROVE DumpedStrings
    OBVIOUS
  <2>1. string.kind = "none"
    BY DEF StringInit
  <2>2. "none" # "value" /\ "none" # "key"
    OBVIOUS
  <2> QED BY <2>1, <2>2, Zenon DEF DumpedStrings
<1>2. DumpedStrings /\ [ReadString]_string => DumpedStrings'
  <2> SUFFICES ASSUME DumpedStrings, [ReadString]_string PROVE DumpedStrings'
    OBVIOUS
  <2>1. ASSUME NEW u \in Codes, ReadEscape(u) PROVE DumpedStrings'
    <3>1. PICK r : r = parse_string(Append(Written(u), Quote))
      OBVIOUS
    <3>2. string' = [kind |-> "escape", of |-> u, read |-> r]
      BY <2>1, <3>1, Zenon DEF ReadEscape
    <3>3. string'.kind # "value" /\ string'.kind # "key"
      BY <3>2
    <3> QED BY <3>3, Zenon DEF DumpedStrings
  <2>2. ASSUME NEW s \in Sample, ReadValue(s) PROVE DumpedStrings'
    <3>1. PICK r : r = parse_string(Append(Dumped(s), Quote))
      OBVIOUS
    <3>2. string' = [kind |-> "value", of |-> s, read |-> r]
      BY <2>2, <3>1, Zenon DEF ReadValue
    <3>3. string'.kind # "key" /\ string'.of = s /\ string'.read = r
      BY <3>2
    <3>4. r = [ok |-> TRUE, bytes |-> s] <=> Without(s, {Quote, Backslash, 0})
      BY <3>1, SampleIs, ValueSurvives, Zenon
    <3> QED BY <3>3, <3>4, Zenon DEF DumpedStrings, Without
  <2>3. ASSUME NEW s \in Sample, ReadKey(s) PROVE DumpedStrings'
    <3>1. PICK r : r = parse_string_raw(Append(DumpedKey(s), Quote))
      OBVIOUS
    <3>2. string' = [kind |-> "key", of |-> s, read |-> r]
      BY <2>3, <3>1, Zenon DEF ReadKey
    <3>3. string'.kind # "value" /\ string'.of = s /\ string'.read = r
      BY <3>2
    <3>4. r = [ok |-> TRUE, bytes |-> s] <=> Without(s, {Quote, 0})
      BY <3>1, SampleIs, KeySurvives, Zenon
    <3> QED BY <3>3, <3>4, Zenon DEF DumpedStrings, Without
  <2>4. CASE UNCHANGED string
    BY <2>4, Zenon DEF DumpedStrings
  <2> QED BY <2>1, <2>2, <2>3, <2>4 DEF ReadString
<1> QED BY <1>1, <1>2, PTL DEF StringSpec
=============================================================================
