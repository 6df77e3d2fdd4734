----------------------------- MODULE JsonString -----------------------------
(***************************************************************************)
(* The strings of a JSON text.  parse_string reads a value behind its      *)
(* opening quote and undoes the escapes; parse_string_raw reads a key,     *)
(* where a \ is a character as any other.  A text is a sequence of bytes.  *)
(***************************************************************************)
EXTENDS Integers, Sequences

CONSTANTS
  Codes,      \* the Unicode codes that a text may escape
  Sample      \* the strings, as bytes, that are written and read

VARIABLE
  string      \* the string that was read last: kind, of what, and what was read

Quote == 34
Backslash == 92
LetterU == 117

\* The escapes of one letter: " \ / b f n r t
Escapes == [c \in {34, 92, 47, 98, 102, 110, 114, 116} |->
              CASE c = 98 -> 8 [] c = 102 -> 12 [] c = 110 -> 10 [] c = 114 -> 13 [] c = 116 -> 9
                [] c \in {34, 92, 47} -> c]

Digits == 48..57
Hex == Digits \cup 65..70 \cup 97..102
HexValue(c) == IF c \in Digits THEN c - 48 ELSE IF c \in 65..70 THEN c - 55 ELSE c - 87

\* parse_hex4 at a position
IsHex4(t, pos) == pos + 3 <= Len(t) /\ \A i \in 0..3 : t[pos + i] \in Hex
Hex4(t, pos) == 16 * (16 * (16 * HexValue(t[pos]) + HexValue(t[pos + 1]))
                        + HexValue(t[pos + 2])) + HexValue(t[pos + 3])

High == 55296..56319    \* D800..DBFF
Low  == 56320..57343    \* DC00..DFFF

\* The codes that an escape can name.
CodePoint(u) == u \in Nat /\ u <= 1114111 /\ u \notin High \cup Low

Byte == 0..255

ASSUME StringsAssumption ==
  /\ \A u \in Codes : CodePoint(u)
  /\ Sample \subseteq Seq(Byte)

\* Mutant: without the planes behind the first.
MutantJoinedPair(u, u2) == (u - 55296) * 1024 + (u2 - 56320)

JoinedPair(u, u2) == (u - 55296) * 1024 + (u2 - 56320) + 65536

\* The bytes of a code.
Encoded(u) ==
  IF u < 127 THEN <<u>>
  ELSE IF u <= 255 THEN <<192 + u \div 64, 128 + (u % 64)>>
  ELSE IF u <= 65535 THEN <<224 + u \div 4096, 128 + ((u \div 64) % 64), 128 + (u % 64)>>
  ELSE <<240 + u \div 262144, 128 + ((u \div 4096) % 64), 128 + ((u \div 64) % 64), 128 + (u % 64)>>

\* An escape: what it stands for and how far it goes, the \ included.
NoEscape == [ok |-> FALSE, bytes |-> <<>>, length |-> 0]
Escape(t, pos) ==
  LET is(i, c) == pos + i <= Len(t) /\ t[pos + i] = c
      single == IsHex4(t, pos + 2) /\ Hex4(t, pos + 2) \notin High
      double == /\ IsHex4(t, pos + 2) /\ Hex4(t, pos + 2) \in High
                /\ is(6, Backslash) /\ is(7, LetterU)
                /\ IsHex4(t, pos + 8) /\ Hex4(t, pos + 8) \in Low
  IN  IF pos < Len(t) /\ t[pos + 1] \in DOMAIN Escapes
        THEN [ok |-> TRUE, bytes |-> <<Escapes[t[pos + 1]]>>, length |-> 2]
      ELSE IF is(1, LetterU) /\ single
        THEN [ok |-> TRUE, bytes |-> Encoded(Hex4(t, pos + 2)), length |-> 6]
      ELSE IF is(1, LetterU) /\ double
        THEN [ok |-> TRUE, length |-> 12,
              bytes |-> Encoded(JoinedPair(Hex4(t, pos + 2), Hex4(t, pos + 8)))]
      ELSE NoEscape

Unread == [ok |-> FALSE, bytes |-> <<>>]
Behind(bytes, r) == [ok |-> r.ok, bytes |-> bytes \o r.bytes]

\* parse_string, from behind the quote to the next quote that ends the value.
\* It does not read over a 0.
parse_string(t) ==
  LET read[pos \in 1..Len(t) + 1] ==
        IF pos > Len(t) \/ t[pos] = 0 THEN Unread
        ELSE IF t[pos] = Quote THEN [ok |-> TRUE, bytes |-> <<>>]
        ELSE IF t[pos] # Backslash THEN Behind(<<t[pos]>>, read[pos + 1])
        ELSE IF Escape(t, pos).ok
             THEN Behind(Escape(t, pos).bytes, read[pos + Escape(t, pos).length])
             ELSE Unread
  IN  read[1]

\* The place of the first of some bytes, or the one behind the text.
FirstOf(t, bytes) ==
  LET found == {i \in DOMAIN t : t[i] \in bytes} \cup {Len(t) + 1}
  IN  CHOOSE i \in found : \A j \in found : i <= j

\* Mutant: a key is read as a value.
MutantRaw(t) == parse_string(t)

\* parse_string_raw
parse_string_raw(t) ==
  LET end == FirstOf(t, {Quote, 0})
  IN  IF end > Len(t) \/ t[end] = 0 THEN Unread
      ELSE [ok |-> TRUE, bytes |-> SubSeq(t, 1, end - 1)]

\* What to_string and dump put between two quotes: the bytes of a value as they
\* are, up to a 0; a key whole.
Dumped(s) == SubSeq(s, 1, FirstOf(s, {0}) - 1)
DumpedKey(s) == s

-----------------------------------------------------------------------------
(* Strings that are written and read *)

HexDigit(n) == IF n < 10 THEN 48 + n ELSE 87 + n
Unicode(u) == <<Backslash, LetterU, HexDigit(u \div 4096), HexDigit((u \div 256) % 16),
                HexDigit((u \div 16) % 16), HexDigit(u % 16)>>

\* The escape of a code: one \u, or two of them behind the first plane.
Written(u) == IF u < 65536 THEN Unicode(u)
              ELSE Unicode(55296 + ((u - 65536) \div 1024)) \o Unicode(56320 + ((u - 65536) % 1024))

StringInit == string = [kind |-> "none", of |-> 0, read |-> Unread]

\* A value that is the escape of one code.
ReadEscape(u) == string' = [kind |-> "escape", of |-> u, read |-> parse_string(Append(Written(u), Quote))]

\* A value and a key that dump wrote.
ReadValue(s) == string' = [kind |-> "value", of |-> s, read |-> parse_string(Append(Dumped(s), Quote))]
ReadKey(s)   == string' = [kind |-> "key", of |-> s, read |-> parse_string_raw(Append(DumpedKey(s), Quote))]

ReadString ==
  \/ \E u \in Codes : ReadEscape(u)
  \/ \E s \in Sample : ReadValue(s) \/ ReadKey(s)

StringSpec == StringInit /\ [][ReadString]_string

\* UTF-8: a code in n bytes, and how many it needs.
Sextets == <<1, 64, 4096, 262144>>
Leads == <<0, 192, 224, 240>>
InBytes(u, n) ==
  [i \in 1..n |-> IF i = 1 THEN Leads[n] + (u \div Sextets[n])
                  ELSE 128 + ((u \div Sextets[n - i + 1]) % 64)]
Needed(u) == IF u < 128 THEN 1 ELSE IF u < 2048 THEN 2 ELSE IF u < 65536 THEN 3 ELSE 4

\* An escaped code is read as its UTF-8 bytes; as one byte more than UTF-8
\* allows for 7F and for 100 to 7FF (the bounds in parse_string).
EscapesRight ==
  LET u == string.of IN
  string.kind = "escape" =>
    string.read =
      [ok |-> TRUE, bytes |-> InBytes(u, Needed(u) + IF u = 127 \/ u \in 256..2047 THEN 1 ELSE 0)]

\* A string has none of some bytes.
Without(s, bytes) == \A i \in DOMAIN s : s[i] \notin bytes

\* What dump writes of a string is read as the same string just if it has
\* neither a quote nor a \ nor a 0, and as the same key just if it has neither
\* a quote nor a 0.
DumpedStrings ==
  LET s == string.of
      same == string.read = [ok |-> TRUE, bytes |-> s]
  IN  /\ string.kind = "value" => (same <=> Without(s, {Quote, Backslash, 0}))
      /\ string.kind = "key"   => (same <=> Without(s, {Quote, 0}))
=============================================================================
