------------------------------ MODULE HttpText ------------------------------
(***************************************************************************)
(* How http_conn takes a request apart: the parameters of an url, the      *)
(* lines of a header, the pairs of a form.  A text is a sequence of        *)
(* characters; its positions are counted from 0 as those of std::string,   *)
(* and npos is -1, so that npos + 1 is 0 as in a size_t.                   *)
(***************************************************************************)
EXTENDS Integers, Sequences, SequencesExt, FiniteSetsExt

npos == -1

Question == "?"
Ampersand == "&"
Equal == "="

\* find_first_of(chars, start)
FindFirstOf(text, chars, start) ==
  LET found == {i \in start..Len(text) - 1 : text[i + 1] \in chars}
  IN  IF found = {} THEN npos ELSE Min(found)

\* substr(start, end - start)
SubText(text, start, end) ==
  SubSeq(text, start + 1, IF end = npos THEN Len(text) ELSE end)

\* What is a sequence, of whatever.
IsSequence(s) == Len(s) \in Nat /\ s = [i \in 1..Len(s) |-> s[i]]

\* emplace: the first value of a key stays; operator[]: the last one.
Emplaced(map, key, value) ==
  [k \in DOMAIN map \cup {key} |-> IF k \in DOMAIN map THEN map[k] ELSE value]
Assigned(map, key, value) ==
  [k \in DOMAIN map \cup {key} |-> IF k = key THEN value ELSE map[k]]
NoEntries == [x \in {} |-> <<>>]

-----------------------------------------------------------------------------
(* parse_header: the parameters of an url *)

QueryStart(text) ==
  [start |-> FindFirstOf(text, {Question}, 0) + 1, end |-> 0, parameters |-> NoEntries]

After(pos) == pos + 1

\* One round of the loop.  A key that neither & nor = ends is followed by the
\* url from its beginning, npos + 1.
QueryRound(text, q) ==
  LET keyEnd   == FindFirstOf(text, {Ampersand, Equal}, q.start)
      valueEnd == FindFirstOf(text, {Ampersand}, After(keyEnd))
  IN  [ start |-> After(valueEnd), end |-> valueEnd,
        parameters |-> Emplaced(q.parameters, SubText(text, q.start, keyEnd),
                                SubText(text, After(keyEnd), valueEnd)) ]

QueryDone(q) == q.end = npos

-----------------------------------------------------------------------------
(* parse_header: the lines of a header.  A line is [name, values], or a       *)
(* continuation [name |-> Folded, values |-> <<text>>].                       *)

Folded == "folded"
NoName == ""
UserAgent == "User-Agent"

\* Mutant: a continuation replaces what it goes on with.
MutantContinued(values, text) == [values EXCEPT ![Len(values)] = <<text>>]

\* back() += line
Continued(values, text) == [values EXCEPT ![Len(values)] = Append(@, text)]

\* A value is the sequence of its parts.  A continuation belongs to the last
\* line that is not a User-Agent.  (Behind a field without values it would go to
\* the back() of an empty vector, which is undefined: here it is dropped.)
HeaderLine(h, line) ==
  IF line.name = Folded
  THEN IF h.last = NoName THEN h
       ELSE [h EXCEPT !.fields[h.last] = Continued(@, line.values[1])]
  ELSE [ fields |-> Assigned(h.fields, line.name, [i \in DOMAIN line.values |-> <<line.values[i]>>]),
         last   |-> IF line.name = UserAgent THEN h.last ELSE line.name ]

NoHeader == [fields |-> NoEntries, last |-> NoName]

HeaderFields(lines) ==
  LET read[n \in 0..Len(lines)] ==
        IF n = 0 THEN NoHeader ELSE HeaderLine(read[n - 1], lines[n])
  IN  read[Len(lines)].fields

-----------------------------------------------------------------------------
(* parse_body: a form.  form[key] = value: the last value of a key stays; an  *)
(* empty pair ends it; a pair without = is its own value.                     *)

\* The pieces between the &, by the places where they begin.
Starts(text) == {0} \cup {i \in DOMAIN text : text[i] = Ampersand}
PieceAt(text, start) == SubText(text, start, FindFirstOf(text, {Ampersand}, start))

\* Mutant: the value begins with the =.
MutantPair(piece) ==
  LET eq == FindFirstOf(piece, {Equal}, 0)
  IN  <<SubText(piece, 0, eq), SubText(piece, IF eq = npos THEN 0 ELSE eq, npos)>>

Pair(piece) ==
  LET eq == FindFirstOf(piece, {Equal}, 0)
  IN  <<SubText(piece, 0, eq), SubText(piece, eq + 1, npos)>>

\* getline gives no piece at the end of a text, where there is an empty one.  What
\* the pairs behind a pair have set stays.
Form(text) ==
  LET read[start \in 0..Len(text)] ==
        LET end  == FindFirstOf(text, {Ampersand}, start)
            pair == Pair(PieceAt(text, start))
        IN  IF PieceAt(text, start) = <<>> THEN NoEntries
            ELSE Emplaced(IF end = npos THEN NoEntries ELSE read[end + 1], pair[1], pair[2])
  IN  read[0]
-----------------------------------------------------------------------------
(* What a query, a form and the lines of a header say *)

\* The pairs of a text by the places where they begin, with key and value.
KeyOf(piece) == SubSeq(piece, 1, Min({i \in DOMAIN piece : piece[i] = Equal}) - 1)
ValueOf(piece) == SubSeq(piece, Len(KeyOf(piece)) + 2, Len(piece))
KeyAt(text, i) == KeyOf(PieceAt(text, i))
ValueAt(text, i) == ValueOf(PieceAt(text, i))
Keys(text) == {KeyAt(text, i) : i \in Starts(text)}
Keyed(text, key) == {i \in Starts(text) : KeyAt(text, i) = key}
Paired(text) == \A i \in Starts(text) : Equal \in Range(PieceAt(text, i))

\* The lines that line i begins: those that continue it follow it, up to Until.
Until(lines, i) ==
  Max({j \in i..Len(lines) : \A k \in i + 1..j : lines[k].name = Folded})
Values(lines, i) ==
  [k \in DOMAIN lines[i].values |->
     IF k < Len(lines[i].values) THEN <<lines[i].values[k]>>
     ELSE [l \in 1..Until(lines, i) - i + 1 |->
             IF l = 1 THEN lines[i].values[k] ELSE lines[i + l - 1].values[1]]]

\* Each line that continues one follows a field with a name and a value, but no
\* User-Agent, or another line that does.
Placed(lines) ==
  \A i \in DOMAIN lines : lines[i].name = Folded =>
    \E j \in 1..i - 1 : /\ lines[j].name \notin {NoName, Folded, UserAgent}
                        /\ lines[j].values # <<>>
                        /\ \A k \in j + 1..i : lines[k].name = Folded

Names(lines) == {lines[i].name : i \in DOMAIN lines} \ {Folded}
LastNamed(lines, name) == Max({i \in DOMAIN lines : lines[i].name = name})
=============================================================================
