-------------------------------- MODULE Json --------------------------------
(***************************************************************************)
(* json: a document that an application reads with load and changes        *)
(* through operator[] and push_back, and that dump writes.  A text is a    *)
(* sequence of tokens: the signs of JSON, strings (also keys), "1" a number,  *)
(* "true", "false", "null", " " and "nl" (any of \n, \r, \t); of two numbers   *)
(* side by side the second has a sign.  What is within a string is the subject *)
(* of JsonString.                                                          *)
(***************************************************************************)
EXTENDS JsonVal, JsonString

CONSTANTS
  Tokens,     \* what texts are made of
  Strings,    \* the tokens that are strings; keys are strings
  MaxText, MaxWhite,   \* bounds on a text: its length, its white space
  MaxOps, MaxLen,      \* bounds on the operations, and on the arrays they make
  Lists,      \* the lengths of the lists that it assigns
  IntoMoved   \* whether it pushes onto an array that it has moved into another

VARIABLES
  text,       \* what the application is going to load
  json_data,
  meaning,    \* history: what json_data ought to mean
  outcome,    \* what the last load returned
  ops
vars == <<text, json_data, meaning, outcome, ops, string>>

White == {" ", "nl"}
Signs == {"{", "}", "[", "]", ",", ":"}

-----------------------------------------------------------------------------
(* The parser.  A result is [ok, val, pos]: pos is the place of context.      *)

At(t, pos) == IF pos > Len(t) THEN "end" ELSE t[pos]

\* parse_white_space
Skip(t, pos) == Min({i \in pos..Len(t) + 1 : At(t, i) \notin White})

Failed(pos) == [ok |-> FALSE, val |-> Blank, pos |-> pos]
Parsed(t, val, pos) == [ok |-> TRUE, val |-> val, pos |-> Skip(t, pos)]

\* Mutant: the value that came last is kept.
MutantEmplaced(fields, key, val) == (key :> Copy(val)) @@ fields

\* emplace(pair(cur, tmp)): the pair has a copy, and the first one is kept.
Emplaced(fields, key, val) == fields @@ (key :> Copy(val))

\* Behind a true, parse_bool looks for a false as well, and takes it.
parse_bool(t, pos) ==
  LET last == IF At(t, pos) = "true" /\ At(t, pos + 1) = "false" THEN pos + 1 ELSE pos
  IN  IF At(t, pos) \in {"true", "false"} THEN Parsed(t, Scalar(At(t, last)), last + 1)
      ELSE Failed(pos)

RECURSIVE parse_value(_, _), parse_elements(_, _, _), parse_members(_, _, _)

\* A line end is skipped and leads on to parse_bool; a blank is no number.
parse_value(t, pos) ==
  CASE At(t, pos) = "nl" -> parse_bool(t, Skip(t, pos))
    [] At(t, pos) \in {"true", "false"} -> parse_bool(t, pos)
    [] At(t, pos) = "1"     -> Parsed(t, Scalar("1"), pos + 1)
    [] At(t, pos) = "null"  -> Parsed(t, Blank, pos + 1)
    [] At(t, pos) \in Strings -> Parsed(t, String(At(t, pos)), pos + 1)
    [] At(t, pos) = "["     -> IF At(t, Skip(t, pos + 1)) = "]"
                               THEN Parsed(t, [Blank EXCEPT !.type = "array"], Skip(t, pos + 1) + 1)
                               ELSE parse_elements(t, Skip(t, pos + 1), [Blank EXCEPT !.type = "array"])
    [] At(t, pos) = "{"     -> IF At(t, Skip(t, pos + 1)) = "}"
                               THEN [Parsed(t, [Blank EXCEPT !.type = "json"], pos)
                                       EXCEPT !.pos = Skip(t, pos + 1) + 1]
                               ELSE parse_members(t, Skip(t, pos + 1), Blank.fields)
    [] OTHER -> Failed(pos)

\* parse_array: val.push_back(std::move(tmp_val))
parse_elements(t, pos, val) ==
  LET r == parse_value(t, pos)
      grown == PushMoved(val, r.val)
      after == Skip(t, r.pos)
  IN  CASE ~r.ok                            -> r
        [] r.ok /\ At(t, after) = "," -> parse_elements(t, Skip(t, after + 1), grown)
        [] r.ok /\ At(t, after) = "]" -> Parsed(t, grown, after + 1)
        [] OTHER -> Failed(after)

\* parse_json
parse_members(t, pos, fields) ==
  LET colon == Skip(t, pos + 1)
      r     == parse_value(t, Skip(t, colon + 1))
      grown == Emplaced(fields, At(t, pos), r.val)
      after == Skip(t, r.pos)
  IN  CASE At(t, pos) \notin Strings -> Failed(pos)
        [] At(t, pos) \in Strings /\ At(t, colon) # ":" -> Failed(colon)
        [] At(t, pos) \in Strings /\ At(t, colon) = ":" /\ ~r.ok -> r
        [] At(t, pos) \in Strings /\ At(t, colon) = ":" /\ r.ok /\ At(t, after) = "," ->
             parse_members(t, Skip(t, after + 1), grown)
        [] At(t, pos) \in Strings /\ At(t, colon) = ":" /\ r.ok /\ At(t, after) = "}" ->
             Parsed(t, [Blank EXCEPT !.type = "json", !.fields = grown], after + 1)
        [] OTHER -> Failed(after)

\* load clears the document; what parse_value returned is not looked at, nor
\* what follows the value.
Loaded(t) == LET r == parse_value(t, 1) IN [ok |-> r.ok /\ r.val.type = "json", fields |-> r.val.fields]

-----------------------------------------------------------------------------
(* dump and to_string *)

\* Mutant: a comma behind each element.
MutantJoined(parts) == FoldLeft(LAMBDA all, p : all \o p \o <<",">>, <<>>, parts)

\* The elements with commas between them.
Joined(parts) == FoldLeft(LAMBDA all, p : IF all = <<>> THEN p ELSE all \o <<",">> \o p, <<>>, parts)

RECURSIVE to_string(_)
to_string(val) ==
  CASE val.type = "null" -> <<"null">>
    [] val.type \in {"int", "string"} -> <<val.v>>
    [] val.type = "array" -> <<"[">> \o Joined([i \in DOMAIN val.elems |-> to_string(val.elems[i])]) \o <<"]">>
    [] val.type = "json"  ->
         LET keys == SetToSeq(DOMAIN val.fields)
         IN  <<"{">> \o Joined([i \in DOMAIN keys |-> <<keys[i], ":">> \o to_string(val.fields[keys[i]])])
                     \o <<"}">>

dump == to_string([Blank EXCEPT !.type = "json", !.fields = json_data])

\* dump takes 1 from the size of an array of its own, a size_t, also if it is 0.
Dumpable == \A k \in DOMAIN json_data : json_data[k].type = "array" => Size(json_data[k]) > 0

-----------------------------------------------------------------------------
(* The application *)

Init ==
  /\ text = <<>> /\ json_data = Blank.fields /\ meaning = Blank.fields
  /\ outcome = "none" /\ ops = 0
  /\ StringInit

\* A bound: a string is read on its own, instead of anything else.
ReadAlone ==
  /\ text = <<>> /\ outcome = "none" /\ ops = 0 /\ string.kind = "none"
  /\ ReadString
  /\ UNCHANGED <<text, json_data, meaning, outcome, ops>>

\* A text goes on as long as the parser has not failed within it.
Type ==
  /\ string.kind = "none" /\ ops = 0 /\ outcome = "none" /\ Len(text) < MaxText
  /\ text # <<>> => parse_value(text, 1).pos > Len(text)
  /\ \E token \in Tokens :
       /\ token \in White => Cardinality({i \in DOMAIN text : text[i] \in White}) < MaxWhite
       /\ text' = Append(text, token)
  /\ UNCHANGED <<json_data, meaning, outcome, ops, string>>

Load ==
  /\ string.kind = "none" /\ outcome = "none" /\ ops = 0
  /\ LET l == Loaded(text) IN
       /\ json_data' = IF l.ok THEN l.fields ELSE Blank.fields
       /\ outcome' = IF l.ok THEN "true" ELSE "false"
  /\ meaning' = [k \in DOMAIN json_data' |-> Meaning(json_data'[k])]
  /\ text' = <<>>
  /\ UNCHANGED <<ops, string>>

\* An operation that leaves val at key, where it ought to mean what.
Put(key, val, what) ==
  /\ string.kind = "none" /\ outcome # "false" /\ ops < MaxOps /\ ops' = ops + 1 /\ text = <<>>
  /\ json_data' = (key :> val) @@ json_data
  /\ meaning' = (key :> what) @@ meaning
  /\ UNCHANGED <<text, outcome, string>>

\* operator[]: a key that is not there gets a null.
Of(key) == IF key \in DOMAIN json_data THEN json_data[key] ELSE Blank
Means(key) == IF key \in DOMAIN meaning THEN meaning[key] ELSE Meaning(Blank)

Set(key) == Put(key, Assigned(Of(key), "1"), Meaning(Scalar("1")))

\* j[key] = std::initializer_list<json_val>{1, ...}.  (= {1} would be the number.)
SetList(key, n) ==
  LET list == [i \in 1..n |-> Scalar("1")]
  IN  Put(key, ListAssigned(Of(key), list), Meaning(ListAssigned(Blank, list)))

Appended(what, elem) == [what EXCEPT !.elems = Append(@, elem)]

Push(key) ==
  /\ Of(key).type = "array" /\ Size(Of(key)) < MaxLen
  /\ Put(key, PushMoved(Of(key), Scalar("1")), Appended(Means(key), Meaning(Scalar("1"))))

\* j[key].push_back(j[from]).  (An array must not be pushed onto itself, which
\* copies its own new element without end, nor an element onto its array, which
\* the reallocation may have freed.)
PushOther(key, from) ==
  /\ Of(key).type = "array" /\ Size(Of(key)) < MaxLen /\ from # key
  /\ from \in DOMAIN json_data
  /\ Put(key, PushCopied(Of(key), Of(from)), Appended(Means(key), Means(from)))

\* j[key].push_back(array), an array that is not used otherwise.
PushArray(key, n) ==
  LET list == ListAssigned(Blank, [i \in 1..n |-> Scalar("1")]) IN
  /\ Of(key).type = "array" /\ Size(Of(key)) < MaxLen
  /\ Put(key, PushMoved(Of(key), list), Appended(Means(key), Meaning(list)))

\* j[key][i].push_back(1).  The capacity of a moved array is below its size.
PushInto(key, i) ==
  /\ Of(key).type = "array" /\ i \in DOMAIN Of(key).elems
  /\ Of(key).elems[i].type = "array" /\ Size(Of(key).elems[i]) < MaxLen
  /\ IntoMoved \/ Of(key).elems[i].capacity >= Size(Of(key).elems[i])
  /\ Put(key, [Of(key) EXCEPT !.elems[i] = PushMoved(@, Scalar("1"))],
         [Means(key) EXCEPT !.elems[i] = Appended(@, Meaning(Scalar("1")))])

\* j[key] = j[from].  A value assigned to itself is cleared before it is copied.
Assign(key, from) ==
  /\ from \in DOMAIN json_data
  /\ \/ from # key /\ Put(key, CopyAssigned(Of(key), Of(from)), Means(from))
     \/ from = key /\ Put(key, CopyAssigned(Of(key), clear(Of(key))),
                          IF Means(key).type = "int" THEN Means(key) ELSE Meaning(Blank))

Next ==
  \/ ReadAlone
  \/ Type
  \/ Load
  \/ \E key \in Strings :
       \/ Set(key) \/ Push(key)
       \/ \E n \in Lists : SetList(key, n) \/ PushArray(key, n)
       \/ \E i \in 1..MaxLen : PushInto(key, i)
       \/ \E from \in Strings : PushOther(key, from) \/ Assign(key, from)

Spec == Init /\ [][Next]_vars

-----------------------------------------------------------------------------
(* What a text means, by the grammar of JSON: the meaning of its value, or none *)

Bare(t) == SelectSeq(t, LAMBDA token : token \notin White)

Depth(t, i) == Cardinality({j \in 1..i : t[j] \in {"[", "{"}}) - Cardinality({j \in 1..i : t[j] \in {"]", "}"}})

\* The parts of a text between the commas that are not within brackets.
Parts(t) ==
  LET cuts == SetToSortSeq({0, Len(t) + 1} \cup {i \in DOMAIN t : t[i] = "," /\ Depth(t, i) = 0}, <)
  IN  [i \in 1..Len(cuts) - 1 |-> SubSeq(t, cuts[i] + 1, cuts[i + 1] - 1)]

Inner(t) == SubSeq(t, 2, Len(t) - 1)
Bracketed(t, open, close) == Len(t) >= 2 /\ t[1] = open /\ t[Len(t)] = close
Member(t) == Len(t) >= 3 /\ t[1] \in Strings /\ t[2] = ":"
Tail2(t) == SubSeq(t, 3, Len(t))

RECURSIVE Denotes(_)
Denotes(t) ==
  LET none == Meaning(Blank)
      parts == IF Inner(t) = <<>> THEN <<>> ELSE Parts(Inner(t))
      key(i) == parts[i][1]
      first(k) == Min({i \in DOMAIN parts : key(i) = k})
  IN  CASE Len(t) = 1 /\ t[1] \in Strings -> {[none EXCEPT !.type = "string", !.v = t[1]]}
        [] Len(t) = 1 /\ t[1] \in {"1", "true", "false"} -> {[none EXCEPT !.type = "int", !.v = t[1]]}
        [] t = <<"null">> -> {none}
        [] Bracketed(t, "[", "]") /\ (\A i \in DOMAIN parts : Denotes(parts[i]) # {}) ->
             {[none EXCEPT !.type = "array",
                           !.elems = [i \in DOMAIN parts |-> CHOOSE m \in Denotes(parts[i]) : TRUE]]}
        [] Bracketed(t, "{", "}")
           /\ (\A i \in DOMAIN parts : Member(parts[i]) /\ Denotes(Tail2(parts[i])) # {}) ->
             {[none EXCEPT !.type = "json",
                           !.fields = [k \in {key(i) : i \in DOMAIN parts} |->
                                         CHOOSE m \in Denotes(Tail2(parts[first(k)])) : TRUE]]}
        [] OTHER -> {}

-----------------------------------------------------------------------------
(* Properties *)

\* What load makes of a text: without white space, and a true that a false
\* follows at once is passed over.
Taken(t) ==
  LET kept == SelectSeq([i \in DOMAIN t |-> i],
                        LAMBDA i : ~(t[i] = "true" /\ At(t, i + 1) = "false"))
  IN  Bare([n \in DOMAIN kept |-> t[kept[n]]])

\* load succeeds on just the texts that begin with the { of an object, whatever
\* follows it, and reads what the grammar of JSON says, the first of the values
\* that a key has; but for truefalse, which the grammar does not know and load
\* takes for false.
LoadRight ==
  LET l == Loaded(text)
      objects == {n \in DOMAIN text : text[n] = "}" /\ Bracketed(Taken(SubSeq(text, 1, n)), "{", "}")
                                                   /\ Denotes(Taken(SubSeq(text, 1, n))) # {}}
  IN  IF text # <<>> /\ text[1] = "{" /\ objects # {}
      THEN /\ l.ok
           /\ [k \in DOMAIN l.fields |-> Meaning(l.fields[k])] =
                (CHOOSE m \in Denotes(Taken(SubSeq(text, 1, Min(objects)))) : TRUE).fields
      ELSE ~l.ok

\* The document is what its operations amount to, over the growth of arrays, the
\* copies and the moves within push_back, none of which loses a value or shares
\* it; but a string, array or object that is assigned to itself is lost.
Meant == meaning = [k \in DOMAIN json_data |-> Meaning(json_data[k])]

\* No operation writes behind the allocation of an array: what a copy or a move
\* leaves of a capacity and what push_back makes of it fit what was allocated.
InBounds == \A k \in DOMAIN json_data : WithinBounds(json_data[k])

\* What dump writes, load reads, for a document without an empty array at its top.
RoundTrip ==
  Dumpable => LET l == Loaded(dump) IN
    /\ l.ok
    /\ [k \in DOMAIN l.fields |-> Meaning(l.fields[k])]
         = [k \in DOMAIN json_data |-> Meaning(json_data[k])]
=============================================================================
