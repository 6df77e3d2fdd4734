------------------------------- MODULE JsonVal -------------------------------
(***************************************************************************)
(* json_val: values that own their memory.  An array is a pointer to an    *)
(* allocation, a size and a capacity that push_back trusts; the union that *)
(* holds them keeps its old capacity when the value changes its type.      *)
(***************************************************************************)
EXTENDS Integers, Sequences, SequencesExt, FiniteSetsExt, TLC

\* A value.  elems are the elements that were written (as many as size says),
\* alloc is how many the allocation has, live that data is not null.
Blank == [type |-> "null", v |-> "", elems |-> <<>>, alloc |-> 0, live |-> FALSE, capacity |-> 0,
          fields |-> [k \in {} |-> <<>>]]

Scalar(v) == [Blank EXCEPT !.type = "int", !.v = v]
String(v) == [Blank EXCEPT !.type = "string", !.v = v]
Size(val) == Len(val.elems)

\* clear() of the old value, then the new one in the same union.
Cleared(val) == [Blank EXCEPT !.capacity = val.capacity]

\* clear() alone: what owns memory becomes null, a number stays.
clear(val) == IF val.type \in {"string", "array", "json"} THEN Cleared(val) ELSE val

Assigned(val, v) == [Cleared(val) EXCEPT !.type = "int", !.v = v]

\* The initializer list of n values, in a union that held val.
ListAssigned(val, list) ==
  [Blank EXCEPT !.type = "array", !.elems = list, !.alloc = Len(list), !.live = TRUE,
                !.capacity = Len(list)]

\* Mutant: a copy leaves the capacity of what was there before.
MutantCopyCapacity(old, val) == old.capacity

CopyCapacity(old, val) == Size(val)

\* JSON_VAL_COPY into a union that held old.
RECURSIVE CopyAssigned(_, _)
CopyAssigned(old, val) ==
  CASE val.type = "array" ->
         [Blank EXCEPT !.type = "array", !.alloc = Size(val), !.live = TRUE,
                       !.capacity = CopyCapacity(old, val),
                       !.elems = [i \in DOMAIN val.elems |-> CopyAssigned(Blank, val.elems[i])]]
    [] val.type = "json" ->
         [Cleared(old) EXCEPT !.type = "json",
                       !.fields = [k \in DOMAIN val.fields |-> CopyAssigned(Blank, val.fields[k])]]
    [] OTHER -> [Cleared(old) EXCEPT !.type = val.type, !.v = val.v]

Copy(val) == CopyAssigned(Blank, val)

\* operator=(json_val&&) hands the allocation over and not its capacity.
MoveAssigned(old, val) == [val EXCEPT !.capacity = old.capacity]

\* Mutant: the last element is not copied.
MutantGrown(val) ==
  [i \in DOMAIN val.elems |-> IF i < Size(val) THEN Copy(val.elems[i]) ELSE Blank]

Grown(val) == [i \in DOMAIN val.elems |-> Copy(val.elems[i])]

\* push_back: JSON_ARRAY_REALLOC copies the elements to twice the capacity.  The
\* first allocation leaves capacity behind what it is.
PushBack(val, elem) ==
  LET capacity == IF val.capacity = 0 THEN 1 ELSE val.capacity IN
  [ (IF Size(val) + 1 < capacity THEN val
     ELSE [val EXCEPT !.alloc = 2 * capacity, !.live = TRUE,
                      !.capacity = IF val.live THEN 2 * capacity ELSE capacity,
                      !.elems = Grown(val)])
    EXCEPT !.elems = Append(@, elem) ]

\* push_back(json_val&&) and push_back(json_val&)
PushMoved(val, elem) == PushBack(val, MoveAssigned(Blank, elem))
PushCopied(val, elem) == PushBack(val, Copy(elem))

\* What the value says, without its memory.
RECURSIVE Meaning(_)
Meaning(val) ==
  [ type   |-> val.type, v |-> val.v,
    elems  |-> [i \in DOMAIN val.elems |-> Meaning(val.elems[i])],
    fields |-> [k \in DOMAIN val.fields |-> Meaning(val.fields[k])] ]

\* No element was written behind an allocation.
RECURSIVE WithinBounds(_)
WithinBounds(val) ==
  /\ Size(val) <= val.alloc
  /\ \A i \in DOMAIN val.elems : WithinBounds(val.elems[i])
  /\ \A k \in DOMAIN val.fields : WithinBounds(val.fields[k])
=============================================================================
