----------------------------- MODULE DataLemmas -----------------------------
(***************************************************************************)
(* Facts about the data of the models that their proofs share: what a push *)
(* at the end and a pop at the front do to the elements of a queue, the    *)
(* greatest and the least number of a set, and induction over numbers.     *)
(***************************************************************************)
EXTENDS Integers, Sequences, Functions, FiniteSetsExt, TLAPS, SequenceTheorems, FiniteSetTheorems

\* The elements of a sequence after a push at its end and a pop at its front.
LEMMA RangeAppend ==
  ASSUME NEW S, NEW s \in Seq(S), NEW e \in S
  PROVE  Range(Append(s, e)) = Range(s) \cup {e}
<1>1. /\ DOMAIN s = 1..Len(s) /\ Len(s) \in Nat
      /\ DOMAIN Append(s, e) = 1..(Len(s) + 1)
      /\ \A i \in 1..Len(s) : Append(s, e)[i] = s[i]
      /\ Append(s, e)[Len(s) + 1] = e
  BY LenProperties, AppendProperties
<1> QED BY <1>1 DEF Range

LEMMA RangeTail ==
  ASSUME NEW S, NEW s \in Seq(S), s # <<>>
  PROVE  Range(s) = Range(Tail(s)) \cup {Head(s)}
<1>1. /\ DOMAIN s = 1..Len(s) /\ Len(s) \in Nat \ {0}
      /\ DOMAIN Tail(s) = 1..(Len(s) - 1)
      /\ \A i \in 1..(Len(s) - 1) : Tail(s)[i] = s[i + 1]
      /\ Head(s) = s[1]
  BY LenProperties, HeadTailProperties, EmptySeq
<1>2. ASSUME NEW x \in Range(s) PROVE x \in Range(Tail(s)) \cup {Head(s)}
  <2>1. PICK i \in 1..Len(s) : x = s[i]
    BY <1>1 DEF Range
  <2>2. CASE i = 1 BY <2>1, <2>2, <1>1
  <2>3. CASE i # 1
    <3>1. i - 1 \in 1..(Len(s) - 1) /\ Tail(s)[i - 1] = s[i]
      BY <2>3, <1>1
    <3> QED BY <3>1, <2>1, <1>1 DEF Range
  <2> QED BY <2>2, <2>3
<1>3. Range(Tail(s)) \subseteq Range(s)
  <2> SUFFICES ASSUME NEW i \in 1..(Len(s) - 1) PROVE Tail(s)[i] \in Range(s)
    BY <1>1 DEF Range
  <2>1. i + 1 \in 1..Len(s) /\ Tail(s)[i] = s[i + 1]
    BY <1>1
  <2> QED BY <2>1, <1>1 DEF Range
<1>4. Head(s) \in Range(s)
  BY <1>1 DEF Range
<1> QED BY <1>2, <1>3, <1>4

LEMMA InjectiveAppend ==
  ASSUME NEW S, NEW s \in Seq(S), NEW e \in S, IsInjective(s), e \notin Range(s)
  PROVE  IsInjective(Append(s, e))
<1>1. /\ DOMAIN s = 1..Len(s) /\ Len(s) \in Nat
      /\ DOMAIN Append(s, e) = 1..(Len(s) + 1)
      /\ \A i \in 1..Len(s) : Append(s, e)[i] = s[i]
      /\ Append(s, e)[Len(s) + 1] = e
  BY LenProperties, AppendProperties
<1> QED BY <1>1 DEF IsInjective, Range

LEMMA InjectiveTail ==
  ASSUME NEW S, NEW s \in Seq(S), s # <<>>, IsInjective(s)
  PROVE  IsInjective(Tail(s)) /\ Head(s) \notin Range(Tail(s))
<1>1. /\ DOMAIN s = 1..Len(s) /\ Len(s) \in Nat \ {0}
      /\ DOMAIN Tail(s) = 1..(Len(s) - 1)
      /\ \A i \in 1..(Len(s) - 1) : Tail(s)[i] = s[i + 1]
      /\ Head(s) = s[1]
  BY LenProperties, HeadTailProperties, EmptySeq
<1> QED BY <1>1 DEF IsInjective, Range

-----------------------------------------------------------------------------
(* The greatest and the least number of a set *)

\* There is one: of the sets of greater members the smallest belongs to it.
LEMMA GreatestExists ==
  ASSUME NEW N \in Nat, NEW D \in SUBSET (0..N), D # {}
  PROVE  \E m \in D : \A x \in D : m >= x
<1> DEFINE Above(m) == {x \in D : x > m}
           T == {Above(m) : m \in D}
<1>1. IsWellFoundedOn(StrictSubsetOrdering(0..N), SUBSET (0..N))
  <2> HIDE DEF T
  <2>1. IsFiniteSet(0..N)
    BY FS_Interval
  <2>2. FiniteSubsetsOf(0..N) = SUBSET (0..N)
    BY <2>1, FS_FiniteSubsetsOfFinite
  <2> QED BY <2>2, FS_StrictSubsetOrderingWellFounded
<1>2. T \subseteq SUBSET (0..N) /\ T # {}
  OBVIOUS
<1>3. PICK A \in T : \A B \in T : <<B, A>> \notin StrictSubsetOrdering(0..N)
  <2> HIDE DEF T
  <2> QED BY <1>1, <1>2, WFMin
<1>4. PICK m \in D : A = Above(m)
  OBVIOUS
<1>5. ASSUME NEW x \in D, x > m PROVE FALSE
  <2>1. Above(x) \subseteq Above(m) /\ x \in Above(m) /\ x \notin Above(x)
    <3>1. x \in Nat /\ m \in Nat /\ \A y \in D : y \in Nat
      OBVIOUS
    <3>2. x \in Above(m) /\ x \notin Above(x)
      BY <1>5, <3>1
    <3>3. ASSUME NEW y \in D, y > x PROVE y > m
      <4>1. y \in Nat
        BY <3>1
      <4> QED BY <1>5, <3>1, <3>3, <4>1
    <3> QED BY <3>2, <3>3
  <2>2. Above(x) \in T /\ Above(x) \in SUBSET (0..N) /\ Above(m) \in SUBSET (0..N)
    OBVIOUS
  <2>3. <<Above(x), Above(m)>> \in StrictSubsetOrdering(0..N)
    <3> HIDE DEF Above
    <3> QED BY <2>1, <2>2 DEF StrictSubsetOrdering
  <2> QED BY <1>3, <1>4, <2>2, <2>3
<1> QED BY <1>5

LEMMA MaxIs ==
  ASSUME NEW N \in Nat, NEW D \in SUBSET (0..N), D # {}
  PROVE  Max(D) \in D /\ \A x \in D : Max(D) >= x
BY GreatestExists DEF Max

LEMMA MaxUnique ==
  ASSUME NEW D \in SUBSET Int, NEW m \in D, \A x \in D : m >= x
  PROVE  Max(D) = m
<1>1. Max(D) \in D /\ \A x \in D : Max(D) >= x
  BY DEF Max
<1>2. Max(D) >= m /\ m >= Max(D) /\ Max(D) \in Int /\ m \in Int
  BY <1>1
<1> QED BY <1>2

\* The least number is as far from the bound as the distances go.
LEMMA LeastExists ==
  ASSUME NEW N \in Nat, NEW D \in SUBSET (0..N), D # {}
  PROVE  \E m \in D : \A x \in D : m <= x
<1> DEFINE E == {N - x : x \in D}
<1>1. E \in SUBSET (0..N)
  OBVIOUS
<1>2. E # {}
  <2>1. PICK x \in D : TRUE
    OBVIOUS
  <2>2. N - x \in E
    OBVIOUS
  <2> QED BY <2>2
<1>3. PICK e \in E : \A y \in E : e >= y
  <2> HIDE DEF E
  <2> QED BY <1>1, <1>2, GreatestExists
<1>4. PICK m \in D : e = N - m
  OBVIOUS
<1>5. ASSUME NEW x \in D PROVE m <= x
  <2>1. N - m >= N - x /\ x \in Int /\ m \in Int
    BY <1>3, <1>4
  <2> QED BY <2>1
<1> QED BY <1>5

LEMMA MinIs ==
  ASSUME NEW N \in Nat, NEW D \in SUBSET (0..N), D # {}
  PROVE  Min(D) \in D /\ \A x \in D : Min(D) <= x
BY LeastExists DEF Min

LEMMA MinUnique ==
  ASSUME NEW D \in SUBSET Int, NEW m \in D, \A x \in D : m <= x
  PROVE  Min(D) = m
<1>1. Min(D) \in D /\ \A x \in D : Min(D) <= x
  BY DEF Min
<1>2. Min(D) <= m /\ m <= Min(D) /\ Min(D) \in Int /\ m \in Int
  BY <1>1
<1> QED BY <1>2

-----------------------------------------------------------------------------
(* Induction over the numbers up to a bound, for a set of numbers *)

\* The greatest number up to which all are in the set is the bound.
LEMMA Induction ==
  ASSUME NEW N \in Nat, NEW S, 0 \in S, \A n \in 0..N - 1 : n \in S => n + 1 \in S
  PROVE  0..N \subseteq S
<1> DEFINE D == {d \in 0..N : 0..d \subseteq S}
<1>1. D \in SUBSET (0..N) /\ 0 \in D
  OBVIOUS
<1>2. PICK m \in D : \A x \in D : m >= x
  <2> HIDE DEF D
  <2> QED BY <1>1, GreatestExists
<1>3. m \in 0..N /\ 0..m \subseteq S
  OBVIOUS
<1>4. CASE m = N
  BY <1>3, <1>4
<1>5. CASE m # N
  <2>1. m \in 0..N - 1 /\ m \in S
    BY <1>3, <1>5
  <2>2. m + 1 \in S /\ m + 1 \in 0..N
    BY <2>1
  <2>3. 0..(m + 1) \subseteq S
    BY <1>3, <2>2
  <2>4. m + 1 \in D
    BY <2>2, <2>3
  <2>5. m >= m + 1
    <3> HIDE DEF D
    <3> QED BY <1>2, <2>4
  <2> QED BY <1>3, <2>5
<1> QED BY <1>4, <1>5

\* The same downwards, from the bound.
LEMMA InductionDown ==
  ASSUME NEW N \in Nat, NEW S, N \in S, \A n \in 1..N : n \in S => n - 1 \in S
  PROVE  0..N \subseteq S
<1> DEFINE T == {n \in 0..N : N - n \in S}
<1>1. 0 \in T
  OBVIOUS
<1>2. ASSUME NEW n \in 0..N - 1, n \in T PROVE n + 1 \in T
  <2>1. N - n \in 1..N /\ N - n \in S
    BY <1>2
  <2>2. N - n - 1 \in S
    BY <2>1
  <2>3. N - (n + 1) = N - n - 1 /\ n + 1 \in 0..N
    BY <1>2
  <2> QED BY <2>2, <2>3
<1>3. 0..N \subseteq T
  <2> HIDE DEF T
  <2> QED BY <1>1, <1>2, Induction
<1>4. ASSUME NEW n \in 0..N PROVE n \in S
  <2>1. N - n \in 0..N /\ N - (N - n) = n
    BY <1>4
  <2> QED BY <1>3, <2>1
<1> QED BY <1>4
=============================================================================
