--------------------------- MODULE HttpTextProofs ---------------------------
(***************************************************************************)
(* What http_conn makes of a text, for texts of any length: of the lines   *)
(* of a header the fields that they say, of a query the first value of     *)
(* each key, of a form the last one.                                       *)
(***************************************************************************)
EXTENDS HttpText, DataLemmas, TLAPS, SequenceTheorems, FiniteSetTheorems

-----------------------------------------------------------------------------
(* Sequences *)

LEMMA OneElement ==
  ASSUME NEW S, NEW e \in S
  PROVE  <<e>> \in Seq(S) /\ Len(<<e>>) = 1
<1>1. <<e>> = [i \in 1..1 |-> e]
  OBVIOUS
<1>2. [i \in 1..1 |-> e] \in Seq(S)
  BY IsASeq
<1> QED BY <1>1, <1>2, LenProperties

LEMMA Listed ==
  ASSUME NEW n \in Nat, NEW s, s = [i \in 1..n |-> s[i]]
  PROVE  IsSequence(s) /\ Len(s) = n
<1> DEFINE S == {s[i] : i \in 1..n}
<1>1. \A i \in 1..n : s[i] \in S
  OBVIOUS
<1>2. [i \in 1..n |-> s[i]] \in Seq(S)
  <2> HIDE DEF S
  <2> QED BY <1>1, IsASeq
<1> HIDE DEF S
<1>3. s \in Seq(S) /\ DOMAIN s = 1..n
  BY <1>2
<1>4. Len(s) = n
  BY <1>3, LenProperties
<1> QED BY <1>4 DEF IsSequence

\* What is appended to a sequence of whatever elements.
Grown(s, e, t) ==
  /\ IsSequence(t) /\ Len(t) = Len(s) + 1 /\ t[Len(s) + 1] = e
  /\ \A i \in 1..Len(s) : t[i] = s[i]

LEMMA OneMore ==
  ASSUME NEW s, NEW e, IsSequence(s)
  PROVE  Grown(s, e, Append(s, e))
<1> DEFINE S == {s[i] : i \in 1..Len(s)} \cup {e}
           t == Append(s, e)
<1>1. s \in Seq(S) /\ e \in S
  <2>1. \A i \in 1..Len(s) : s[i] \in S
    OBVIOUS
  <2> QED BY <2>1, IsASeq DEF IsSequence
<1> HIDE DEF S
<1>2. t \in Seq(S) /\ Len(t) = Len(s) + 1 /\ Len(t) \in Nat
  BY <1>1, AppendProperties, LenProperties
<1>3. t[Len(s) + 1] = e /\ \A i \in 1..Len(s) : t[i] = s[i]
  BY <1>1, AppendProperties
<1> HIDE DEF t
<1>4. t = [i \in 1..Len(t) |-> t[i]]
  BY <1>2, LenProperties
<1>5. Grown(s, e, t)
  BY <1>2, <1>3, <1>4 DEF IsSequence, Grown
<1> QED BY <1>5 DEF t

-----------------------------------------------------------------------------
(* The lines of a header: the loop over them *)

\* What is read after each number of the first n lines.
Read(lines, n, h) ==
  h = [i \in 0..n |-> IF i = 0 THEN NoHeader ELSE HeaderLine(h[i - 1], lines[i])]

LEMMA Readable ==
  ASSUME NEW lines, NEW N \in Nat
  PROVE  \E h : Read(lines, N, h)
<1> DEFINE S == {n \in 0..N : \E h : Read(lines, n, h)}
<1>1. 0 \in S
  <2>1. Read(lines, 0, [i \in 0..0 |-> NoHeader])
    BY DEF Read
  <2> QED BY <2>1
<1>2. ASSUME NEW n \in 0..N - 1, n \in S PROVE n + 1 \in S
  <2>1. PICK h : Read(lines, n, h)
    BY <1>2
  <2>2. PICK g : g = [i \in 0..n + 1 |-> IF i = n + 1 THEN HeaderLine(h[n], lines[i]) ELSE h[i]]
    OBVIOUS
  <2>3. \A i \in 0..n : g[i] = h[i] /\ h[i] = IF i = 0 THEN NoHeader ELSE HeaderLine(h[i - 1], lines[i])
    BY <2>1, <2>2 DEF Read
  <2>4. ASSUME NEW i \in 0..n + 1
        PROVE  g[i] = IF i = 0 THEN NoHeader ELSE HeaderLine(g[i - 1], lines[i])
    <3>1. CASE i = n + 1
      BY <2>2, <2>3, <3>1
    <3>2. CASE i # n + 1 /\ i # 0
      <4>1. i \in 0..n /\ i - 1 \in 0..n
        BY <3>2
      <4> QED BY <2>3, <3>2, <4>1
    <3>3. CASE i = 0
      BY <2>3, <3>3
    <3> QED BY <3>1, <3>2, <3>3
  <2>5. Read(lines, n + 1, g)
    BY <2>2, <2>4 DEF Read
  <2> QED BY <1>2, <2>5
<1>3. 0..N \subseteq S
  <2> HIDE DEF S
  <2> QED BY <1>1, <1>2, Induction
<1> QED BY <1>3

LEMMA HeaderFieldsRead ==
  ASSUME NEW lines, Len(lines) \in Nat
  PROVE  \E h : Read(lines, Len(lines), h) /\ HeaderFields(lines) = h[Len(lines)].fields
<1> DEFINE h == CHOOSE h : Read(lines, Len(lines), h)
<1>1. Read(lines, Len(lines), h)
  BY Readable
<1>2. HeaderFields(lines) = h[Len(lines)].fields
  BY DEF HeaderFields, Read
<1> QED BY <1>1, <1>2

-----------------------------------------------------------------------------
(* The lines of a header: what the loop has after n of them *)

\* Of the first n lines, i is the last one with its name, and u the last one
\* that belongs to it.
Latest(lines, n, i) ==
  lines[i].name # Folded /\ \A k \in i + 1..n : lines[k].name # lines[i].name
Ends(lines, n, i, u) ==
  /\ \A k \in i + 1..u : lines[k].name = Folded
  /\ u < n => lines[u + 1].name # Folded

\* The values of line i when u is the last line that belongs to it.
Said(lines, i, u) ==
  [k \in DOMAIN lines[i].values |->
     IF k < Len(lines[i].values) THEN <<lines[i].values[k]>>
     ELSE [l \in 1..u - i + 1 |->
             IF l = 1 THEN lines[i].values[k] ELSE lines[i + l - 1].values[1]]]

SoFar(lines, n, h) ==
  /\ h = [fields |-> h.fields, last |-> h.last]
  /\ h.fields = [name \in {lines[i].name : i \in 1..n} \ {Folded} |-> h.fields[name]]
  /\ \A i \in 1..n : \A u \in i..n :
       Latest(lines, n, i) /\ Ends(lines, n, i, u)
         => h.fields[lines[i].name] = Said(lines, i, u)
  /\ \A j \in 1..n :
       lines[j].name \notin {Folded, UserAgent} /\ (\A k \in j + 1..n : lines[k].name = Folded)
         => h.last = lines[j].name

\* Lines that can be read.
Legible(lines) ==
  /\ IsSequence(lines) /\ \A i \in DOMAIN lines : IsSequence(lines[i].values)
  /\ Placed(lines)

\* A line with a name.
LEMMA FieldSoFar ==
  ASSUME NEW lines, Legible(lines), NEW n \in 0..Len(lines) - 1, NEW h, SoFar(lines, n, h),
         lines[n + 1].name # Folded
  PROVE  SoFar(lines, n + 1, HeaderLine(h, lines[n + 1]))
<1>1. PICK line, name, g, v :
        /\ line = lines[n + 1] /\ name = line.name /\ g = HeaderLine(h, line)
        /\ v = [i \in DOMAIN line.values |-> <<line.values[i]>>]
  OBVIOUS
<1>2. n \in Nat /\ n + 1 \in 1..Len(lines) /\ IsSequence(line.values) /\ name # Folded
  <2>1. Len(lines) \in Nat /\ DOMAIN lines = 1..Len(lines)
    BY DEF Legible, IsSequence
  <2>2. n \in Nat /\ n + 1 \in 1..Len(lines)
    BY <2>1
  <2> QED BY <1>1, <2>1, <2>2 DEF Legible
<1>3. g = [fields |-> Assigned(h.fields, name, v),
           last   |-> IF name = UserAgent THEN h.last ELSE name]
  BY <1>1, <1>2 DEF HeaderLine
<1>4. PICK F, G : F = h.fields /\ G = g.fields
  OBVIOUS
<1>5. /\ g = [fields |-> G, last |-> g.last] /\ G = Assigned(F, name, v)
      /\ g.last = IF name = UserAgent THEN h.last ELSE name
  BY <1>3, <1>4
<1>6. F = [x \in {lines[i].name : i \in 1..n} \ {Folded} |-> F[x]]
  BY <1>4 DEF SoFar
<1>7. /\ G = [x \in DOMAIN F \cup {name} |-> G[x]] /\ G[name] = v
      /\ \A x \in DOMAIN F : x # name => G[x] = F[x]
  BY <1>5 DEF Assigned
<1>8. DOMAIN G = {lines[i].name : i \in 1..n + 1} \ {Folded}
  BY <1>1, <1>2, <1>6, <1>7
<1>9. v = Said(lines, n + 1, n + 1)
  <2>1. PICK L : L = Len(line.values) /\ L \in Nat /\ DOMAIN line.values = 1..L
    BY <1>2 DEF IsSequence
  <2>2. \A x : <<x>> = [l \in 1..1 |-> x]
    OBVIOUS
  <2>3. \A k \in 1..L :
          <<line.values[k]>> = IF k < L THEN <<line.values[k]>>
                               ELSE [l \in 1..1 |-> IF l = 1 THEN line.values[k]
                                                   ELSE lines[n + 1 + l - 1].values[1]]
    BY <2>2
  <2>4. (n + 1) - (n + 1) + 1 = 1
    BY <1>2
  <2> QED BY <1>1, <2>1, <2>3, <2>4 DEF Said
<1>10. ASSUME NEW i \in 1..n + 1, NEW u \in i..n + 1,
              Latest(lines, n + 1, i), Ends(lines, n + 1, i, u)
       PROVE  G[lines[i].name] = Said(lines, i, u)
  <2>1. CASE i = n + 1
    <3>1. u = n + 1
      BY <1>2, <2>1
    <3> QED BY <1>1, <1>7, <1>9, <2>1, <3>1
  <2>2. CASE i # n + 1
    <3>1. i \in 1..n /\ n + 1 \in i + 1..n + 1
      BY <1>2, <2>2
    <3>2. lines[i].name # name /\ lines[i].name # Folded
      BY <1>1, <1>10, <3>1 DEF Latest
    <3>3. u # n + 1
      BY <1>1, <1>2, <1>10, <3>1 DEF Ends
    <3>4. u \in i..n
      BY <1>2, <3>1, <3>3
    <3>5. Latest(lines, n, i) /\ Ends(lines, n, i, u)
      BY <1>2, <1>10, <3>1, <3>4 DEF Latest, Ends
    <3>6. F[lines[i].name] = Said(lines, i, u)
      BY <1>4, <3>1, <3>4, <3>5 DEF SoFar
    <3>7. lines[i].name \in DOMAIN F
      BY <1>6, <3>1, <3>2
    <3> QED BY <1>7, <3>2, <3>6, <3>7
  <2> QED BY <2>1, <2>2
<1>11. ASSUME NEW j \in 1..n + 1, lines[j].name \notin {Folded, UserAgent},
              \A k \in j + 1..n + 1 : lines[k].name = Folded
       PROVE  g.last = lines[j].name
  <2>1. j = n + 1
    <3>1. n + 1 \notin j + 1..n + 1
      BY <1>1, <1>2, <1>11
    <3> QED BY <1>2, <3>1
  <2> QED BY <1>1, <1>5, <1>11, <2>1
<1>12. G = [x \in {lines[i].name : i \in 1..n + 1} \ {Folded} |-> G[x]]
  BY <1>7, <1>8
<1>13. G = g.fields
  BY <1>4
<1>14. SoFar(lines, n + 1, g)
  <2>1. g = [fields |-> g.fields, last |-> g.last]
    BY <1>5, <1>13
  <2>2. g.fields = [x \in {lines[i].name : i \in 1..n + 1} \ {Folded} |-> g.fields[x]]
    BY <1>12, <1>13
  <2>3. \A i \in 1..n + 1 : \A u \in i..n + 1 :
          Latest(lines, n + 1, i) /\ Ends(lines, n + 1, i, u) => g.fields[lines[i].name] = Said(lines, i, u)
    BY <1>10, <1>13
  <2> QED BY <1>11, <2>1, <2>2, <2>3, Zenon DEF SoFar
<1> QED BY <1>1, <1>14

\* A line that continues another.
LEMMA FoldedSoFar ==
  ASSUME NEW lines, Legible(lines), NEW n \in 0..Len(lines) - 1, NEW h, SoFar(lines, n, h),
         lines[n + 1].name = Folded
  PROVE  SoFar(lines, n + 1, HeaderLine(h, lines[n + 1]))
<1>1. PICK text, F : text = lines[n + 1].values[1] /\ F = h.fields
  OBVIOUS
<1>2. Len(lines) \in Nat /\ DOMAIN lines = 1..Len(lines) /\ n \in Nat /\ n + 1 \in 1..Len(lines)
  BY DEF Legible, IsSequence
<1>3. PICK j \in 1..n : /\ lines[j].name \notin {NoName, Folded, UserAgent}
                        /\ lines[j].values # <<>>
                        /\ \A k \in j + 1..n + 1 : lines[k].name = Folded
  BY <1>2 DEF Legible, Placed
<1>4. PICK name, L : name = lines[j].name /\ L = Len(lines[j].values)
  OBVIOUS
<1>5. L \in Nat \ {0} /\ DOMAIN lines[j].values = 1..L
  <2>1. IsSequence(lines[j].values)
    BY <1>2, <1>3 DEF Legible
  <2>2. L \in Nat /\ DOMAIN lines[j].values = 1..L /\ lines[j].values = [i \in 1..L |-> lines[j].values[i]]
    BY <1>4, <2>1 DEF IsSequence
  <2>3. L # 0
    <3>1. [i \in 1..0 |-> lines[j].values[i]] = <<>>
      OBVIOUS
    <3> QED BY <1>3, <2>2, <3>1
  <2> QED BY <2>2, <2>3
<1>6. h.last = name /\ name # NoName
  BY <1>2, <1>3, <1>4 DEF SoFar
<1>7. /\ F = [x \in {lines[i].name : i \in 1..n} \ {Folded} |-> F[x]]
      /\ name \in DOMAIN F
  BY <1>1, <1>2, <1>3, <1>4 DEF SoFar
<1>8. F[name] = Said(lines, j, n)
  <2>1. Latest(lines, n, j) /\ Ends(lines, n, j, n)
    BY <1>2, <1>3 DEF Latest, Ends
  <2>2. n \in j..n
    BY <1>2, <1>3
  <2> QED BY <1>1, <1>3, <1>4, <2>1, <2>2 DEF SoFar
<1>9. Continued(Said(lines, j, n), text) = Said(lines, j, n + 1)
  <2>1. PICK v, w : v = Said(lines, j, n) /\ w = Said(lines, j, n + 1)
    OBVIOUS
  <2>2. PICK p, q :
          /\ p = [l \in 1..n - j + 1 |-> IF l = 1 THEN lines[j].values[L] ELSE lines[j + l - 1].values[1]]
          /\ q = [l \in 1..n + 1 - j + 1 |-> IF l = 1 THEN lines[j].values[L] ELSE lines[j + l - 1].values[1]]
    OBVIOUS
  <2>3. /\ v = [k \in 1..L |-> IF k < L THEN <<lines[j].values[k]>> ELSE p]
        /\ w = [k \in 1..L |-> IF k < L THEN <<lines[j].values[k]>> ELSE q]
    <3>1. ASSUME NEW k \in 1..L, k >= L PROVE k = L
      BY <1>5, <3>1
    <3>2. v = [k \in 1..L |-> IF k < L THEN <<lines[j].values[k]>>
                             ELSE [l \in 1..n - j + 1 |-> IF l = 1 THEN lines[j].values[k]
                                                         ELSE lines[j + l - 1].values[1]]]
      BY <1>4, <1>5, <2>1 DEF Said
    <3>3. w = [k \in 1..L |-> IF k < L THEN <<lines[j].values[k]>>
                             ELSE [l \in 1..n + 1 - j + 1 |-> IF l = 1 THEN lines[j].values[k]
                                                             ELSE lines[j + l - 1].values[1]]]
      BY <1>4, <1>5, <2>1 DEF Said
    <3>4. \A k \in 1..L : k < L \/ k = L
      BY <1>5, <3>1
    <3>5. \A k \in 1..L : v[k] = IF k < L THEN <<lines[j].values[k]>> ELSE p
      BY <2>2, <3>2, <3>4
    <3>6. \A k \in 1..L : w[k] = IF k < L THEN <<lines[j].values[k]>> ELSE q
      BY <2>2, <3>3, <3>4
    <3>7. v = [k \in 1..L |-> v[k]] /\ w = [k \in 1..L |-> w[k]]
      BY <3>2, <3>3
    <3> QED BY <3>5, <3>6, <3>7
  <2>4. Len(v) = L
    <3>1. v = [k \in 1..L |-> v[k]]
      BY <2>3
    <3> QED BY <1>5, <3>1, Listed
  <2>5. Append(p, text) = q
    <3>1. n - j + 1 \in Nat \ {0} /\ n + 1 - j + 1 = n - j + 1 + 1 /\ n + 1 - j + 1 \in Nat
      BY <1>2, <1>3
    <3>2. IsSequence(p) /\ Len(p) = n - j + 1
      <4>1. p = [l \in 1..n - j + 1 |-> p[l]]
        BY <2>2
      <4> QED BY <3>1, <4>1, Listed
    <3>3. PICK a : a = Append(p, text)
      OBVIOUS
    <3>4. Grown(p, text, a)
      BY <3>2, <3>3, OneMore
    <3>5. a = [l \in 1..n - j + 1 + 1 |-> a[l]] /\ a[n - j + 1 + 1] = text
          /\ \A l \in 1..n - j + 1 : a[l] = p[l]
      BY <3>2, <3>4 DEF Grown, IsSequence
    <3>6. q[n - j + 1 + 1] = text
      BY <1>1, <2>2, <3>1
    <3>7. \A l \in 1..n - j + 1 : p[l] = q[l]
      BY <2>2, <3>1
    <3>8. q = [l \in 1..n - j + 1 + 1 |-> q[l]]
      BY <2>2, <3>1
    <3>9. PICK M : M = n - j + 1 + 1 /\ M \in Nat \ {0}
      BY <3>1
    <3>10. \A l \in 1..M : a[l] = q[l]
      <4>1. ASSUME NEW l \in 1..M PROVE a[l] = q[l]
        <5>1. CASE l = M
          BY <3>5, <3>6, <3>9, <5>1
        <5>2. CASE l # M
          <6>1. l \in 1..n - j + 1
            BY <1>2, <3>9, <5>2
          <6> QED BY <3>5, <3>7, <6>1
        <5> QED BY <5>1, <5>2
      <4> QED BY <4>1
    <3>11. a = [l \in 1..M |-> a[l]] /\ q = [l \in 1..M |-> q[l]]
      BY <3>5, <3>8, <3>9
    <3>12. a = q
      BY <3>10, <3>11
    <3> QED BY <3>3, <3>12
  <2>6. Continued(v, text) = [v EXCEPT ![L] = q]
    <3>1. v[L] = p
      BY <1>5, <2>3
    <3> QED BY <2>4, <2>5, <3>1 DEF Continued
  <2>7. [v EXCEPT ![L] = q] = w
    <3>1. PICK x : x = [v EXCEPT ![L] = q]
      OBVIOUS
    <3>2. v = [k \in 1..L |-> v[k]] /\ w = [k \in 1..L |-> w[k]]
      BY <2>3
    <3>3. x = [k \in 1..L |-> x[k]]
      BY <3>1, <3>2
    <3>4. \A k \in 1..L : x[k] = IF k = L THEN q ELSE v[k]
      BY <3>1, <3>2
    <3>5. \A k \in 1..L : (k = L /\ ~(k < L)) \/ (k # L /\ k < L)
      BY <1>5
    <3>6. \A k \in 1..L : x[k] = w[k]
      BY <2>3, <3>4, <3>5
    <3>7. x = w
      BY <3>2, <3>3, <3>6
    <3> QED BY <3>1, <3>7
  <2> QED BY <2>1, <2>6, <2>7
<1>10. PICK g, G : g = HeaderLine(h, lines[n + 1]) /\ G = g.fields
  OBVIOUS
<1>11. g = [fields |-> [F EXCEPT ![name] = Said(lines, j, n + 1)], last |-> h.last]
  <2>1. g = [h EXCEPT !.fields[name] = Continued(h.fields[name], text)]
    BY <1>1, <1>6, <1>10 DEF HeaderLine
  <2>2. h = [fields |-> F, last |-> h.last]
    BY <1>1 DEF SoFar
  <2> QED BY <1>1, <1>8, <1>9, <2>1, <2>2
<1>12. /\ g = [fields |-> G, last |-> g.last] /\ g.last = h.last
       /\ G = [F EXCEPT ![name] = Said(lines, j, n + 1)]
  BY <1>10, <1>11
<1>13. G = [x \in {lines[i].name : i \in 1..n + 1} \ {Folded} |-> G[x]]
  <2>1. {lines[i].name : i \in 1..n + 1} \ {Folded} = {lines[i].name : i \in 1..n} \ {Folded}
    BY <1>2
  <2> QED BY <1>7, <1>12, <2>1
<1>14. ASSUME NEW i \in 1..n + 1, NEW u \in i..n + 1,
              Latest(lines, n + 1, i), Ends(lines, n + 1, i, u)
       PROVE  G[lines[i].name] = Said(lines, i, u)
  <2>1. i \in 1..n /\ Latest(lines, n, i)
    BY <1>2, <1>14 DEF Latest
  <2>2. CASE i = j
    <3>1. u = n + 1
      BY <1>2, <1>3, <1>14, <2>2 DEF Ends
    <3> QED BY <1>4, <1>7, <1>12, <2>2, <3>1
  <2>3. CASE i # j
    <3>1. lines[i].name # Folded /\ lines[j].name # Folded
      BY <1>3, <2>1 DEF Latest
    <3>2. i < j
      <4>1. i <= j
        BY <1>2, <1>3, <2>1, <3>1
      <4> QED BY <1>3, <2>1, <2>3, <4>1
    <3>3. lines[i].name # name
      BY <1>2, <1>3, <1>4, <2>1, <3>2 DEF Latest
    <3>4. u \in i..n
      <4>1. u # n + 1
        BY <1>2, <1>3, <1>14, <2>1, <3>1, <3>2 DEF Ends
      <4> QED BY <1>2, <2>1, <4>1
    <3>5. Ends(lines, n, i, u)
      BY <1>2, <1>14, <3>4 DEF Ends
    <3>6. F[lines[i].name] = Said(lines, i, u)
      BY <1>1, <2>1, <3>4, <3>5 DEF SoFar
    <3>7. lines[i].name \in DOMAIN F
      BY <1>7, <2>1, <3>1
    <3> QED BY <1>12, <3>3, <3>6, <3>7
  <2> QED BY <2>2, <2>3
<1>15. ASSUME NEW m \in 1..n + 1, lines[m].name \notin {Folded, UserAgent},
              \A k \in m + 1..n + 1 : lines[k].name = Folded
       PROVE  g.last = lines[m].name
  <2>1. m \in 1..n
    BY <1>2, <1>15
  <2>2. \A k \in m + 1..n : lines[k].name = Folded
    BY <1>2, <1>15, <2>1
  <2> QED BY <1>12, <1>15, <2>1, <2>2 DEF SoFar
<1>16. G = g.fields /\ g = [fields |-> G, last |-> g.last]
  BY <1>10, <1>12
<1>17. SoFar(lines, n + 1, g)
  BY <1>13, <1>14, <1>15, <1>16 DEF SoFar
<1> QED BY <1>10, <1>17

\* What is read of the lines of a header is what they say.
THEOREM FieldsRead ==
  ASSUME NEW lines, Legible(lines)
  PROVE  HeaderFields(lines) = [name \in Names(lines) |-> Values(lines, LastNamed(lines, name))]
<1>1. PICK N : N = Len(lines)
  OBVIOUS
<1>2. N \in Nat /\ DOMAIN lines = 1..N
  BY <1>1 DEF Legible, IsSequence
<1>3. PICK h : Read(lines, N, h) /\ HeaderFields(lines) = h[N].fields
  BY <1>1, <1>2, HeaderFieldsRead
<1>4. SoFar(lines, N, h[N])
  <2> DEFINE S == {n \in 0..N : SoFar(lines, n, h[n])}
  <2>1. 0 \in S
    <3>1. h[0] = NoHeader
      BY <1>2, <1>3 DEF Read
    <3>2. SoFar(lines, 0, NoHeader)
      BY DEF SoFar, NoHeader, NoEntries
    <3> QED BY <1>2, <3>1, <3>2
  <2>2. ASSUME NEW n \in 0..N - 1, n \in S PROVE n + 1 \in S
    <3>1. n \in 0..Len(lines) - 1 /\ n + 1 \in 0..N /\ SoFar(lines, n, h[n])
      BY <1>1, <1>2, <2>2
    <3>2. h[n + 1] = HeaderLine(h[n], lines[n + 1])
      <4>1. \A i \in 0..N : h[i] = IF i = 0 THEN NoHeader ELSE HeaderLine(h[i - 1], lines[i])
        BY <1>3 DEF Read
      <4>2. PICK m : m = n + 1
        OBVIOUS
      <4>3. m \in 0..N /\ m # 0 /\ m - 1 = n
        BY <1>2, <3>1, <4>2
      <4> QED BY <4>1, <4>2, <4>3
    <3>3. SoFar(lines, n + 1, h[n + 1])
      BY <3>1, <3>2, FieldSoFar, FoldedSoFar
    <3> QED BY <3>1, <3>3
  <2>3. 0..N \subseteq S
    <3> HIDE DEF S
    <3> QED BY <1>2, <2>1, <2>2, Induction
  <2> QED BY <1>2, <2>3
<1>5. PICK F : F = HeaderFields(lines)
  OBVIOUS
<1>6. F = [name \in Names(lines) |-> F[name]]
  BY <1>2, <1>3, <1>4, <1>5 DEF SoFar, Names
<1>7. ASSUME NEW name \in Names(lines) PROVE F[name] = Values(lines, LastNamed(lines, name))
  <2>1. PICK i : i = LastNamed(lines, name)
    OBVIOUS
  <2>2. i \in 1..N /\ lines[i].name = name /\ \A k \in 1..N : lines[k].name = name => i >= k
    <3>1. PICK D : D = {k \in DOMAIN lines : lines[k].name = name}
      OBVIOUS
    <3>2. D \in SUBSET (0..N) /\ D # {}
      BY <1>2, <1>7, <3>1 DEF Names
    <3>3. Max(D) \in D /\ \A k \in D : Max(D) >= k
      BY <1>2, <3>2, MaxIs
    <3>4. i = Max(D)
      BY <2>1, <3>1 DEF LastNamed
    <3> QED BY <1>2, <3>1, <3>3, <3>4
  <2>3. Latest(lines, N, i)
    BY <1>2, <1>7, <2>2 DEF Latest, Names
  <2>4. PICK u : u = Until(lines, i)
    OBVIOUS
  <2>5. u \in i..N /\ Ends(lines, N, i, u)
    <3>1. PICK D : D = {j \in i..N : \A k \in i + 1..j : lines[k].name = Folded}
      OBVIOUS
    <3>2. D \in SUBSET (0..N) /\ i \in D
      BY <1>2, <2>2, <3>1
    <3>3. Max(D) \in D /\ \A k \in D : Max(D) >= k
      BY <1>2, <3>2, MaxIs
    <3>4. u = Max(D)
      BY <1>1, <2>4, <3>1 DEF Until
    <3>5. u \in i..N /\ \A k \in i + 1..u : lines[k].name = Folded
      BY <3>1, <3>3, <3>4
    <3>6. ASSUME u < N, lines[u + 1].name = Folded PROVE FALSE
      <4>1. u + 1 \in i..N /\ u \in Int
        BY <1>2, <2>2, <3>5, <3>6
      <4>2. \A k \in i + 1..u + 1 : lines[k].name = Folded
        BY <2>2, <3>5, <3>6, <4>1
      <4>3. u + 1 \in D
        BY <3>1, <4>1, <4>2
      <4> QED BY <3>3, <3>4, <4>1, <4>3
    <3> QED BY <3>5, <3>6 DEF Ends
  <2>6. F[name] = Said(lines, i, u)
    BY <1>2, <1>3, <1>4, <1>5, <2>2, <2>3, <2>5 DEF SoFar
  <2> QED BY <2>1, <2>4, <2>6 DEF Said, Values
<1> QED BY <1>5, <1>6, <1>7
-----------------------------------------------------------------------------
(* Places in a text *)

\* e is the first place from start on with one of chars, npos if there is none.
Found(text, chars, start, e) ==
  \/ e = npos /\ \A i \in start..Len(text) - 1 : text[i + 1] \notin chars
  \/ /\ e \in start..Len(text) - 1 /\ text[e + 1] \in chars
     /\ \A i \in start..e - 1 : text[i + 1] \notin chars

LEMMA FindFirst ==
  ASSUME NEW text, NEW chars, NEW start \in Nat, Len(text) \in Nat
  PROVE  Found(text, chars, start, FindFirstOf(text, chars, start))
<1>1. PICK found : found = {i \in start..Len(text) - 1 : text[i + 1] \in chars}
  OBVIOUS
<1>2. PICK e : e = FindFirstOf(text, chars, start) /\ e = IF found = {} THEN npos ELSE Min(found)
  BY <1>1 DEF FindFirstOf
<1>3. CASE found = {}
  BY <1>1, <1>2, <1>3 DEF Found
<1>4. CASE found # {}
  <2>1. found \in SUBSET (0..Len(text))
    BY <1>1
  <2>2. e \in found /\ \A i \in found : e <= i
    <3>1. Min(found) \in found /\ \A i \in found : Min(found) <= i
      BY <1>4, <2>1, MinIs
    <3> QED BY <1>2, <1>4, <3>1
  <2>3. ASSUME NEW i \in start..e - 1 PROVE text[i + 1] \notin chars
    <3>1. i \notin found /\ i \in start..Len(text) - 1
      BY <1>1, <2>2
    <3> QED BY <1>1, <3>1
  <2> QED BY <1>1, <1>2, <2>2, <2>3 DEF Found
<1> QED BY <1>2, <1>3, <1>4

LEMMA FirstFound ==
  ASSUME NEW text, NEW chars, NEW start \in Nat, Len(text) \in Nat, NEW e,
         Found(text, chars, start, e)
  PROVE  FindFirstOf(text, chars, start) = e
<1>1. PICK d : d = FindFirstOf(text, chars, start) /\ Found(text, chars, start, d)
  BY FindFirst
<1>2. CASE d = npos
  BY <1>1, <1>2 DEF Found, npos
<1>3. CASE d # npos /\ e = npos
  BY <1>1, <1>3 DEF Found, npos
<1>4. CASE d # npos /\ e # npos
  <2>1. d \in start..Len(text) - 1 /\ e \in start..Len(text) - 1
    BY <1>1, <1>4 DEF Found
  <2>2. ~(d < e) /\ ~(e < d)
    BY <1>1, <1>4, <2>1 DEF Found
  <2> QED BY <1>1, <2>1, <2>2
<1> QED BY <1>1, <1>2, <1>3, <1>4

\* The n characters behind the first i ones; the same characters at two places
\* make the same text.
Part(text, i, n) == SubSeq(text, i + 1, i + n)
Alike(a, i, b, j, n) ==
  /\ i \in Nat /\ j \in Nat /\ n \in Nat /\ i + n <= Len(a) /\ j + n <= Len(b)
  /\ \A k \in 1..n : a[i + k] = b[j + k]

LEMMA SameText ==
  ASSUME NEW S, NEW a \in Seq(S), NEW b \in Seq(S), NEW i, NEW j, NEW n, Alike(a, i, b, j, n)
  PROVE  Part(a, i, n) = Part(b, j, n)
<1> USE DEF Alike, Part
<1>1. /\ Len(a) \in Nat /\ \A k \in 1..Len(a) : a[k] \in S
      /\ Len(b) \in Nat /\ \A k \in 1..Len(b) : b[k] \in S
  BY LenProperties, ElementOfSeq
<1>2. PICK x, y : x = SubSeq(a, i + 1, i + n) /\ y = SubSeq(b, j + 1, j + n)
  OBVIOUS
<1>3. i + n - (i + 1) + 1 = n /\ j + n - (j + 1) + 1 = n
      /\ (i + 1 <= i + n <=> n > 0) /\ (j + 1 <= j + n <=> n > 0)
  OBVIOUS
<1>4. x \in Seq(S) /\ Len(x) = n /\ \A k \in 1..n : x[k] = a[i + 1 + k - 1]
  <2>1. \A k \in i + 1..i + n : a[k] \in S
    BY <1>1
  <2> QED BY <1>2, <1>3, <2>1, SubSeqProperties
<1>5. y \in Seq(S) /\ Len(y) = n /\ \A k \in 1..n : y[k] = b[j + 1 + k - 1]
  <2>1. \A k \in j + 1..j + n : b[k] \in S
    BY <1>1
  <2> QED BY <1>2, <1>3, <2>1, SubSeqProperties
<1>6. \A k \in 1..n : i + 1 + k - 1 = i + k /\ j + 1 + k - 1 = j + k
  OBVIOUS
<1>7. \A k \in 1..n : x[k] = y[k]
  BY <1>4, <1>5, <1>6
<1>8. x = [k \in 1..n |-> x[k]] /\ y = [k \in 1..n |-> y[k]]
  BY <1>4, <1>5, LenProperties
<1> QED BY <1>2, <1>7, <1>8
-----------------------------------------------------------------------------
(* The pairs of a text *)

\* Where a piece ends that goes up to e.
Stop(text, e) == IF e = npos THEN Len(text) ELSE e

LEMMA StartIs ==
  ASSUME NEW S, NEW text \in Seq(S), NEW s \in Starts(text)
  PROVE  s \in 0..Len(text) /\ Len(text) \in Nat /\ \A k \in 1..Len(text) : text[k] \in S
BY LenProperties, ElementOfSeq DEF Starts

\* The piece at s goes up to e.
Cut(text, s, e, piece) ==
  /\ Found(text, {Ampersand}, s, e) /\ e = FindFirstOf(text, {Ampersand}, s)
  /\ Stop(text, e) \in s..Len(text)
  /\ Len(piece) = Stop(text, e) - s /\ \A k \in 1..Len(piece) : piece[k] = text[s + k]

LEMMA PieceIs ==
  ASSUME NEW S, NEW text \in Seq(S), NEW s \in Starts(text)
  PROVE  /\ PieceAt(text, s) \in Seq(S)
         /\ \E e : Cut(text, s, e, PieceAt(text, s))
<1>1. s \in 0..Len(text) /\ Len(text) \in Nat /\ \A k \in 1..Len(text) : text[k] \in S
  BY StartIs
<1>2. PICK e : e = FindFirstOf(text, {Ampersand}, s) /\ Found(text, {Ampersand}, s, e)
  BY <1>1, FindFirst
<1>3. PICK d, P : d = Stop(text, e) /\ P = PieceAt(text, s)
  OBVIOUS
<1>4. d \in s..Len(text) /\ d \in Nat
  BY <1>1, <1>2, <1>3 DEF Found, Stop
<1>5. P = SubSeq(text, s + 1, d)
  BY <1>2, <1>3 DEF PieceAt, SubText, Stop
<1>6. d - (s + 1) + 1 = d - s /\ (s + 1 <= d \/ d - s = 0)
  BY <1>1, <1>4
<1>7. P \in Seq(S) /\ Len(P) = d - s /\ \A k \in 1..d - s : P[k] = text[s + 1 + k - 1]
  <2>1. \A k \in s + 1..d : text[k] \in S
    BY <1>1, <1>4
  <2>2. s + 1 \in Int /\ d \in Int
    BY <1>1, <1>4
  <2> QED BY <1>5, <1>6, <2>1, <2>2, SubSeqProperties
<1>8. \A k \in 1..d - s : s + 1 + k - 1 = s + k
  BY <1>1, <1>4
<1>9. Cut(text, s, e, P)
  BY <1>2, <1>3, <1>4, <1>7, <1>8 DEF Cut
<1> QED BY <1>3, <1>7, <1>9

\* The starts up to the next one, which is behind the end of the piece.
LEMMA NextStart ==
  ASSUME NEW S, NEW text \in Seq(S), NEW s \in Starts(text), NEW e,
         Found(text, {Ampersand}, s, e)
  PROVE  /\ e # npos => /\ e + 1 \in Starts(text) /\ e \in s..Len(text) - 1
                        /\ \A i \in Starts(text) : i < e + 1 <=> i <= s
         /\ e = npos => \A i \in Starts(text) : i <= s
<1>1. s \in 0..Len(text) /\ Len(text) \in Nat /\ DOMAIN text = 1..Len(text)
  BY StartIs, LenProperties
<1>2. ASSUME NEW i \in Starts(text), i > s
      PROVE  e # npos /\ i >= e + 1
  <2>1. i \in 1..Len(text) /\ text[i] = Ampersand
    BY <1>1, <1>2 DEF Starts
  <2>2. PICK j : j = i - 1 /\ j \in s..Len(text) - 1 /\ j + 1 = i
    BY <1>1, <1>2, <2>1
  <2>3. text[j + 1] \in {Ampersand}
    BY <2>1, <2>2
  <2>4. e # npos
    <3>1. SUFFICES ASSUME e = npos PROVE FALSE
      OBVIOUS
    <3>2. \A k \in s..Len(text) - 1 : text[k + 1] \notin {Ampersand}
      BY <3>1, <1>1 DEF Found, npos
    <3> QED BY <2>2, <2>3, <3>2
  <2>5. j \notin s..e - 1 /\ e \in s..Len(text) - 1
    BY <2>2, <2>3, <2>4 DEF Found
  <2> QED BY <1>1, <2>1, <2>2, <2>4, <2>5
<1>3. \A i \in Starts(text) : i \in Int
  BY StartIs
<1>4. ASSUME e # npos
      PROVE  e + 1 \in Starts(text) /\ e \in s..Len(text) - 1
  <2>1. e \in s..Len(text) - 1 /\ text[e + 1] = Ampersand
    BY <1>4 DEF Found
  <2>2. e + 1 \in DOMAIN text
    BY <1>1, <2>1
  <2> QED BY <2>1, <2>2 DEF Starts
<1>5. ASSUME e # npos, NEW i \in Starts(text)
      PROVE  i < e + 1 <=> i <= s
  <2>1. i \in Int /\ e \in Int /\ s \in Int /\ s <= e
    BY <1>1, <1>3, <1>4, <1>5
  <2>2. i > s => i >= e + 1
    BY <1>2, <1>5
  <2> QED BY <2>1, <2>2
<1>6. ASSUME e = npos, NEW i \in Starts(text)
      PROVE  i <= s
  <2>1. i \in Int /\ s \in Int
    BY <1>1, <1>3
  <2>2. ~(i > s)
    BY <1>2, <1>6
  <2> QED BY <2>1, <2>2
<1> QED BY <1>4, <1>5, <1>6

\* The = of a pair.
LEMMA EqualIs ==
  ASSUME NEW S, NEW piece \in Seq(S), Equal \in Range(piece)
  PROVE  \E m \in 1..Len(piece) :
           /\ piece[m] = Equal /\ \A k \in 1..m - 1 : piece[k] # Equal
           /\ KeyOf(piece) = SubSeq(piece, 1, m - 1)
           /\ ValueOf(piece) = SubSeq(piece, m + 1, Len(piece))
<1>1. Len(piece) \in Nat /\ DOMAIN piece = 1..Len(piece) /\ \A k \in 1..Len(piece) : piece[k] \in S
  BY LenProperties, ElementOfSeq
<1>2. PICK D : D = {i \in DOMAIN piece : piece[i] = Equal}
  OBVIOUS
<1>3. D \in SUBSET (0..Len(piece)) /\ D # {}
  <2>1. PICK i \in DOMAIN piece : piece[i] = Equal
    BY DEF Range
  <2>2. i \in D
    BY <1>2, <2>1
  <2> QED BY <1>1, <1>2, <2>2
<1>4. PICK m : m = Min(D) /\ m \in D /\ \A k \in D : m <= k
  BY <1>1, <1>3, MinIs
<1>5. m \in 1..Len(piece) /\ piece[m] = Equal
  BY <1>1, <1>2, <1>4
<1>6. ASSUME NEW k \in 1..m - 1 PROVE piece[k] # Equal
  <2>1. k \notin D /\ k \in DOMAIN piece
    BY <1>1, <1>4, <1>5
  <2> QED BY <1>2, <2>1
<1>7. KeyOf(piece) = SubSeq(piece, 1, m - 1)
  BY <1>2, <1>4 DEF KeyOf
<1>8. Len(KeyOf(piece)) = m - 1
  <2>1. m - 1 \in Int /\ 1 \in Int /\ \A k \in 1..m - 1 : piece[k] \in S
    BY <1>1, <1>5
  <2>2. Len(SubSeq(piece, 1, m - 1)) = IF 1 <= m - 1 THEN m - 1 - 1 + 1 ELSE 0
    BY <2>1, SubSeqProperties
  <2> QED BY <1>5, <1>7, <2>2
<1>9. ValueOf(piece) = SubSeq(piece, m + 1, Len(piece))
  <2>1. m - 1 + 2 = m + 1
    BY <1>5
  <2> QED BY <1>8, <2>1 DEF ValueOf
<1> QED BY <1>5, <1>6, <1>7, <1>9
\* The pair at s goes up to e, and m characters up to its =.
PairedAt(text, s, e, m) ==
  /\ Found(text, {Ampersand}, s, e) /\ e = FindFirstOf(text, {Ampersand}, s)
  /\ Stop(text, e) \in s..Len(text) /\ m \in Nat \ {0} /\ s + m <= Stop(text, e)
  /\ text[s + m] = Equal /\ \A k \in 1..m - 1 : text[s + k] # Equal
  /\ KeyAt(text, s) = SubSeq(text, s + 1, s + m - 1)
  /\ ValueAt(text, s) = SubSeq(text, s + m + 1, Stop(text, e))

LEMMA PairAtIs ==
  ASSUME NEW S, NEW text \in Seq(S), NEW s \in Starts(text), Equal \in Range(PieceAt(text, s))
  PROVE  \E e, m : PairedAt(text, s, e, m)
<1>1. s \in 0..Len(text) /\ Len(text) \in Nat
  BY StartIs
<1>2. PICK P, e : P = PieceAt(text, s) /\ P \in Seq(S) /\ Cut(text, s, e, P)
  BY PieceIs
<1>3. PICK m \in 1..Len(P) : /\ P[m] = Equal /\ \A k \in 1..m - 1 : P[k] # Equal
                             /\ KeyOf(P) = SubSeq(P, 1, m - 1)
                             /\ ValueOf(P) = SubSeq(P, m + 1, Len(P))
  BY <1>2, EqualIs
<1>4. PICK d : d = Stop(text, e)
  OBVIOUS
<1>5. /\ d \in s..Len(text) /\ Len(P) = d - s
      /\ \A k \in 1..Len(P) : P[k] = text[s + k]
  BY <1>2, <1>4 DEF Cut
<1>6. m \in Nat \ {0} /\ s + m <= d /\ m - 1 \in Nat /\ d - s - m \in Nat /\ s \in Nat
      /\ d \in Nat /\ s + m \in Nat /\ m \in Nat
  BY <1>1, <1>3, <1>5
<1>7. text[s + m] = Equal /\ \A k \in 1..m - 1 : text[s + k] # Equal
  <2>1. \A k \in 1..m - 1 : k \in 1..Len(P)
    BY <1>1, <1>3, <1>5
  <2> QED BY <1>3, <1>5, <2>1
<1>8. KeyAt(text, s) = SubSeq(text, s + 1, s + m - 1)
  <2>1. PICK n : n = m - 1
    OBVIOUS
  <2>2. n \in Nat /\ 0 \in Nat /\ s \in Nat /\ 0 + n <= Len(P) /\ s + n <= Len(text)
        /\ \A k \in 1..n : P[0 + k] = text[s + k]
    BY <1>1, <1>5, <1>6, <2>1
  <2>3. SubSeq(P, 0 + 1, 0 + n) = SubSeq(text, s + 1, s + n)
    <3>1. Alike(P, 0, text, s, n)
      BY <2>2 DEF Alike
    <3>2. Part(P, 0, n) = Part(text, s, n)
      BY <1>2, <3>1, SameText
    <3> QED BY <3>2 DEF Part
  <2>4. 0 + 1 = 1 /\ 0 + n = m - 1 /\ s + n = s + m - 1
    BY <1>6, <2>1
  <2> QED BY <1>2, <1>3, <2>3, <2>4 DEF KeyAt
<1>9. ValueAt(text, s) = SubSeq(text, s + m + 1, d)
  <2>1. PICK n, j : n = d - s - m /\ j = s + m
    OBVIOUS
  <2>2. n \in Nat /\ m \in Nat /\ j \in Nat /\ m + n <= Len(P) /\ j + n <= Len(text)
    BY <1>1, <1>5, <1>6, <2>1
  <2>3. \A k \in 1..n : P[m + k] = text[j + k]
    <3>1. \A k \in 1..n : m + k \in 1..Len(P) /\ s + (m + k) = j + k
      BY <1>1, <1>5, <1>6, <2>1
    <3> QED BY <1>5, <3>1
  <2>4. SubSeq(P, m + 1, m + n) = SubSeq(text, j + 1, j + n)
    <3>1. Alike(P, m, text, j, n)
      BY <2>2, <2>3 DEF Alike
    <3>2. Part(P, m, n) = Part(text, j, n)
      BY <1>2, <3>1, SameText
    <3> QED BY <3>2 DEF Part
  <2>5. m + n = Len(P) /\ j + 1 = s + m + 1 /\ j + n = d
    BY <1>1, <1>5, <1>6, <2>1
  <2> QED BY <1>2, <1>3, <2>4, <2>5 DEF ValueAt
<1>10. PairedAt(text, s, e, m)
  BY <1>2, <1>4, <1>5, <1>6, <1>7, <1>8, <1>9 DEF PairedAt, Cut
<1> QED BY <1>10

\* What find("=") and substr make of a piece.
LEMMA PairIs ==
  ASSUME NEW S, NEW piece \in Seq(S), Equal \in Range(piece)
  PROVE  Pair(piece) = <<KeyOf(piece), ValueOf(piece)>>
<1>1. PICK m \in 1..Len(piece) :
        /\ piece[m] = Equal /\ \A k \in 1..m - 1 : piece[k] # Equal
        /\ KeyOf(piece) = SubSeq(piece, 1, m - 1)
        /\ ValueOf(piece) = SubSeq(piece, m + 1, Len(piece))
  BY EqualIs
<1>2. Len(piece) \in Nat
  BY LenProperties
<1>3. PICK eq : eq = m - 1 /\ eq \in Nat /\ eq + 1 = m /\ eq \in 0..Len(piece) - 1 /\ eq # npos
  BY <1>1, <1>2 DEF npos
<1>4. Found(piece, {Equal}, 0, eq)
  <2>1. ASSUME NEW i \in 0..eq - 1 PROVE piece[i + 1] \notin {Equal}
    <3>1. PICK k : k = i + 1 /\ k \in 1..m - 1
      BY <1>1, <1>3, <2>1
    <3> QED BY <1>1, <3>1
  <2> QED BY <1>1, <1>3, <2>1 DEF Found
<1>5. FindFirstOf(piece, {Equal}, 0) = eq
  BY <1>2, <1>4, FirstFound
<1>6. SubText(piece, 0, eq) = KeyOf(piece)
  BY <1>1, <1>3 DEF SubText
<1>7. SubText(piece, eq + 1, npos) = ValueOf(piece)
  BY <1>1, <1>3 DEF SubText
<1> QED BY <1>5, <1>6, <1>7 DEF Pair
-----------------------------------------------------------------------------
(* The parameters of an url: the loop over them *)

\* The query begins behind the first two characters of an url.
Behind(url, text) ==
  Len(url) = Len(text) + 2 /\ \A i \in 1..Len(text) : url[i + 2] = text[i]

\* One round takes the pair at s.
LEMMA RoundIs ==
  ASSUME NEW S, NEW url \in Seq(S), NEW text \in Seq(S), Behind(url, text),
         NEW s \in Starts(text), NEW e, NEW m, PairedAt(text, s, e, m), NEW q, q.start = s + 2
  PROVE  QueryRound(url, q) =
           [ start |-> IF e = npos THEN 0 ELSE e + 3, end |-> IF e = npos THEN npos ELSE e + 2,
             parameters |-> Emplaced(q.parameters, KeyAt(text, s), ValueAt(text, s)) ]
<1>1. s \in 0..Len(text) /\ Len(text) \in Nat /\ Len(url) = Len(text) + 2 /\ s \in Nat
  BY StartIs DEF Behind
<1>2. PICK d : d = Stop(text, e)
  OBVIOUS
<1>3. /\ d \in s..Len(text) /\ m \in Nat \ {0} /\ s + m <= d
      /\ text[s + m] = Equal /\ \A k \in 1..m - 1 : text[s + k] # Equal
      /\ Found(text, {Ampersand}, s, e)
  BY <1>2 DEF PairedAt
<1>4. \A i \in s..d - 1 : text[i + 1] # Ampersand
  <2>1. CASE e = npos
    BY <1>1, <1>2, <1>3, <2>1 DEF Found, Stop, npos
  <2>2. CASE e # npos
    BY <1>2, <1>3, <2>2 DEF Found, Stop
  <2> QED BY <2>1, <2>2
<1>5. PICK keyEnd : keyEnd = s + m + 1 /\ keyEnd \in s + 2..Len(url) - 1 /\ keyEnd \in Nat
                    /\ keyEnd + 1 = s + m + 2 /\ keyEnd # npos
  BY <1>1, <1>3 DEF npos
<1>6. Found(url, {Ampersand, Equal}, s + 2, keyEnd)
  <2>1. url[keyEnd + 1] = Equal
    <3>1. s + m \in 1..Len(text)
      BY <1>1, <1>3
    <3>2. url[s + m + 2] = text[s + m]
      BY <3>1 DEF Behind
    <3> QED BY <1>3, <1>5, <3>2
  <2>2. ASSUME NEW i \in s + 2..keyEnd - 1 PROVE url[i + 1] \notin {Ampersand, Equal}
    <3>1. PICK j : j = i - 1
      OBVIOUS
    <3>2. j \in 1..Len(text) /\ j + 2 = i + 1 /\ j - 1 \in s..d - 1 /\ j - 1 + 1 = j
      BY <1>1, <1>3, <1>5, <3>1
    <3>3. url[j + 2] = text[j]
      BY <3>2 DEF Behind
    <3>4. text[j] # Ampersand
      BY <1>4, <3>2
    <3>5. PICK k : k = j - s /\ k \in 1..m - 1 /\ s + k = j
      BY <1>1, <1>3, <1>5, <3>1, <3>2
    <3> QED BY <1>3, <3>2, <3>3, <3>4, <3>5
  <2> QED BY <1>5, <2>1, <2>2 DEF Found
<1>7. FindFirstOf(url, {Ampersand, Equal}, s + 2) = keyEnd
  <2>1. s + 2 \in Nat /\ Len(url) \in Nat
    BY <1>1
  <2> QED BY <1>6, <2>1, FirstFound
<1>8. PICK valueEnd : valueEnd = IF e = npos THEN npos ELSE e + 2
  OBVIOUS
<1>9. Found(url, {Ampersand}, keyEnd + 1, valueEnd)
  <2>1. ASSUME NEW i \in keyEnd + 1..d + 1 PROVE url[i + 1] \notin {Ampersand}
    <3>1. PICK j : j = i - 1 /\ j \in 1..Len(text) /\ j + 2 = i + 1 /\ j - 1 \in s..d - 1 /\ j - 1 + 1 = j
      BY <1>1, <1>3, <1>5
    <3>2. url[j + 2] = text[j]
      BY <3>1 DEF Behind
    <3>3. text[j] # Ampersand
      BY <1>4, <3>1
    <3> QED BY <3>1, <3>2, <3>3
  <2>2. CASE e = npos
    <3>1. d + 1 = Len(url) - 1
      BY <1>1, <1>2, <2>2 DEF Stop
    <3> QED BY <1>8, <2>1, <2>2, <3>1 DEF Found
  <2>3. CASE e # npos
    <3>1. d = e /\ e \in s..Len(text) - 1 /\ text[e + 1] = Ampersand
      BY <1>2, <1>3, <2>3 DEF Stop, Found
    <3>2. e + 2 \in keyEnd + 1..Len(url) - 1 /\ e + 2 + 1 = e + 1 + 2 /\ e + 1 \in 1..Len(text)
          /\ e + 2 - 1 = d + 1
      BY <1>1, <1>3, <1>5, <3>1
    <3>3. url[e + 2 + 1] = Ampersand
      BY <3>1, <3>2 DEF Behind
    <3>4. \A i \in keyEnd + 1..e + 2 - 1 : url[i + 1] \notin {Ampersand}
      BY <2>1, <3>2
    <3> QED BY <1>8, <2>3, <3>2, <3>3, <3>4 DEF Found
  <2> QED BY <2>2, <2>3
<1>10. FindFirstOf(url, {Ampersand}, keyEnd + 1) = valueEnd
  <2>1. keyEnd + 1 \in Nat /\ Len(url) \in Nat
    BY <1>1, <1>5
  <2> QED BY <1>9, <2>1, FirstFound
<1>11. SubText(url, s + 2, keyEnd) = KeyAt(text, s)
  <2>1. PICK n, i : n = m - 1 /\ i = s + 2
    OBVIOUS
  <2>2. Alike(url, i, text, s, n)
    <3>1. \A k \in 1..n : s + k \in 1..Len(text) /\ s + k + 2 = i + k
      BY <1>1, <1>3, <2>1
    <3>2. \A k \in 1..n : url[i + k] = text[s + k]
      BY <3>1 DEF Behind
    <3>3. i \in Nat /\ s \in Nat /\ n \in Nat /\ i + n <= Len(url) /\ s + n <= Len(text)
      BY <1>1, <1>3, <2>1
    <3> QED BY <3>2, <3>3 DEF Alike
  <2>3. Part(url, i, n) = Part(text, s, n)
    BY <2>2, SameText
  <2>4. SubSeq(url, i + 1, i + n) = SubSeq(text, s + 1, s + n)
    BY <2>3 DEF Part
  <2>5. i + n = keyEnd /\ s + n = s + m - 1
    BY <1>1, <1>3, <1>5, <2>1
  <2> QED BY <1>5, <2>1, <2>4, <2>5 DEF PairedAt, SubText
<1>12. SubText(url, keyEnd + 1, valueEnd) = ValueAt(text, s)
  <2>1. PICK n, i, j : n = d - s - m /\ i = s + m + 2 /\ j = s + m
    OBVIOUS
  <2>2. Alike(url, i, text, j, n)
    <3>1. \A k \in 1..n : j + k \in 1..Len(text) /\ j + k + 2 = i + k
      BY <1>1, <1>3, <2>1
    <3>2. \A k \in 1..n : url[i + k] = text[j + k]
      BY <3>1 DEF Behind
    <3>3. i \in Nat /\ j \in Nat /\ n \in Nat /\ i + n <= Len(url) /\ j + n <= Len(text)
      BY <1>1, <1>3, <2>1
    <3> QED BY <3>2, <3>3 DEF Alike
  <2>3. Part(url, i, n) = Part(text, j, n)
    BY <2>2, SameText
  <2>4. SubSeq(url, i + 1, i + n) = SubSeq(text, j + 1, j + n)
    BY <2>3 DEF Part
  <2>5. i = keyEnd + 1 /\ i + n = d + 2 /\ j + n = d /\ j + 1 = s + m + 1
    BY <1>1, <1>3, <1>5, <2>1
  <2>6. d + 2 = IF valueEnd = npos THEN Len(url) ELSE valueEnd
    <3>1. CASE e = npos
      BY <1>1, <1>2, <1>8, <3>1 DEF Stop
    <3>2. CASE e # npos
      <4>1. d = e /\ e + 2 # npos
        BY <1>1, <1>2, <1>3, <3>2 DEF Stop, npos
      <4> QED BY <1>8, <3>2, <4>1
    <3> QED BY <3>1, <3>2
  <2>7. ValueAt(text, s) = SubSeq(text, j + 1, d)
    BY <1>2, <2>5 DEF PairedAt
  <2> QED BY <2>4, <2>5, <2>6, <2>7 DEF SubText
<1>13. valueEnd + 1 = IF e = npos THEN 0 ELSE e + 3
  <2>1. CASE e = npos
    BY <1>8, <2>1 DEF npos
  <2>2. CASE e # npos
    <3>1. e \in Int
      BY <1>3, <2>2, <1>1 DEF Found
    <3> QED BY <1>8, <2>2, <3>1
  <2> QED BY <2>1, <2>2
<1> QED BY <1>7, <1>8, <1>10, <1>11, <1>12, <1>13 DEF QueryRound, After
\* map has the first value of each key of the pairs before b.
FirstOf(text, b, map) ==
  /\ map = [key \in {KeyAt(text, i) : i \in {j \in Starts(text) : j < b}} |-> map[key]]
  /\ \A i \in Starts(text) :
       i < b /\ (\A j \in Starts(text) : j < i => KeyAt(text, j) # KeyAt(text, i))
         => map[KeyAt(text, i)] = ValueAt(text, i)

\* One more pair.
LEMMA FirstMore ==
  ASSUME NEW S, NEW text \in Seq(S), NEW s \in Starts(text), NEW map, FirstOf(text, s, map),
         NEW b, \A i \in Starts(text) : i < b <=> i <= s
  PROVE  FirstOf(text, b, Emplaced(map, KeyAt(text, s), ValueAt(text, s)))
<1>1. PICK key, value, m : /\ key = KeyAt(text, s) /\ value = ValueAt(text, s)
                           /\ m = Emplaced(map, key, value)
  OBVIOUS
<1>2. m = [k \in DOMAIN map \cup {key} |-> IF k \in DOMAIN map THEN map[k] ELSE value]
  BY <1>1 DEF Emplaced
<1>3. DOMAIN map = {KeyAt(text, i) : i \in {j \in Starts(text) : j < s}}
  BY DEF FirstOf
<1>4. \A i \in Starts(text) : i \in Int
  BY StartIs
<1>5. DOMAIN map \cup {key} = {KeyAt(text, i) : i \in {j \in Starts(text) : j < b}}
  <2>1. \A i \in Starts(text) : i < b <=> i < s \/ i = s
    BY <1>4
  <2> QED BY <1>1, <1>3, <2>1
<1>6. ASSUME NEW i \in Starts(text), i < b,
             \A j \in Starts(text) : j < i => KeyAt(text, j) # KeyAt(text, i)
      PROVE  m[KeyAt(text, i)] = ValueAt(text, i)
  <2>1. i < s \/ i = s
    BY <1>4, <1>6
  <2>2. CASE i < s
    <3>1. KeyAt(text, i) \in DOMAIN map
      BY <1>3, <2>2
    <3> QED BY <1>2, <1>6, <2>2, <3>1 DEF FirstOf
  <2>3. CASE i = s
    <3>1. key \notin DOMAIN map
      BY <1>1, <1>3, <1>6, <2>3
    <3> QED BY <1>1, <1>2, <2>3, <3>1
  <2> QED BY <2>1, <2>2, <2>3
<1>7. m = [k \in {KeyAt(text, i) : i \in {j \in Starts(text) : j < b}} |-> m[k]]
  BY <1>2, <1>5
<1>8. FirstOf(text, b, m)
  BY <1>6, <1>7 DEF FirstOf
<1> QED BY <1>1, <1>8

\* All of them.
LEMMA FirstAll ==
  ASSUME NEW S, NEW text \in Seq(S), NEW b, \A i \in Starts(text) : i < b,
         NEW map, FirstOf(text, b, map)
  PROVE  map = [key \in Keys(text) |-> ValueAt(text, Min(Keyed(text, key)))]
<1>1. map = [key \in Keys(text) |-> map[key]]
  <2>1. {j \in Starts(text) : j < b} = Starts(text)
    OBVIOUS
  <2> QED BY <2>1 DEF FirstOf, Keys
<1>2. ASSUME NEW key \in Keys(text) PROVE map[key] = ValueAt(text, Min(Keyed(text, key)))
  <2>1. PICK D : D = Keyed(text, key) /\ D = {i \in Starts(text) : KeyAt(text, i) = key}
    BY DEF Keyed
  <2>2. Len(text) \in Nat /\ D \in SUBSET (0..Len(text)) /\ D # {}
    <3>1. PICK i \in Starts(text) : KeyAt(text, i) = key
      BY <1>2 DEF Keys
    <3> QED BY <2>1, <3>1, StartIs
  <2>3. PICK i : i = Min(D) /\ i \in D /\ \A j \in D : i <= j
    BY <2>2, MinIs
  <2>4. ASSUME NEW j \in Starts(text), j < i PROVE KeyAt(text, j) # KeyAt(text, i)
    <3>1. j \notin D
      <4>1. j \in Int /\ i \in Int
        BY <2>1, <2>3, StartIs
      <4> QED BY <2>3, <2>4, <4>1
    <3> QED BY <2>1, <2>3, <2>4, <3>1
  <2> QED BY <2>1, <2>3, <2>4 DEF FirstOf
<1> QED BY <1>1, <1>2

-----------------------------------------------------------------------------
(* The pairs of a form: the loop over them *)

\* map has the last value of each key of the pairs from b on.
LastOf(text, b, map) ==
  /\ map = [key \in {KeyAt(text, i) : i \in {j \in Starts(text) : j >= b}} |-> map[key]]
  /\ \A i \in Starts(text) :
       i >= b /\ (\A j \in Starts(text) : j > i => KeyAt(text, j) # KeyAt(text, i))
         => map[KeyAt(text, i)] = ValueAt(text, i)

\* One more pair, before them.
LEMMA LastMore ==
  ASSUME NEW S, NEW text \in Seq(S), NEW s \in Starts(text), NEW b,
         \A i \in Starts(text) : i >= b <=> i > s, NEW map, LastOf(text, b, map)
  PROVE  LastOf(text, s, Emplaced(map, KeyAt(text, s), ValueAt(text, s)))
<1>1. PICK key, value, m : /\ key = KeyAt(text, s) /\ value = ValueAt(text, s)
                           /\ m = Emplaced(map, key, value)
  OBVIOUS
<1>2. m = [k \in DOMAIN map \cup {key} |-> IF k \in DOMAIN map THEN map[k] ELSE value]
  BY <1>1 DEF Emplaced
<1>3. DOMAIN map = {KeyAt(text, i) : i \in {j \in Starts(text) : j >= b}}
  BY DEF LastOf
<1>4. \A i \in Starts(text) : i \in Int
  BY StartIs
<1>5. DOMAIN map \cup {key} = {KeyAt(text, i) : i \in {j \in Starts(text) : j >= s}}
  <2>1. \A i \in Starts(text) : i >= s <=> i >= b \/ i = s
    BY <1>4
  <2> QED BY <1>1, <1>3, <2>1
<1>6. ASSUME NEW i \in Starts(text), i >= s,
             \A j \in Starts(text) : j > i => KeyAt(text, j) # KeyAt(text, i)
      PROVE  m[KeyAt(text, i)] = ValueAt(text, i)
  <2>1. i > s \/ i = s
    BY <1>4, <1>6
  <2>2. CASE i > s
    <3>1. i >= b /\ KeyAt(text, i) \in DOMAIN map
      BY <1>3, <2>2
    <3> QED BY <1>2, <1>6, <2>2, <3>1 DEF LastOf
  <2>3. CASE i = s
    <3>1. key \notin DOMAIN map
      BY <1>1, <1>3, <1>6, <2>3
    <3> QED BY <1>1, <1>2, <2>3, <3>1
  <2> QED BY <2>1, <2>2, <2>3
<1>7. m = [k \in {KeyAt(text, i) : i \in {j \in Starts(text) : j >= s}} |-> m[k]]
  BY <1>2, <1>5
<1>8. LastOf(text, s, m)
  BY <1>6, <1>7 DEF LastOf
<1> QED BY <1>1, <1>8

\* What is read from each start from a on.
FormRead(text, a, read) ==
  read = [start \in a..Len(text) |->
            LET end  == FindFirstOf(text, {Ampersand}, start)
                pair == Pair(PieceAt(text, start))
            IN  IF PieceAt(text, start) = <<>> THEN NoEntries
                ELSE Emplaced(IF end = npos THEN NoEntries ELSE read[end + 1], pair[1], pair[2])]

\* The same, for one start.
FormFrom(text, read, start) ==
  LET end  == FindFirstOf(text, {Ampersand}, start)
      pair == Pair(PieceAt(text, start))
  IN  IF PieceAt(text, start) = <<>> THEN NoEntries
      ELSE Emplaced(IF end = npos THEN NoEntries ELSE read[end + 1], pair[1], pair[2])

LEMMA FormReadable ==
  ASSUME NEW text, Len(text) \in Nat
  PROVE  \E read : FormRead(text, 0, read)
<1> DEFINE S == {a \in 0..Len(text) : \E read : FormRead(text, a, read)}
<1>1. \A a, read : FormRead(text, a, read)
                     <=> read = [start \in a..Len(text) |-> FormFrom(text, read, start)]
  BY DEF FormRead, FormFrom
<1>2. PICK N : N = Len(text) /\ N \in Nat
  OBVIOUS
\* There is a piece behind a place only where an & is.
<1>3. ASSUME NEW start \in 0..N, NEW r, NEW t, \A i \in start + 1..N : r[i] = t[i]
      PROVE  FormFrom(text, r, start) = FormFrom(text, t, start)
  <2>1. PICK end : end = FindFirstOf(text, {Ampersand}, start)
    OBVIOUS
  <2>2. Found(text, {Ampersand}, start, end)
    BY <1>2, <2>1, FindFirst
  <2>3. end # npos => end + 1 \in start + 1..N
    BY <1>2, <2>2 DEF Found
  <2>4. end # npos => r[end + 1] = t[end + 1]
    BY <1>3, <2>3
  <2> QED BY <2>1, <2>4 DEF FormFrom
<1>4. N \in S
  <2>1. PICK r : r = [start \in N..N |-> FormFrom(text, <<>>, start)]
    OBVIOUS
  <2>2. \A start \in N..N : FormFrom(text, <<>>, start) = FormFrom(text, r, start)
    BY <1>2, <1>3
  <2>3. FormRead(text, N, r)
    BY <1>1, <1>2, <2>1, <2>2
  <2> QED BY <1>2, <2>3
<1>5. ASSUME NEW a \in 1..N, a \in S PROVE a - 1 \in S
  <2>1. PICK r : r = [start \in a..N |-> FormFrom(text, r, start)]
    BY <1>1, <1>2, <1>5
  <2>2. PICK t : t = [start \in a - 1..N |-> IF start = a - 1 THEN FormFrom(text, r, start) ELSE r[start]]
    OBVIOUS
  <2>3. \A start \in a..N : start # a - 1 /\ start \in a - 1..N
    BY <1>2
  <2>4. \A start \in a..N : t[start] = r[start]
    BY <2>2, <2>3
  <2>5. ASSUME NEW start \in a - 1..N PROVE FormFrom(text, r, start) = FormFrom(text, t, start)
    <3>1. start \in 0..N /\ \A i \in start + 1..N : i \in a..N
      BY <1>2
    <3> QED BY <1>3, <2>4, <3>1
  <2>6. ASSUME NEW start \in a - 1..N PROVE t[start] = FormFrom(text, t, start)
    <3>1. start = a - 1 \/ start \in a..N
      BY <1>2
    <3>2. CASE start = a - 1
      BY <2>2, <2>5, <3>2
    <3>3. CASE start \in a..N
      BY <2>1, <2>4, <2>5, <3>3
    <3> QED BY <3>1, <3>2, <3>3
  <2>7. t = [start \in a - 1..N |-> FormFrom(text, t, start)]
    BY <2>2, <2>6
  <2>8. FormRead(text, a - 1, t) /\ a - 1 \in 0..N
    BY <1>1, <1>2, <2>7
  <2> QED BY <1>2, <2>8
<1>6. 0..N \subseteq S
  <2> HIDE DEF S
  <2> QED BY <1>2, <1>4, <1>5, InductionDown
<1> QED BY <1>2, <1>6

LEMMA FormIsRead ==
  ASSUME NEW text, Len(text) \in Nat
  PROVE  \E read : FormRead(text, 0, read) /\ Form(text) = read[0]
<1> DEFINE read == CHOOSE read : FormRead(text, 0, read)
<1>1. FormRead(text, 0, read)
  BY FormReadable
<1>2. Form(text) = read[0]
  BY DEF Form, FormRead
<1> QED BY <1>1, <1>2
\* What is read from a start has the last values of the pairs from there on.
LEMMA FormStep ==
  ASSUME NEW S, NEW text \in Seq(S), Paired(text), NEW read, FormRead(text, 0, read),
         NEW s \in Starts(text),
         \A b \in s + 1..Len(text) : b \in Starts(text) => LastOf(text, b, read[b])
  PROVE  LastOf(text, s, read[s])
<1>1. s \in 0..Len(text) /\ Len(text) \in Nat
  BY StartIs
<1>2. PICK P, e : P = PieceAt(text, s) /\ P \in Seq(S) /\ Cut(text, s, e, P)
  BY PieceIs
<1>3. Equal \in Range(P)
  BY <1>2 DEF Paired
<1>4. P # <<>>
  <2>1. SUFFICES ASSUME P = <<>> PROVE FALSE
    OBVIOUS
  <2>2. Len(P) = 0 /\ DOMAIN P = 1..Len(P)
    BY <1>2, <2>1, EmptySeq, LenProperties
  <2> QED BY <1>3, <2>2 DEF Range
<1>5. PICK key, value : key = KeyAt(text, s) /\ value = ValueAt(text, s)
  OBVIOUS
<1>6. PICK pair : pair = Pair(P) /\ pair[1] = key /\ pair[2] = value
  <2>1. Pair(P) = <<KeyOf(P), ValueOf(P)>>
    BY <1>2, <1>3, PairIs
  <2> QED BY <1>2, <1>5, <2>1 DEF KeyAt, ValueAt
<1>7. e = FindFirstOf(text, {Ampersand}, s) /\ Found(text, {Ampersand}, s, e)
  BY <1>2 DEF Cut
<1>8. PICK map : map = IF e = npos THEN NoEntries ELSE read[e + 1]
  OBVIOUS
<1>9. read[s] = Emplaced(map, key, value)
  <2>1. \A start \in 0..Len(text) : read[start] = FormFrom(text, read, start)
    BY DEF FormRead, FormFrom
  <2>2. read[s] = FormFrom(text, read, s)
    BY <1>1, <2>1
  <2>3. FormFrom(text, read, s) = Emplaced(map, pair[1], pair[2])
    BY <1>2, <1>4, <1>6, <1>7, <1>8 DEF FormFrom
  <2> QED BY <1>6, <2>2, <2>3
<1>10. PICK b : b = IF e = npos THEN Len(text) + 1 ELSE e + 1
  OBVIOUS
<1>11. \A i \in Starts(text) : i \in 0..Len(text)
  BY StartIs
<1>12. LastOf(text, b, map) /\ \A i \in Starts(text) : i >= b <=> i > s
  <2>1. CASE e = npos
    <3>1. \A i \in Starts(text) : i <= s
      BY <1>7, <2>1, NextStart
    <3>2. \A i \in Starts(text) : ~(i >= b) /\ ~(i > s)
      BY <1>1, <1>10, <1>11, <2>1, <3>1
    <3>3. {i \in Starts(text) : i >= b} = {} /\ map = [x \in {} |-> <<>>]
      BY <1>8, <2>1, <3>2 DEF NoEntries
    <3>4. map = [k \in {KeyAt(text, i) : i \in {j \in Starts(text) : j >= b}} |-> map[k]]
      BY <3>3
    <3> QED BY <3>2, <3>4 DEF LastOf
  <2>2. CASE e # npos
    <3>1. /\ e + 1 \in Starts(text) /\ e \in s..Len(text) - 1
          /\ \A i \in Starts(text) : i < e + 1 <=> i <= s
      BY <1>7, <2>2, NextStart
    <3>2. e + 1 \in s + 1..Len(text)
      BY <1>1, <3>1
    <3>3. LastOf(text, e + 1, read[e + 1])
      BY <3>1, <3>2
    <3>4. \A i \in Starts(text) : i >= e + 1 <=> i > s
      BY <1>1, <1>11, <3>1
    <3> QED BY <1>8, <1>10, <2>2, <3>3, <3>4
  <2> QED BY <2>1, <2>2
<1>13. LastOf(text, s, Emplaced(map, KeyAt(text, s), ValueAt(text, s)))
  BY <1>12, LastMore
<1> QED BY <1>5, <1>9, <1>13

\* parse_body makes of a form the last value of each of its keys.
THEOREM FormsRead ==
  ASSUME NEW S, NEW text \in Seq(S), Paired(text)
  PROVE  Form(text) = [key \in Keys(text) |-> ValueAt(text, Max(Keyed(text, key)))]
<1>1. PICK N : N = Len(text) /\ N \in Nat
  BY LenProperties
<1>2. PICK read : FormRead(text, 0, read) /\ Form(text) = read[0]
  BY <1>1, FormIsRead
<1> DEFINE T == {a \in 0..N : \A b \in a..N : b \in Starts(text) => LastOf(text, b, read[b])}
<1>3. N \in T
  <2>1. ASSUME N \in Starts(text) PROVE LastOf(text, N, read[N])
    <3>1. \A b \in N + 1..Len(text) : b \in Starts(text) => LastOf(text, b, read[b])
      BY <1>1
    <3> QED BY <1>2, <2>1, <3>1, FormStep
  <2> QED BY <1>1, <2>1
<1>4. ASSUME NEW a \in 1..N, a \in T PROVE a - 1 \in T
  <2>1. ASSUME a - 1 \in Starts(text) PROVE LastOf(text, a - 1, read[a - 1])
    <3>1. \A b \in a - 1 + 1..Len(text) : b \in a..N
      BY <1>1
    <3>2. \A b \in a - 1 + 1..Len(text) : b \in Starts(text) => LastOf(text, b, read[b])
      BY <1>4, <3>1
    <3> QED BY <1>2, <2>1, <3>2, FormStep
  <2>2. \A b \in a - 1..N : b = a - 1 \/ b \in a..N
    BY <1>1
  <2>3. a - 1 \in 0..N
    BY <1>1
  <2> QED BY <1>4, <2>1, <2>2, <2>3
<1>5. 0..N \subseteq T
  <2> HIDE DEF T
  <2> QED BY <1>1, <1>3, <1>4, InductionDown
<1>6. PICK F : F = Form(text)
  OBVIOUS
<1>7. LastOf(text, 0, F)
  <2>1. 0 \in Starts(text) /\ 0 \in 0..N
    BY <1>1 DEF Starts
  <2> QED BY <1>2, <1>5, <1>6, <2>1
<1>8. \A i \in Starts(text) : i \in 0..N /\ i >= 0
  BY <1>1, StartIs
<1>9. F = [key \in Keys(text) |-> F[key]]
  <2>1. {j \in Starts(text) : j >= 0} = Starts(text)
    BY <1>8
  <2> QED BY <1>7, <2>1 DEF LastOf, Keys
<1>10. ASSUME NEW key \in Keys(text) PROVE F[key] = ValueAt(text, Max(Keyed(text, key)))
  <2>1. PICK D : D = Keyed(text, key) /\ D = {i \in Starts(text) : KeyAt(text, i) = key}
    BY DEF Keyed
  <2>2. D \in SUBSET (0..N) /\ D # {}
    <3>1. PICK i \in Starts(text) : KeyAt(text, i) = key
      BY <1>10 DEF Keys
    <3> QED BY <1>8, <2>1, <3>1
  <2>3. PICK i : i = Max(D) /\ i \in D /\ \A j \in D : i >= j
    BY <1>1, <2>2, MaxIs
  <2>4. ASSUME NEW j \in Starts(text), j > i PROVE KeyAt(text, j) # KeyAt(text, i)
    <3>1. j \notin D
      <4>1. j \in Int /\ i \in Int
        BY <1>8, <2>1, <2>3
      <4> QED BY <2>3, <2>4, <4>1
    <3> QED BY <2>1, <2>3, <2>4, <3>1
  <2> QED BY <1>7, <1>8, <2>1, <2>3, <2>4 DEF LastOf
<1> QED BY <1>6, <1>9, <1>10
=============================================================================
