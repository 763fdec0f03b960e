-------------------------- MODULE LwipReass_proofs --------------------------
(***************************************************************************)
(* The reassembly keeps its fragments in order and counts their pbufs,     *)
(* whatever arrives and whatever its limits: lemmas on sums, on one queue  *)
(* of fragments and on the list of datagrams, what making room, a fragment *)
(* and the timer do to it, and the inductive invariant ReassInv.           *)
(***************************************************************************)
EXTENDS LwipReass, WellFoundedInduction, TLAPS

-----------------------------------------------------------------------------
(* Sequences and their sums *)

\* Every set of naturals that is not empty has a least member.
LEMMA LeastOf ==
  ASSUME NEW S, S \subseteq Nat, S # {}
  PROVE  \E x \in S : \A y \in S : x <= y
<1> DEFINE R == {p \in Nat \X Nat : p[1] < p[2]}
<1>1. IsWellFoundedOn(R, Nat)
  BY NatLessThanWellFounded, Zenon DEF OpToRel
<1>2. \E a \in S : \A b \in S : ~(<<b, a>> \in R)
  <2> HIDE DEF R
  <2> QED  BY <1>1, WFMin
<1>3. PICK x \in S : \A b \in S : ~(<<b, x>> \in R)
  BY <1>2
<1>4. ASSUME NEW y \in S PROVE x <= y
  <2>1. ~(y < x)
    BY <1>3
  <2>2. x \in Nat /\ y \in Nat
    OBVIOUS
  <2> QED  BY <2>1, <2>2
<1> QED  BY <1>4

\* A function on 1..n is a sequence of length n.
LEMMA MakeSeq ==
  ASSUME NEW S, NEW n \in Nat, NEW f \in [1..n -> S]
  PROVE  f \in Seq(S) /\ Len(f) = n
OBVIOUS

\* The length of a sequence is a natural number, and its indices go up to it.
LEMMA LenProperties ==
  ASSUME NEW S, NEW s \in Seq(S)
  PROVE  Len(s) \in Nat /\ DOMAIN s = 1..Len(s) /\ s \in [1..Len(s) -> S]
OBVIOUS

\* The elements of a sequence belong to its set.
LEMMA ElementOfSeq ==
  ASSUME NEW S, NEW s \in Seq(S), NEW n \in 1..Len(s)
  PROVE  s[n] \in S
OBVIOUS

\* Only the empty sequence has no element.
LEMMA EmptySeq ==
  ASSUME NEW S
  PROVE  <<>> \in Seq(S) /\ Len(<<>>) = 0 /\ \A s \in Seq(S) : s # <<>> => Len(s) \in Nat \ {0}
OBVIOUS

\* Replacing the element i of a sequence changes nothing else.
LEMMA ExceptSeq ==
  ASSUME NEW S, NEW s \in Seq(S), NEW i \in 1..Len(s), NEW e \in S
  PROVE  /\ [s EXCEPT ![i] = e] \in Seq(S) /\ Len([s EXCEPT ![i] = e]) = Len(s)
         /\ \A j \in 1..Len(s) : [s EXCEPT ![i] = e][j] = IF j = i THEN e ELSE s[j]
OBVIOUS

\* Appending adds an element at the end and keeps the others.
LEMMA AppendProperties ==
  ASSUME NEW S, NEW s \in Seq(S), NEW x \in S
  PROVE  /\ Append(s, x) \in Seq(S) /\ Len(Append(s, x)) = Len(s) + 1
         /\ \A i \in 1..Len(s) : Append(s, x)[i] = s[i]
         /\ Append(s, x)[Len(s) + 1] = x
OBVIOUS

\* Sequences with the same elements are equal.
LEMMA SeqEqual ==
  ASSUME NEW S, NEW s \in Seq(S), NEW t \in Seq(S),
         Len(s) = Len(t), \A i \in 1..Len(s) : s[i] = t[i]
  PROVE  s = t
OBVIOUS

\* r is s with x at k.
IsInserted(r, s, k, x) ==
  /\ Len(r) = Len(s) + 1
  /\ \A i \in 1..Len(r) : r[i] = IF i < k THEN s[i] ELSE IF i = k THEN x ELSE s[i - 1]

\* r is s without the element at k.
IsRemoved(r, s, k) ==
  /\ Len(r) = Len(s) - 1
  /\ \A i \in 1..Len(r) : r[i] = IF i < k THEN s[i] ELSE s[i + 1]

\* What a sequence is with an element more.
LEMMA InsertedIs ==
  ASSUME NEW S, NEW s \in Seq(S), NEW k \in 1..(Len(s) + 1), NEW x \in S
  PROVE  Inserted(s, k, x) \in Seq(S) /\ IsInserted(Inserted(s, k, x), s, k, x)
<1> DEFINE r == Inserted(s, k, x)
<1>1. Len(s) \in Nat /\ \A i \in 1..Len(s) : s[i] \in S
  BY LenProperties, ElementOfSeq
<1>2. \A i \in 1..(Len(s) + 1) : r[i] = IF i < k THEN s[i] ELSE IF i = k THEN x ELSE s[i - 1]
  BY DEF Inserted
<1>3. r = [i \in 1..(Len(s) + 1) |-> r[i]]
  BY DEF Inserted
<1> HIDE DEF r
<1>4. ASSUME NEW i \in 1..(Len(s) + 1) PROVE r[i] \in S
  <2>1. CASE i < k
    BY <1>1, <1>2, <2>1
  <2>2. CASE i = k
    BY <1>2, <2>2
  <2>3. CASE i > k
    <3>1. i - 1 \in 1..Len(s) /\ ~(i < k) /\ i # k
      BY <1>1, <2>3
    <3>2. r[i] = s[i - 1]
      BY <1>2, <3>1
    <3> QED  BY <1>1, <3>1, <3>2
  <2> QED  BY <1>1, <2>1, <2>2, <2>3
<1>5. r \in [1..(Len(s) + 1) -> S]
  BY <1>3, <1>4
<1>6. r \in Seq(S) /\ Len(r) = Len(s) + 1
  BY <1>1, <1>5, MakeSeq
<1>7. IsInserted(r, s, k, x)
  BY <1>2, <1>6 DEF IsInserted
<1> QED  BY <1>6, <1>7 DEF r

\* What a sequence is with an element less.
LEMMA RemovedIs ==
  ASSUME NEW S, NEW s \in Seq(S), NEW k \in 1..Len(s)
  PROVE  Removed(s, k) \in Seq(S) /\ IsRemoved(Removed(s, k), s, k)
<1> DEFINE r == Removed(s, k)
<1>1. Len(s) \in Nat /\ \A i \in 1..Len(s) : s[i] \in S
  BY LenProperties, ElementOfSeq
<1>2. \A i \in 1..(Len(s) - 1) : r[i] = IF i < k THEN s[i] ELSE s[i + 1]
  BY DEF Removed
<1>3. r = [i \in 1..(Len(s) - 1) |-> r[i]]
  BY DEF Removed
<1> HIDE DEF r
<1>4. ASSUME NEW i \in 1..(Len(s) - 1) PROVE r[i] \in S
  <2>1. i \in 1..Len(s) /\ i + 1 \in 1..Len(s)
    BY <1>1
  <2>2. s[i] \in S /\ s[i + 1] \in S
    BY <1>1, <2>1
  <2> QED  BY <1>2, <2>2
<1>5. r \in [1..(Len(s) - 1) -> S]
  BY <1>3, <1>4
<1>6. Len(s) - 1 \in Nat
  BY <1>1
<1>7. r \in Seq(S) /\ Len(r) = Len(s) - 1
  BY <1>5, <1>6, MakeSeq
<1>8. IsRemoved(r, s, k)
  BY <1>2, <1>7 DEF IsRemoved
<1> QED  BY <1>7, <1>8 DEF r

Sums(c, s, k) == c = [n \in 0..k |-> IF n = 0 THEN 0 ELSE c[n - 1] + s[n]]

\* The recursion of Sum has a solution of every length.
LEMMA SumsExist ==
  ASSUME NEW s, NEW k \in Nat
  PROVE  \E c : Sums(c, s, k)
<1> SUFFICES ASSUME ~\E c : Sums(c, s, k) PROVE FALSE
  OBVIOUS
<1> DEFINE Bad == {n \in Nat : ~\E c : Sums(c, s, n)}
<1>1. Bad \subseteq Nat /\ Bad # {}
  OBVIOUS
<1>2. PICK b \in Bad : \A y \in Bad : b <= y
  <2> HIDE DEF Bad
  <2> QED  BY <1>1, LeastOf
<1>3. b \in Nat /\ ~\E c : Sums(c, s, b)
  OBVIOUS
<1>4. CASE b = 0
  <2> DEFINE c == [n \in 0..0 |-> 0]
  <2>1. c = [n \in 0..0 |-> IF n = 0 THEN 0 ELSE c[n - 1] + s[n]]
    OBVIOUS
  <2>2. Sums(c, s, 0)
    BY <2>1 DEF Sums
  <2> QED  BY <1>3, <1>4, <2>2
<1>5. CASE b # 0
  <2>1. b - 1 \in Nat /\ b - 1 \notin Bad
    BY <1>2, <1>3, <1>5
  <2>2. PICK c : Sums(c, s, b - 1)
    BY <2>1
  <2> DEFINE g == [n \in 0..b |-> IF n = b THEN c[b - 1] + s[b] ELSE c[n]]
  <2>3. \A n \in 0..(b - 1) : c[n] = IF n = 0 THEN 0 ELSE c[n - 1] + s[n]
    BY <2>2 DEF Sums
  <2>4. ASSUME NEW n \in 0..b
        PROVE  g[n] = IF n = 0 THEN 0 ELSE g[n - 1] + s[n]
    <3>1. CASE n = b
      <4>1. b - 1 \in 0..b /\ b - 1 # b
        BY <1>3, <1>5
      <4>2. g[b - 1] = c[b - 1]
        BY <4>1
      <4>3. g[b] = c[b - 1] + s[b]
        BY <1>3
      <4> QED  BY <1>5, <3>1, <4>2, <4>3
    <3>2. CASE n # b
      <4>1. n \in 0..(b - 1) /\ g[n] = c[n]
        BY <1>3, <3>2
      <4>2. CASE n = 0
        BY <2>3, <4>1, <4>2
      <4>3. CASE n # 0
        <5>1. n - 1 \in 0..b /\ n - 1 # b
          BY <1>3, <4>1, <4>3
        <5>2. g[n - 1] = c[n - 1]
          BY <5>1
        <5> QED  BY <2>3, <4>1, <4>3, <5>2
      <4> QED  BY <4>2, <4>3
    <3> QED  BY <3>1, <3>2
  <2>5. g = [n \in 0..b |-> g[n]]
    OBVIOUS
  <2> HIDE DEF g
  <2>6. g = [n \in 0..b |-> IF n = 0 THEN 0 ELSE g[n - 1] + s[n]]
    BY <2>4, <2>5
  <2>7. Sums(g, s, b)
    BY <2>6 DEF Sums
  <2> QED  BY <1>3, <2>7
<1> QED  BY <1>4, <1>5

\* c holds the sums of the beginnings of s.
SumsOf(c, s) ==
  /\ c[0] = 0 /\ \A n \in 0..Len(s) : c[n] \in Nat
  /\ \A n \in 1..Len(s) : c[n] = c[n - 1] + s[n]
  /\ c[Len(s)] = Sum(s)

\* Sum adds the elements up.
LEMMA SumIs ==
  ASSUME NEW s \in Seq(Nat)
  PROVE  \E c : SumsOf(c, s)
<1>1. Len(s) \in Nat /\ \A i \in 1..Len(s) : s[i] \in Nat
  BY LenProperties, ElementOfSeq
<1> DEFINE c == CHOOSE f : f = [n \in 0..Len(s) |-> IF n = 0 THEN 0 ELSE f[n - 1] + s[n]]
<1>2. Sums(c, s, Len(s))
  <2>1. \E f : Sums(f, s, Len(s))
    BY <1>1, SumsExist
  <2>2. \E f : f = [n \in 0..Len(s) |-> IF n = 0 THEN 0 ELSE f[n - 1] + s[n]]
    BY <2>1 DEF Sums
  <2> QED  BY <2>2 DEF Sums
<1>3. Sum(s) = c[Len(s)]
  BY DEF Sum
<1> HIDE DEF c
<1>4. \A n \in 0..Len(s) : c[n] = IF n = 0 THEN 0 ELSE c[n - 1] + s[n]
  BY <1>2 DEF Sums
<1>5. c[0] = 0 /\ \A n \in 1..Len(s) : c[n] = c[n - 1] + s[n]
  BY <1>1, <1>4
<1> DEFINE Bad == {n \in 0..Len(s) : c[n] \notin Nat}
<1>6. Bad = {}
  <2> SUFFICES ASSUME Bad # {} PROVE FALSE
    OBVIOUS
  <2>1. Bad \subseteq Nat
    OBVIOUS
  <2>2. PICK b \in Bad : \A y \in Bad : b <= y
    <3> HIDE DEF Bad
    <3> QED  BY <2>1, LeastOf
  <2>3. b \in 1..Len(s) /\ c[b] \notin Nat
    BY <1>1, <1>5
  <2>4. b - 1 \in 0..Len(s) /\ b - 1 \notin Bad
    BY <1>1, <2>2, <2>3
  <2>5. c[b - 1] \in Nat /\ s[b] \in Nat /\ c[b] = c[b - 1] + s[b]
    BY <1>1, <1>5, <2>3, <2>4
  <2> QED  BY <2>3, <2>5
<1> QED  BY <1>3, <1>5, <1>6 DEF SumsOf

\* The sum of what is left when one element goes.
LEMMA SumRemoved ==
  ASSUME NEW s \in Seq(Nat), NEW k \in 1..Len(s)
  PROVE  /\ Sum(s) \in Nat /\ Sum(Removed(s, k)) \in Nat /\ s[k] \in Nat
         /\ Sum(s) = Sum(Removed(s, k)) + s[k]
<1> DEFINE r == Removed(s, k)
           l == Len(s)
<1>1. l \in Nat /\ \A i \in 1..l : s[i] \in Nat
  BY LenProperties, ElementOfSeq
<1>2. /\ r \in Seq(Nat) /\ Len(r) = l - 1
      /\ \A i \in 1..(l - 1) : r[i] = IF i < k THEN s[i] ELSE s[i + 1]
  <2>1. r \in Seq(Nat) /\ IsRemoved(r, s, k)
    BY RemovedIs
  <2> HIDE DEF r
  <2> QED  BY <2>1 DEF IsRemoved
<1> HIDE DEF r
<1>3. PICK c : SumsOf(c, s)
  BY SumIs
<1>4. PICK d : SumsOf(d, r)
  BY <1>2, SumIs
<1>5. /\ c[0] = 0 /\ c[l] = Sum(s)
      /\ \A n \in 0..l : c[n] \in Nat
      /\ \A n \in 1..l : c[n] = c[n - 1] + s[n]
  BY <1>3 DEF SumsOf
<1>6. /\ d[0] = 0 /\ d[l - 1] = Sum(r)
      /\ \A n \in 0..(l - 1) : d[n] \in Nat
      /\ \A n \in 1..(l - 1) : d[n] = d[n - 1] + r[n]
  BY <1>2, <1>4 DEF SumsOf
<1> HIDE DEF l
<1>7. k \in Nat /\ 1 <= k /\ k <= l
  BY <1>1 DEF l
<1> DEFINE Same(n) == IF n < k THEN d[n] = c[n] ELSE d[n] + s[k] = c[n + 1]
           Bad == {n \in 0..(l - 1) : ~Same(n)}
<1>8. Bad = {}
  <2> SUFFICES ASSUME Bad # {} PROVE FALSE
    OBVIOUS
  <2>1. Bad \subseteq Nat
    OBVIOUS
  <2>2. PICK b \in Bad : \A y \in Bad : b <= y
    <3> HIDE DEF Bad
    <3> QED  BY <2>1, LeastOf
  <2>3. b \in 0..(l - 1) /\ ~Same(b)
    OBVIOUS
  <2>4. b # 0
    BY <1>5, <1>6, <1>7, <2>3
  <2>5. b \in 1..(l - 1) /\ b - 1 \in 0..(l - 1) /\ b \in 1..l /\ b + 1 \in 1..l
    BY <1>1, <2>3, <2>4
  <2>6. Same(b - 1)
    <3>1. b - 1 \notin Bad
      BY <2>2, <2>5
    <3> QED  BY <3>1, <2>5
  <2>7. /\ d[b] = d[b - 1] + r[b] /\ d[b - 1] \in Nat /\ d[b] \in Nat
        /\ c[b] = c[b - 1] + s[b] /\ c[b + 1] = c[(b + 1) - 1] + s[b + 1]
        /\ c[b - 1] \in Nat /\ c[b] \in Nat /\ c[b + 1] \in Nat
        /\ s[b] \in Nat /\ s[b + 1] \in Nat /\ s[k] \in Nat
    <3>1. b - 1 \in 0..l /\ b \in 0..l /\ b + 1 \in 0..l /\ b \in 0..(l - 1)
      BY <1>1, <2>5
    <3> QED  BY <1>1, <1>5, <1>6, <1>7, <2>5, <3>1
  <2>8. (b + 1) - 1 = b /\ (b - 1) + 1 = b
    BY <2>5
  <2>9. CASE b < k
    <3>1. r[b] = s[b] /\ b - 1 < k
      BY <1>2, <1>7, <2>5, <2>9
    <3>2. d[b - 1] = c[b - 1]
      BY <2>6, <3>1
    <3>3. d[b] = c[b]
      BY <2>7, <3>1, <3>2
    <3> QED  BY <2>3, <2>9, <3>3
  <2>10. CASE b >= k
    <3>1. r[b] = s[b + 1] /\ ~(b < k)
      BY <1>2, <1>7, <2>5, <2>10
    <3>2. d[b - 1] + s[k] = c[b]
      <4>1. CASE b - 1 < k
        <5>1. b = k
          BY <1>7, <2>5, <2>10, <4>1
        <5>2. d[b - 1] = c[b - 1]
          BY <2>6, <4>1
        <5> QED  BY <2>7, <5>1, <5>2
      <4>2. CASE ~(b - 1 < k)
        <5>1. d[b - 1] + s[k] = c[(b - 1) + 1]
          BY <2>6, <4>2
        <5> QED  BY <5>1, <2>8
      <4> QED  BY <4>1, <4>2
    <3>3. d[b] + s[k] = c[b + 1]
      <4>1. c[b + 1] = c[b] + s[b + 1]
        BY <2>7, <2>8
      <4>2. d[b] = d[b - 1] + s[b + 1]
        BY <2>7, <3>1
      <4> DEFINE x == d[b - 1]
                 y == s[k]
                 z == s[b + 1]
      <4>3. x \in Nat /\ y \in Nat /\ z \in Nat /\ d[b] = x + z /\ c[b + 1] = (x + y) + z
        BY <2>7, <3>2, <4>1, <4>2
      <4> HIDE DEF x, y, z
      <4>4. (x + z) + y = (x + y) + z
        BY <4>3
      <4> QED  BY <4>3, <4>4 DEF y
    <3> QED  BY <2>3, <3>1, <3>3
  <2> QED  BY <1>7, <2>5, <2>9, <2>10
<1>9. l - 1 \in 0..(l - 1) /\ (l - 1) + 1 = l /\ l \in 0..l
  BY <1>1, <1>7
<1>10. Same(l - 1)
  BY <1>8, <1>9
<1>11. d[l - 1] + s[k] = c[l]
  <2>1. CASE l - 1 < k
    <3>1. k = l
      BY <1>1, <1>7, <2>1
    <3>2. d[l - 1] = c[l - 1] /\ c[l] = c[l - 1] + s[l]
      BY <1>5, <1>7, <1>10, <2>1, <3>1
    <3> QED  BY <3>1, <3>2
  <2>2. CASE ~(l - 1 < k)
    BY <1>9, <1>10, <2>2
  <2> QED  BY <2>1, <2>2
<1>12. s[k] \in Nat /\ c[l] \in Nat /\ d[l - 1] \in Nat
  BY <1>1, <1>5, <1>6, <1>7, <1>9
<1> QED  BY <1>5, <1>6, <1>11, <1>12 DEF r

\* The sum with an element more.
LEMMA SumInserted ==
  ASSUME NEW s \in Seq(Nat), NEW k \in 1..(Len(s) + 1), NEW x \in Nat
  PROVE  Sum(s) \in Nat /\ Sum(Inserted(s, k, x)) = Sum(s) + x
<1> DEFINE r == Inserted(s, k, x)
           t == Removed(r, k)
<1>1. Len(s) \in Nat
  BY LenProperties
<1>2. /\ r \in Seq(Nat) /\ Len(r) = Len(s) + 1
      /\ \A i \in 1..Len(r) : r[i] = IF i < k THEN s[i] ELSE IF i = k THEN x ELSE s[i - 1]
  <2>1. r \in Seq(Nat) /\ IsInserted(r, s, k, x)
    BY InsertedIs
  <2> HIDE DEF r
  <2> QED  BY <2>1 DEF IsInserted
<1> HIDE DEF r
<1>3. k \in 1..Len(r) /\ r[k] = x
  BY <1>1, <1>2
<1>4. /\ t \in Seq(Nat) /\ Len(t) = Len(r) - 1
      /\ \A i \in 1..Len(t) : t[i] = IF i < k THEN r[i] ELSE r[i + 1]
  <2>1. t \in Seq(Nat) /\ IsRemoved(t, r, k)
    BY <1>2, <1>3, RemovedIs
  <2> HIDE DEF t
  <2> QED  BY <2>1 DEF IsRemoved
<1>5. Sum(r) = Sum(t) + r[k] /\ Sum(t) \in Nat
  BY <1>2, <1>3, SumRemoved
<1> HIDE DEF t
<1>6. Len(t) = Len(s)
  BY <1>1, <1>2, <1>4
<1>7. ASSUME NEW i \in 1..Len(t) PROVE t[i] = s[i]
  <2>1. CASE i < k
    <3>1. i \in 1..Len(r)
      BY <1>1, <1>2, <1>6
    <3> QED  BY <1>2, <1>4, <2>1, <3>1
  <2>2. CASE ~(i < k)
    <3>1. i + 1 \in 1..Len(r) /\ ~(i + 1 < k) /\ i + 1 # k /\ (i + 1) - 1 = i
      BY <1>1, <1>2, <1>6, <2>2
    <3>2. t[i] = r[i + 1]
      BY <1>4, <2>2
    <3>3. r[i + 1] = s[(i + 1) - 1]
      BY <1>2, <3>1
    <3> QED  BY <3>1, <3>2, <3>3
  <2> QED  BY <2>1, <2>2
<1>8. t = s
  BY <1>4, <1>6, <1>7, SeqEqual
<1> QED  BY <1>3, <1>5, <1>8 DEF r

\* The sum with one element changed.
LEMMA SumChanged ==
  ASSUME NEW s \in Seq(Nat), NEW t \in Seq(Nat), Len(s) = Len(t), NEW k \in 1..Len(s),
         \A i \in 1..Len(s) : i # k => s[i] = t[i]
  PROVE  Sum(t) = (Sum(s) - s[k]) + t[k]
<1> DEFINE r == Removed(s, k)
           q == Removed(t, k)
<1>1. Len(s) \in Nat
  BY LenProperties
<1>2. /\ r \in Seq(Nat) /\ Len(r) = Len(s) - 1
      /\ \A i \in 1..Len(r) : r[i] = IF i < k THEN s[i] ELSE s[i + 1]
  <2>1. r \in Seq(Nat) /\ IsRemoved(r, s, k)
    BY RemovedIs
  <2> HIDE DEF r
  <2> QED  BY <2>1 DEF IsRemoved
<1>3. /\ q \in Seq(Nat) /\ Len(q) = Len(t) - 1
      /\ \A i \in 1..Len(q) : q[i] = IF i < k THEN t[i] ELSE t[i + 1]
  <2>1. k \in 1..Len(t)
    OBVIOUS
  <2>2. q \in Seq(Nat) /\ IsRemoved(q, t, k)
    BY <2>1, RemovedIs
  <2> HIDE DEF q
  <2> QED  BY <2>2 DEF IsRemoved
<1>4. Sum(s) = Sum(r) + s[k] /\ Sum(r) \in Nat /\ s[k] \in Nat
  BY SumRemoved
<1>5. Sum(t) = Sum(q) + t[k] /\ Sum(q) \in Nat /\ t[k] \in Nat
  <2>1. k \in 1..Len(t)
    OBVIOUS
  <2> QED  BY <2>1, SumRemoved
<1> HIDE DEF r, q
<1>6. ASSUME NEW i \in 1..Len(r) PROVE r[i] = q[i]
  <2>0. Len(r) = Len(s) - 1 /\ Len(q) = Len(s) - 1
    BY <1>2, <1>3
  <2>1. i \in 1..Len(s) /\ i + 1 \in 1..Len(s) /\ i \in 1..Len(q)
    BY <1>1, <2>0
  <2>2. CASE i < k
    BY <1>2, <1>3, <2>1, <2>2
  <2>3. CASE ~(i < k)
    <3>1. i + 1 # k
      BY <1>1, <2>3
    <3> QED  BY <1>2, <1>3, <2>1, <2>3, <3>1
  <2> QED  BY <2>2, <2>3
<1>7. r = q
  BY <1>2, <1>3, <1>6, SeqEqual
<1> QED  BY <1>4, <1>5, <1>7

\* A sum is no less than each of its elements.
LEMMA SumAtLeast ==
  ASSUME NEW s \in Seq(Nat)
  PROVE  Sum(s) \in Nat /\ \A k \in 1..Len(s) : s[k] <= Sum(s)
<1>1. PICK c : SumsOf(c, s)
  BY SumIs
<1>2. Len(s) \in 0..Len(s)
  BY LenProperties
<1>3. Sum(s) \in Nat
  BY <1>1, <1>2 DEF SumsOf
<1>4. ASSUME NEW k \in 1..Len(s) PROVE s[k] <= Sum(s)
  BY SumRemoved
<1> QED  BY <1>3, <1>4

-----------------------------------------------------------------------------
(* The fragments of a datagram *)

Piece == [start : Nat, end : Nat]

\* The fragments are in order, apart, and within the n bytes of the datagram.
InOrder(p, n) ==
  /\ p \in Seq(Piece)
  /\ \A k \in 1..Len(p) : p[k].start < p[k].end /\ p[k].end <= n
  /\ \A j, k \in 1..Len(p) : j < k => p[j].end <= p[k].start

Ends(p, n) == \E k \in 1..Len(p) : p[k].end = n

Lens(p) == [k \in 1..Len(p) |-> p[k].end - p[k].start]

\* The numbers of a queue of fragments.
LEMMA PieceTypes ==
  ASSUME NEW p \in Seq(Piece)
  PROVE  /\ Len(p) \in Nat
         /\ \A k \in 1..Len(p) : p[k] \in Piece /\ p[k].start \in Nat /\ p[k].end \in Nat
<1>1. Len(p) \in Nat /\ \A k \in 1..Len(p) : p[k] \in Piece
  BY LenProperties, ElementOfSeq
<1> QED  BY <1>1 DEF Piece

\* Each fragment of a queue counts for its pbufs.
LEMMA LensIs ==
  ASSUME NEW p, NEW n \in Nat, InOrder(p, n)
  PROVE  /\ Lens(p) \in Seq(Nat) /\ Len(Lens(p)) = Len(p) /\ Clen(p) = Sum(Lens(p))
         /\ \A k \in 1..Len(p) : Lens(p)[k] = p[k].end - p[k].start /\ Lens(p)[k] > 0
<1>1. /\ p \in Seq(Piece) /\ \A k \in 1..Len(p) : p[k].start < p[k].end
  BY DEF InOrder
<1>2. Len(p) \in Nat /\ \A k \in 1..Len(p) : p[k].start \in Nat /\ p[k].end \in Nat
  BY <1>1, PieceTypes
<1>3. ASSUME NEW k \in 1..Len(p)
      PROVE  p[k].end - p[k].start \in Nat /\ p[k].end - p[k].start > 0
  BY <1>1, <1>2
<1>4. \A k \in 1..Len(p) : Lens(p)[k] = p[k].end - p[k].start /\ Lens(p)[k] > 0
  BY <1>3 DEF Lens
<1>5. Lens(p) \in [1..Len(p) -> Nat]
  BY <1>3 DEF Lens
<1>6. Lens(p) \in Seq(Nat) /\ Len(Lens(p)) = Len(p)
  BY <1>2, <1>5, MakeSeq
<1>7. Clen(p) = Sum(Lens(p))
  BY DEF Clen, Lens
<1> QED  BY <1>4, <1>6, <1>7

\* A queue with a fragment in it holds pbufs.
LEMMA ClenPositive ==
  ASSUME NEW p, NEW n \in Nat, InOrder(p, n)
  PROVE  Clen(p) \in Nat /\ (p # <<>> => Clen(p) > 0)
<1>1. /\ Lens(p) \in Seq(Nat) /\ Len(Lens(p)) = Len(p) /\ Clen(p) = Sum(Lens(p))
      /\ \A k \in 1..Len(p) : Lens(p)[k] > 0
  BY LensIs
<1>2. Sum(Lens(p)) \in Nat /\ \A k \in 1..Len(p) : Lens(p)[k] <= Sum(Lens(p))
  BY <1>1, SumAtLeast
<1>3. \A k \in 1..Len(p) : Lens(p)[k] \in Nat
  BY <1>1, ElementOfSeq
<1>4. ASSUME p # <<>> PROVE Clen(p) > 0
  <2>1. p \in Seq(Piece)
    BY DEF InOrder
  <2>2. 1 \in 1..Len(p)
    BY <1>4, <2>1, EmptySeq, LenProperties
  <2> QED  BY <1>1, <1>2, <1>3, <2>2
<1> QED  BY <1>1, <1>2, <1>4

\* The queue r has all of p, and f.
HasAlso(r, p, f) ==
  /\ Len(r) = Len(p) + 1
  /\ \A i \in 1..Len(p) : \E j \in 1..Len(r) : r[j] = p[i]
  /\ \E j \in 1..Len(r) : r[j] = f
  /\ \A j \in 1..Len(r) : r[j] = f \/ \E i \in 1..Len(p) : r[j] = p[i]

\* An insertion adds one element and loses none.
LEMMA InsertedHas ==
  ASSUME NEW S, NEW s \in Seq(S), NEW k \in 1..(Len(s) + 1), NEW x \in S
  PROVE  HasAlso(Inserted(s, k, x), s, x)
<1> DEFINE r == Inserted(s, k, x)
<1>1. Len(s) \in Nat
  BY LenProperties
<1>2. /\ r \in Seq(S) /\ Len(r) = Len(s) + 1
      /\ \A i \in 1..Len(r) : r[i] = IF i < k THEN s[i] ELSE IF i = k THEN x ELSE s[i - 1]
  <2>1. r \in Seq(S) /\ IsInserted(r, s, k, x)
    BY InsertedIs
  <2> HIDE DEF r
  <2> QED  BY <2>1 DEF IsInserted
<1> HIDE DEF r
<1>3. ASSUME NEW i \in 1..Len(s) PROVE \E j \in 1..Len(r) : r[j] = s[i]
  <2>1. CASE i < k
    <3>1. i \in 1..Len(r)
      BY <1>1, <1>2
    <3> QED  BY <1>2, <2>1, <3>1
  <2>2. CASE ~(i < k)
    <3>1. i + 1 \in 1..Len(r) /\ ~(i + 1 < k) /\ i + 1 # k /\ (i + 1) - 1 = i
      BY <1>1, <1>2, <2>2
    <3>2. r[i + 1] = s[(i + 1) - 1]
      BY <1>2, <3>1
    <3> QED  BY <3>1, <3>2
  <2> QED  BY <2>1, <2>2
<1>4. k \in 1..Len(r) /\ r[k] = x
  BY <1>1, <1>2
<1>5. ASSUME NEW j \in 1..Len(r) PROVE r[j] = x \/ \E i \in 1..Len(s) : r[j] = s[i]
  <2>1. CASE j < k
    <3>1. j \in 1..Len(s)
      BY <1>1, <2>1
    <3> QED  BY <1>2, <2>1, <3>1
  <2>2. CASE j = k
    BY <1>4, <2>2
  <2>3. CASE j > k
    <3>1. j - 1 \in 1..Len(s) /\ ~(j < k) /\ j # k
      BY <1>1, <1>2, <2>3
    <3>2. r[j] = s[j - 1]
      BY <1>2, <3>1
    <3> QED  BY <3>1, <3>2
  <2> QED  BY <1>1, <1>2, <2>1, <2>2, <2>3
<1> QED  BY <1>2, <1>3, <1>4, <1>5 DEF HasAlso, r

\* k is the place of f in p: the fragments before it end before f, the others start after it.
Between(p, f, k) ==
  /\ k \in 1..(Len(p) + 1)
  /\ \A i \in 1..Len(p) : IF i < k THEN p[i].end <= f.start ELSE f.end <= p[i].start

\* Chain finds the place of a fragment that overlaps no other.
LEMMA ChainPlace ==
  ASSUME NEW p, NEW n \in Nat, InOrder(p, n), NEW f \in Piece, f.start < f.end,
         ~\E j \in 1..Len(p) : Overlap(f, p[j])
  PROVE  \E k : Between(p, f, k) /\ Chain(p, f) = Inserted(p, k, f)
<1> DEFINE after == {k \in 1..Len(p) : f.start < p[k].start}
           place == IF after = {} THEN Len(p) + 1
                    ELSE CHOOSE k \in after : \A j \in after : k <= j
<1>1. /\ Len(p) \in Nat /\ \A k \in 1..Len(p) : p[k].start \in Nat /\ p[k].end \in Nat
      /\ f.start \in Nat /\ f.end \in Nat
  BY PieceTypes DEF InOrder, Piece
<1>2. /\ \A k \in 1..Len(p) : p[k].start < p[k].end
      /\ \A j, k \in 1..Len(p) : j < k => p[j].end <= p[k].start
  BY DEF InOrder
<1>3. \A k \in 1..Len(p) : f.start # p[k].start /\ ~(f.start < p[k].end /\ p[k].start < f.end)
  BY DEF Overlap
<1>4. /\ place \in 1..(Len(p) + 1)
      /\ \A i \in 1..Len(p) : i < place => i \notin after
      /\ place <= Len(p) => place \in after
  <2>1. CASE after = {}
    <3>1. place = Len(p) + 1
      BY <2>1
    <3> HIDE DEF place, after
    <3> QED  BY <1>1, <2>1, <3>1
  <2>2. CASE after # {}
    <3>1. after \subseteq Nat /\ after \subseteq 1..Len(p)
      BY <1>1
    <3> HIDE DEF after
    <3>2. \E k \in after : \A j \in after : k <= j
      BY <2>2, <3>1, LeastOf
    <3>3. place \in after /\ \A j \in after : place <= j
      BY <2>2, <3>2
    <3> HIDE DEF place
    <3>4. place \in 1..Len(p)
      BY <3>1, <3>3
    <3>5. ASSUME NEW i \in 1..Len(p), i < place PROVE i \notin after
      BY <3>3, <3>4, <3>5
    <3> QED  BY <1>1, <3>3, <3>4, <3>5
  <2> QED  BY <2>1, <2>2
<1>5. Chain(p, f) = Inserted(p, place, f)
  BY DEF Chain
<1> HIDE DEF place
<1>6. ASSUME NEW i \in 1..Len(p), i < place PROVE p[i].end <= f.start
  <2>1. ~(f.start < p[i].start)
    BY <1>4, <1>6
  <2> QED  BY <1>1, <1>2, <1>3, <2>1
<1>7. ASSUME NEW i \in 1..Len(p), ~(i < place) PROVE f.end <= p[i].start
  <2>1. place \in 1..Len(p) /\ place <= i
    BY <1>1, <1>4, <1>7
  <2>2. f.start < p[place].start
    BY <1>4, <2>1
  <2>3. p[place].start <= p[i].start
    <3>1. CASE place = i
      BY <1>1, <3>1
    <3>2. CASE place < i
      <4>1. p[place].end <= p[i].start /\ p[place].start < p[place].end
        BY <1>2, <2>1, <3>2
      <4> QED  BY <1>1, <2>1, <4>1
    <3> QED  BY <2>1, <3>1, <3>2
  <2>4. f.start < p[i].start
    BY <1>1, <2>1, <2>2, <2>3
  <2>5. p[i].start < p[i].end /\ ~(f.start < p[i].end /\ p[i].start < f.end)
    BY <1>2, <1>3
  <2> QED  BY <1>1, <2>4, <2>5
<1>8. Between(p, f, place)
  BY <1>4, <1>6, <1>7 DEF Between
<1> QED  BY <1>5, <1>8

\* A fragment that overlaps no other goes between two of them, and its pbufs are added.
LEMMA ChainIs ==
  ASSUME NEW p, NEW n \in Nat, InOrder(p, n), NEW f \in Piece, f.start < f.end, f.end <= n,
         ~\E j \in 1..Len(p) : Overlap(f, p[j])
  PROVE  LET r == Chain(p, f)
         IN InOrder(r, n) /\ HasAlso(r, p, f) /\ Clen(r) = Clen(p) + (f.end - f.start)
<1>1. PICK k : Between(p, f, k) /\ Chain(p, f) = Inserted(p, k, f)
  BY ChainPlace
<1> DEFINE r == Inserted(p, k, f)
<1>2. p \in Seq(Piece) /\ k \in 1..(Len(p) + 1)
  BY <1>1 DEF InOrder, Between
<1>3. /\ r \in Seq(Piece) /\ Len(r) = Len(p) + 1
      /\ \A i \in 1..Len(r) : r[i] = IF i < k THEN p[i] ELSE IF i = k THEN f ELSE p[i - 1]
  <2>1. r \in Seq(Piece) /\ IsInserted(r, p, k, f)
    BY <1>2, InsertedIs
  <2> HIDE DEF r
  <2> QED  BY <2>1 DEF IsInserted
<1>4. HasAlso(r, p, f)
  BY <1>2, InsertedHas
<1>5. /\ Len(p) \in Nat /\ \A i \in 1..Len(p) : p[i].start \in Nat /\ p[i].end \in Nat
      /\ f.start \in Nat /\ f.end \in Nat
  BY <1>2, PieceTypes DEF Piece
<1>6. /\ \A i \in 1..Len(p) : p[i].start < p[i].end /\ p[i].end <= n
      /\ \A i, j \in 1..Len(p) : i < j => p[i].end <= p[j].start
  BY DEF InOrder
<1>7. \A i \in 1..Len(p) : IF i < k THEN p[i].end <= f.start ELSE f.end <= p[i].start
  BY <1>1 DEF Between
<1> HIDE DEF r
<1>8. ASSUME NEW i \in 1..Len(r) PROVE r[i].start < r[i].end /\ r[i].end <= n
  BY <1>4, <1>6 DEF HasAlso
<1>9. ASSUME NEW i \in 1..Len(r), NEW j \in 1..Len(r), i < j PROVE r[i].end <= r[j].start
  <2>1. i < k => i \in 1..Len(p) /\ r[i] = p[i]
    BY <1>2, <1>3, <1>5
  <2>2. i > k => i - 1 \in 1..Len(p) /\ r[i] = p[i - 1]
    BY <1>2, <1>3, <1>5
  <2>3. j < k => j \in 1..Len(p) /\ r[j] = p[j]
    BY <1>2, <1>3, <1>5
  <2>4. j > k => j - 1 \in 1..Len(p) /\ r[j] = p[j - 1] /\ ~(j - 1 < k)
    BY <1>2, <1>3, <1>5
  <2>5. r[k] = f
    BY <1>2, <1>3, <1>5
  <2>6. CASE j < k
    BY <1>2, <1>3, <1>5, <1>6, <1>9, <2>1, <2>3, <2>6
  <2>7. CASE j = k
    BY <1>7, <1>9, <2>1, <2>5, <2>7
  <2>8. CASE j > k /\ i = k
    BY <1>7, <2>4, <2>5, <2>8
  <2>9. CASE j > k /\ i < k
    <3>1. PICK t : t = j - 1
      OBVIOUS
    <3>2. t \in 1..Len(p) /\ ~(t < k) /\ r[j] = p[t]
      BY <2>4, <2>9, <3>1
    <3>3. i \in 1..Len(p) /\ i < k /\ r[i] = p[i]
      BY <2>1, <2>9
    <3>4. p[i].end <= f.start /\ p[i].end \in Nat
      BY <1>5, <1>7, <3>3
    <3>5. f.end <= p[t].start /\ p[t].start \in Nat
      BY <1>5, <1>7, <3>2
    <3>6. f.start \in Nat /\ f.end \in Nat /\ f.start < f.end
      BY <1>5
    <3>7. p[i].end <= p[t].start
      BY <3>4, <3>5, <3>6
    <3> QED  BY <3>2, <3>3, <3>7
  <2>10. CASE j > k /\ i > k
    <3>1. i - 1 < j - 1
      BY <1>3, <1>5, <1>9
    <3> QED  BY <1>6, <2>2, <2>4, <2>10, <3>1
  <2> QED  BY <1>2, <1>3, <1>5, <1>9, <2>6, <2>7, <2>8, <2>9, <2>10
<1>10. InOrder(r, n)
  BY <1>3, <1>8, <1>9 DEF InOrder
<1>11. Clen(r) = Clen(p) + (f.end - f.start)
  <2> DEFINE x == f.end - f.start
             a == Inserted(Lens(p), k, x)
  <2>1. x \in Nat
    BY <1>5
  <2>2. /\ Lens(p) \in Seq(Nat) /\ Len(Lens(p)) = Len(p) /\ Clen(p) = Sum(Lens(p))
        /\ \A i \in 1..Len(p) : Lens(p)[i] = p[i].end - p[i].start
    BY LensIs
  <2>3. /\ Lens(r) \in Seq(Nat) /\ Len(Lens(r)) = Len(r) /\ Clen(r) = Sum(Lens(r))
        /\ \A i \in 1..Len(r) : Lens(r)[i] = r[i].end - r[i].start
    BY <1>10, LensIs
  <2>4. k \in 1..(Len(Lens(p)) + 1)
    BY <1>2, <2>2
  <2>5. Sum(a) = Sum(Lens(p)) + x
    <3> HIDE DEF x
    <3> QED  BY <2>1, <2>2, <2>4, SumInserted
  <2>6. /\ a \in Seq(Nat) /\ Len(a) = Len(p) + 1
        /\ \A i \in 1..Len(a) :
             a[i] = IF i < k THEN Lens(p)[i] ELSE IF i = k THEN x ELSE Lens(p)[i - 1]
    <3> HIDE DEF x
    <3>1. Len(Lens(p)) = Len(p)
      BY <2>2
    <3>2. a \in Seq(Nat) /\ IsInserted(a, Lens(p), k, x)
      BY <2>1, <2>2, <2>4, InsertedIs
    <3> HIDE DEF a
    <3> QED  BY <3>1, <3>2 DEF IsInserted
  <2> HIDE DEF a
  <2>7. ASSUME NEW i \in 1..Len(r) PROVE Lens(r)[i] = a[i]
    <3>0. i \in 1..Len(a) /\ Lens(r)[i] = r[i].end - r[i].start
      BY <1>3, <2>3, <2>6
    <3>1. CASE i < k
      <4>1. i \in 1..Len(p) /\ r[i] = p[i]
        BY <1>2, <1>3, <1>5, <3>1
      <4>2. a[i] = Lens(p)[i]
        BY <2>6, <3>0, <3>1
      <4> QED  BY <2>2, <3>0, <4>1, <4>2
    <3>2. CASE i = k
      <4>1. r[i] = f /\ ~(i < k)
        BY <1>2, <1>3, <1>5, <3>2
      <4>2. a[i] = x
        BY <2>6, <3>0, <3>2, <4>1
      <4> QED  BY <3>0, <4>1, <4>2
    <3>3. CASE i > k
      <4>1. i - 1 \in 1..Len(p) /\ ~(i < k) /\ i # k
        BY <1>2, <1>3, <1>5, <3>3
      <4>2. r[i] = p[i - 1]
        BY <1>3, <4>1
      <4>3. a[i] = Lens(p)[i - 1]
        BY <2>6, <3>0, <4>1
      <4>4. Lens(p)[i - 1] = p[i - 1].end - p[i - 1].start
        BY <2>2, <4>1
      <4> QED  BY <3>0, <4>2, <4>3, <4>4
    <3> QED  BY <1>2, <1>3, <1>5, <3>1, <3>2, <3>3
  <2>8. Lens(r) = a
    <3>1. Len(Lens(r)) = Len(a)
      BY <1>3, <2>3, <2>6
    <3> QED  BY <2>3, <2>6, <2>7, <3>1, SeqEqual
  <2> QED  BY <2>2, <2>3, <2>5, <2>8
<1> QED  BY <1>1, <1>4, <1>10, <1>11 DEF r

\* Fragments without a gap up to the end of the datagram spell it, and only they do.
LEMMA SpellsIs ==
  ASSUME NEW p, NEW n \in Nat, InOrder(p, n), p # <<>>
  PROVE  Spells(p, n) <=> Ends(p, n) /\ Contiguous(p)
<1>1. /\ Len(p) \in Nat /\ \A k \in 1..Len(p) : p[k].start \in Nat /\ p[k].end \in Nat
  BY PieceTypes DEF InOrder
<1>2. /\ \A k \in 1..Len(p) : p[k].start < p[k].end /\ p[k].end <= n
      /\ \A j, k \in 1..Len(p) : j < k => p[j].end <= p[k].start
  BY DEF InOrder
<1>3. 1 \in 1..Len(p) /\ Len(p) \in 1..Len(p)
  BY <1>1, EmptySeq, LenProperties DEF InOrder
<1>4. ASSUME Ends(p, n), Contiguous(p) PROVE Spells(p, n)
  <2>1. PICK e \in 1..Len(p) : p[e].end = n
    BY <1>4 DEF Ends
  <2>2. e = Len(p)
    <3> SUFFICES ASSUME e # Len(p) PROVE FALSE
      OBVIOUS
    <3>1. e < Len(p)
      BY <1>1
    <3>2. p[e].end <= p[Len(p)].start /\ p[Len(p)].start < p[Len(p)].end /\ p[Len(p)].end <= n
      BY <1>2, <1>3, <3>1
    <3> QED  BY <1>1, <1>3, <2>1, <3>2
  <2>3. ASSUME NEW b \in 0..(n - 1)
        PROVE  \E k \in 1..Len(p) : p[k].start <= b /\ b < p[k].end
    <3> DEFINE S == {k \in 1..Len(p) : b < p[k].end}
    <3>1. Len(p) \in S
      BY <1>3, <2>1, <2>2
    <3>2. S \subseteq Nat /\ S # {}
      BY <3>1
    <3>3. PICK k \in S : \A j \in S : k <= j
      <4> HIDE DEF S
      <4> QED  BY <3>2, LeastOf
    <3>4. k \in 1..Len(p) /\ b < p[k].end
      OBVIOUS
    <3>5. p[k].start <= b
      <4>1. CASE k = 1
        BY <1>4, <4>1 DEF Contiguous
      <4>2. CASE k # 1
        <5>1. k - 1 \in 1..Len(p) /\ k - 1 \in 1..(Len(p) - 1) /\ (k - 1) + 1 = k
          BY <1>1, <3>4, <4>2
        <5>2. k - 1 \notin S
          BY <3>3, <3>4, <5>1
        <5>3. ~(b < p[k - 1].end)
          BY <5>1, <5>2
        <5>4. p[k - 1].end = p[k].start
          BY <1>4, <5>1 DEF Contiguous
        <5> QED  BY <1>1, <3>4, <5>3, <5>4
      <4> QED  BY <4>1, <4>2
    <3> QED  BY <3>4, <3>5
  <2> QED  BY <1>2, <2>3 DEF Spells
<1>5. ASSUME Spells(p, n) PROVE Ends(p, n) /\ Contiguous(p)
  <2>1. \A b \in 0..(n - 1) : \E k \in 1..Len(p) : p[k].start <= b /\ b < p[k].end
    BY <1>5 DEF Spells
  <2>2. n > 0
    BY <1>1, <1>2, <1>3
  <2>3. Ends(p, n)
    <3>1. n - 1 \in 0..(n - 1)
      BY <2>2
    <3>2. PICK k \in 1..Len(p) : n - 1 < p[k].end
      BY <2>1, <3>1
    <3>3. p[k].end = n
      BY <1>1, <1>2, <3>2
    <3> QED  BY <3>3 DEF Ends
  <2>4. p[1].start = 0
    <3>1. 0 \in 0..(n - 1)
      BY <2>2
    <3>2. PICK k \in 1..Len(p) : p[k].start <= 0
      BY <2>1, <3>1
    <3>3. CASE k = 1
      BY <1>1, <3>2, <3>3
    <3>4. CASE k # 1
      <4>1. p[1].end <= p[k].start /\ p[1].start < p[1].end
        BY <1>1, <1>2, <1>3, <3>4
      <4> QED  BY <1>1, <1>3, <3>2, <4>1
    <3> QED  BY <3>3, <3>4
  <2>5. ASSUME NEW k \in 1..(Len(p) - 1) PROVE p[k].end = p[k + 1].start
    <3>1. k \in 1..Len(p) /\ k + 1 \in 1..Len(p) /\ k < k + 1
      BY <1>1
    <3>2. /\ p[k].end <= p[k + 1].start /\ p[k + 1].start < p[k + 1].end /\ p[k + 1].end <= n
          /\ p[k].start < p[k].end
      BY <1>2, <3>1
    <3>3. p[k].end \in 0..(n - 1)
      BY <1>1, <3>1, <3>2
    <3>4. PICK j \in 1..Len(p) : p[j].start <= p[k].end /\ p[k].end < p[j].end
      BY <2>1, <3>3
    <3>5. j > k
      <4> SUFFICES ASSUME ~(j > k) PROVE FALSE
        OBVIOUS
      <4>1. j < k \/ j = k
        BY <1>1, <3>1
      <4>2. j # k
        BY <1>1, <3>1, <3>4
      <4>3. p[j].end <= p[k].start
        BY <1>2, <3>1, <4>1, <4>2
      <4> QED  BY <1>1, <3>1, <3>2, <3>4, <4>3
    <3>6. p[k + 1].start <= p[j].start
      <4>1. CASE j = k + 1
        BY <1>1, <3>1, <4>1
      <4>2. CASE j # k + 1
        <5>1. k + 1 < j
          BY <1>1, <3>1, <3>5, <4>2
        <5>2. p[k + 1].end <= p[j].start
          BY <1>2, <3>1, <5>1
        <5> QED  BY <1>1, <3>1, <3>2, <5>2
      <4> QED  BY <4>1, <4>2
    <3> QED  BY <1>1, <3>1, <3>2, <3>4, <3>6
  <2> QED  BY <2>3, <2>4, <2>5 DEF Contiguous
<1> QED  BY <1>4, <1>5

-----------------------------------------------------------------------------
(* The list of datagrams *)

Datagram ==
  [id : Ids, timer : 0..IP_REASS_MAXAGE, lastfrag : BOOLEAN, len : Nat, p : Seq(Piece)]

\* The fragments of a datagram are in order, and the last one is marked.
Held(d) ==
  /\ InOrder(d.p, Size[d.id])
  /\ d.lastfrag <=> Ends(d.p, Size[d.id])
  /\ d.lastfrag => d.len = Size[d.id]

\* A datagram of which something is missing.
Unfinished(d) == d.p # <<>> /\ ~(d.lastfrag /\ Contiguous(d.p))

Listed(l) ==
  /\ l \in Seq(Datagram)
  /\ \A k \in 1..Len(l) : Held(l[k])
  /\ \A j, k \in 1..Len(l) : l[j].id = l[k].id => j = k

Clens(l) == [k \in 1..Len(l) |-> Clen(l[k].p)]

\* The fields of the datagrams of a list.
LEMMA DatagramTypes ==
  ASSUME NEW l \in Seq(Datagram)
  PROVE  /\ Len(l) \in Nat
         /\ \A k \in 1..Len(l) :
              /\ l[k] \in Datagram /\ l[k].id \in Ids /\ Size[l[k].id] \in Nat
              /\ l[k].timer \in 0..IP_REASS_MAXAGE /\ l[k].timer \in Nat
<1>1. Len(l) \in Nat /\ \A k \in 1..Len(l) : l[k] \in Datagram
  BY LenProperties, ElementOfSeq
<1>2. \A k \in 1..Len(l) : l[k].id \in Ids /\ l[k].timer \in 0..IP_REASS_MAXAGE
  BY <1>1 DEF Datagram
<1> QED  BY <1>1, <1>2, ReassAssumption

\* The pbufs of each datagram of a list.
LEMMA ClensIs ==
  ASSUME NEW l, Listed(l)
  PROVE  /\ Clens(l) \in Seq(Nat) /\ Len(Clens(l)) = Len(l) /\ Total(l) = Sum(Clens(l))
         /\ \A k \in 1..Len(l) :
              /\ Clens(l)[k] = Clen(l[k].p) /\ Clen(l[k].p) \in Nat
              /\ l[k].p # <<>> => Clen(l[k].p) > 0
<1>1. /\ Len(l) \in Nat /\ \A k \in 1..Len(l) : Size[l[k].id] \in Nat
      /\ \A k \in 1..Len(l) : InOrder(l[k].p, Size[l[k].id])
  BY DatagramTypes DEF Listed, Held
<1>2. \A k \in 1..Len(l) : Clen(l[k].p) \in Nat /\ (l[k].p # <<>> => Clen(l[k].p) > 0)
  BY <1>1, ClenPositive
<1>3. Clens(l) \in [1..Len(l) -> Nat]
  BY <1>2 DEF Clens
<1>4. Clens(l) \in Seq(Nat) /\ Len(Clens(l)) = Len(l)
  BY <1>1, <1>3, MakeSeq
<1>5. Total(l) = Sum(Clens(l)) /\ \A k \in 1..Len(l) : Clens(l)[k] = Clen(l[k].p)
  BY DEF Total, Clens
<1> QED  BY <1>2, <1>4, <1>5

\* A list of datagrams stays one when a datagram goes, with its pbufs.
LEMMA ListRemoved ==
  ASSUME NEW l, Listed(l), NEW k \in 1..Len(l)
  PROVE  LET r == Removed(l, k)
         IN /\ Listed(r) /\ IsRemoved(r, l, k)
            /\ Total(r) = Total(l) - Clen(l[k].p) /\ Total(r) \in Nat
<1> DEFINE r == Removed(l, k)
<1>1. l \in Seq(Datagram) /\ Len(l) \in Nat
  BY LenProperties DEF Listed
<1>2. r \in Seq(Datagram) /\ IsRemoved(r, l, k)
  BY <1>1, RemovedIs
<1> HIDE DEF r
<1>3. Len(r) = Len(l) - 1 /\ \A i \in 1..Len(r) : r[i] = IF i < k THEN l[i] ELSE l[i + 1]
  BY <1>2 DEF IsRemoved
<1> DEFINE From(i) == IF i < k THEN i ELSE i + 1
<1>4. ASSUME NEW i \in 1..Len(r) PROVE From(i) \in 1..Len(l) /\ r[i] = l[From(i)]
  BY <1>1, <1>3
<1>5. ASSUME NEW i \in 1..Len(r), NEW j \in 1..Len(r), From(i) = From(j) PROVE i = j
  BY <1>1, <1>3, <1>5
<1> HIDE DEF From
<1>6. Listed(r)
  <2>1. ASSUME NEW i \in 1..Len(r) PROVE Held(r[i])
    BY <1>4 DEF Listed
  <2>2. ASSUME NEW i \in 1..Len(r), NEW j \in 1..Len(r), r[i].id = r[j].id PROVE i = j
    <3>1. From(i) = From(j)
      BY <1>4, <2>2 DEF Listed
    <3> QED  BY <1>5, <3>1
  <2> QED  BY <1>2, <2>1, <2>2 DEF Listed
<1>7. Total(r) = Total(l) - Clen(l[k].p) /\ Total(r) \in Nat
  <2> DEFINE a == Removed(Clens(l), k)
  <2>1. /\ Clens(l) \in Seq(Nat) /\ Len(Clens(l)) = Len(l) /\ Total(l) = Sum(Clens(l))
        /\ \A i \in 1..Len(l) : Clens(l)[i] = Clen(l[i].p)
    BY ClensIs
  <2>2. /\ Clens(r) \in Seq(Nat) /\ Len(Clens(r)) = Len(r) /\ Total(r) = Sum(Clens(r))
        /\ \A i \in 1..Len(r) : Clens(r)[i] = Clen(r[i].p)
    BY <1>6, ClensIs
  <2>3. k \in 1..Len(Clens(l))
    BY <2>1
  <2>4. /\ Sum(Clens(l)) \in Nat /\ Sum(a) \in Nat /\ Clens(l)[k] \in Nat
        /\ Sum(Clens(l)) = Sum(a) + Clens(l)[k]
    BY <2>1, <2>3, SumRemoved
  <2>5. a \in Seq(Nat) /\ IsRemoved(a, Clens(l), k)
    BY <2>1, <2>3, RemovedIs
  <2> HIDE DEF a
  <2>6. /\ Len(a) = Len(r)
        /\ \A i \in 1..Len(a) : a[i] = IF i < k THEN Clens(l)[i] ELSE Clens(l)[i + 1]
    BY <1>3, <2>1, <2>5 DEF IsRemoved
  <2>7. ASSUME NEW i \in 1..Len(r) PROVE Clens(r)[i] = a[i]
    <3>1. From(i) \in 1..Len(l) /\ r[i] = l[From(i)]
      BY <1>4
    <3>2. a[i] = Clens(l)[From(i)]
      BY <2>6 DEF From
    <3> QED  BY <2>1, <2>2, <3>1, <3>2
  <2>8. Clens(r) = a
    BY <2>2, <2>5, <2>6, <2>7, SeqEqual
  <2> QED  BY <2>1, <2>2, <2>4, <2>8
<1> QED  BY <1>2, <1>6, <1>7 DEF r

\* A list of datagrams stays one when a datagram enters it that it does not have.
LEMMA ListInserted ==
  ASSUME NEW l, Listed(l), NEW d \in Datagram, Held(d), \A i \in 1..Len(l) : l[i].id # d.id,
         NEW k \in 1..(Len(l) + 1)
  PROVE  LET r == Inserted(l, k, d)
         IN Listed(r) /\ IsInserted(r, l, k, d) /\ Total(r) = Total(l) + Clen(d.p)
<1> DEFINE r == Inserted(l, k, d)
<1>1. l \in Seq(Datagram) /\ Len(l) \in Nat
  BY LenProperties DEF Listed
<1>2. r \in Seq(Datagram) /\ IsInserted(r, l, k, d)
  BY <1>1, InsertedIs
<1> HIDE DEF r
<1> DEFINE From(i) == IF i < k THEN i ELSE i - 1
<1>3. Len(r) = Len(l) + 1 /\ k \in 1..Len(r) /\ r[k] = d
  BY <1>1, <1>2 DEF IsInserted
<1>4. ASSUME NEW i \in 1..Len(r), i # k PROVE From(i) \in 1..Len(l) /\ r[i] = l[From(i)]
  BY <1>1, <1>2, <1>3, <1>4 DEF IsInserted
<1>5. ASSUME NEW i \in 1..Len(r), NEW j \in 1..Len(r), i # k, j # k, From(i) = From(j)
      PROVE  i = j
  BY <1>1, <1>3, <1>5
<1> HIDE DEF From
<1>6. Listed(r)
  <2>1. ASSUME NEW i \in 1..Len(r) PROVE Held(r[i])
    BY <1>3, <1>4 DEF Listed
  <2>2. ASSUME NEW i \in 1..Len(r), NEW j \in 1..Len(r), r[i].id = r[j].id PROVE i = j
    <3>1. CASE i = k /\ j = k
      BY <3>1
    <3>2. CASE i = k /\ j # k
      BY <1>3, <1>4, <2>2, <3>2
    <3>3. CASE i # k /\ j = k
      BY <1>3, <1>4, <2>2, <3>3
    <3>4. CASE i # k /\ j # k
      <4>1. From(i) = From(j)
        BY <1>4, <2>2, <3>4 DEF Listed
      <4> QED  BY <1>5, <3>4, <4>1
    <3> QED  BY <3>1, <3>2, <3>3, <3>4
  <2> QED  BY <1>2, <2>1, <2>2 DEF Listed
<1>7. Total(r) = Total(l) + Clen(d.p)
  <2> DEFINE x == Clen(d.p)
             a == Inserted(Clens(l), k, x)
  <2>1. /\ Clens(l) \in Seq(Nat) /\ Len(Clens(l)) = Len(l) /\ Total(l) = Sum(Clens(l))
        /\ \A i \in 1..Len(l) : Clens(l)[i] = Clen(l[i].p)
    BY ClensIs
  <2>2. /\ Clens(r) \in Seq(Nat) /\ Len(Clens(r)) = Len(r) /\ Total(r) = Sum(Clens(r))
        /\ \A i \in 1..Len(r) : Clens(r)[i] = Clen(r[i].p)
    BY <1>6, ClensIs
  <2>3. x \in Nat
    BY <1>3, <1>6, ClensIs
  <2>4. k \in 1..(Len(Clens(l)) + 1)
    BY <2>1
  <2> HIDE DEF x
  <2>5. Sum(a) = Sum(Clens(l)) + x
    BY <2>1, <2>3, <2>4, SumInserted
  <2>6. a \in Seq(Nat) /\ IsInserted(a, Clens(l), k, x)
    BY <2>1, <2>3, <2>4, InsertedIs
  <2> HIDE DEF a
  <2>7. Len(a) = Len(r)
    BY <1>3, <2>1, <2>6 DEF IsInserted
  <2>8. ASSUME NEW i \in 1..Len(r) PROVE Clens(r)[i] = a[i]
    <3>1. CASE i = k
      <4>1. a[k] = x
        BY <1>1, <1>3, <2>6, <2>7 DEF IsInserted
      <4> QED  BY <1>3, <2>2, <3>1, <4>1 DEF x
    <3>2. CASE i # k
      <4>1. a[i] = Clens(l)[From(i)]
        BY <2>6, <2>7, <3>2 DEF IsInserted, From
      <4>2. From(i) \in 1..Len(l) /\ r[i] = l[From(i)]
        BY <1>4, <3>2
      <4> QED  BY <2>1, <2>2, <4>1, <4>2
    <3> QED  BY <3>1, <3>2
  <2>9. Clens(r) = a
    BY <2>2, <2>6, <2>7, <2>8, SeqEqual
  <2> QED  BY <2>1, <2>2, <2>5, <2>9 DEF x
<1> QED  BY <1>2, <1>6, <1>7 DEF r

\* A list of datagrams stays one when a datagram of it changes.
LEMMA ListChanged ==
  ASSUME NEW l, Listed(l), NEW k \in 1..Len(l), NEW d \in Datagram, Held(d), d.id = l[k].id
  PROVE  LET r == [l EXCEPT ![k] = d]
         IN /\ Listed(r) /\ Total(r) = (Total(l) - Clen(l[k].p)) + Clen(d.p)
            /\ Len(r) = Len(l) /\ r[k] = d /\ \A i \in 1..Len(l) : i # k => r[i] = l[i]
<1> DEFINE r == [l EXCEPT ![k] = d]
<1>1. l \in Seq(Datagram) /\ Len(l) \in Nat
  BY LenProperties DEF Listed
<1>2. r \in Seq(Datagram) /\ Len(r) = Len(l)
  BY <1>1, ExceptSeq
<1>3. r[k] = d /\ \A i \in 1..Len(l) : i # k => r[i] = l[i]
  BY <1>1, ExceptSeq
<1> HIDE DEF r
<1>4. Listed(r)
  <2>1. ASSUME NEW i \in 1..Len(r) PROVE Held(r[i]) /\ r[i].id = l[i].id
    BY <1>2, <1>3 DEF Listed
  <2>2. ASSUME NEW i \in 1..Len(r), NEW j \in 1..Len(r), r[i].id = r[j].id PROVE i = j
    BY <1>2, <2>1, <2>2 DEF Listed
  <2> QED  BY <1>2, <2>1, <2>2 DEF Listed
<1>5. Total(r) = (Total(l) - Clen(l[k].p)) + Clen(d.p)
  <2>1. /\ Clens(l) \in Seq(Nat) /\ Len(Clens(l)) = Len(l) /\ Total(l) = Sum(Clens(l))
        /\ \A i \in 1..Len(l) : Clens(l)[i] = Clen(l[i].p)
    BY ClensIs
  <2>2. /\ Clens(r) \in Seq(Nat) /\ Len(Clens(r)) = Len(r) /\ Total(r) = Sum(Clens(r))
        /\ \A i \in 1..Len(r) : Clens(r)[i] = Clen(r[i].p)
    BY <1>4, ClensIs
  <2>3. \A i \in 1..Len(Clens(l)) : i # k => Clens(l)[i] = Clens(r)[i]
    BY <1>2, <1>3, <2>1, <2>2
  <2>4. Len(Clens(l)) = Len(Clens(r)) /\ k \in 1..Len(Clens(l))
    BY <1>2, <2>1, <2>2
  <2>5. Sum(Clens(r)) = (Sum(Clens(l)) - Clens(l)[k]) + Clens(r)[k]
    BY <2>1, <2>2, <2>3, <2>4, SumChanged
  <2>6. Clens(l)[k] = Clen(l[k].p) /\ Clens(r)[k] = Clen(d.p)
    BY <1>2, <1>3, <2>1, <2>2
  <2> QED  BY <2>1, <2>2, <2>5, <2>6
<1> QED  BY <1>2, <1>3, <1>4, <1>5 DEF r

-----------------------------------------------------------------------------
(* Making room *)

Queues ==
  [list : Seq(Datagram), count : Nat, freed : Nat,
   returned : [id : Ids \cup {0}, p : Seq(Piece), len : Nat]]

\* The list and the number of its pbufs, as they are between two calls.
Good(m) ==
  /\ m \in Queues /\ Listed(m.list)
  /\ \A k \in 1..Len(m.list) : Unfinished(m.list[k])
  /\ m.count = Total(m.list)

\* The fields of the queues.
LEMMA GoodFields ==
  ASSUME NEW m, Good(m)
  PROVE  /\ m.list \in Seq(Datagram) /\ Len(m.list) \in Nat /\ m.count \in Nat /\ m.freed \in Nat
         /\ m.returned \in [id : Ids \cup {0}, p : Seq(Piece), len : Nat]
<1>1. m.list \in Seq(Datagram) /\ m.count \in Nat /\ m.freed \in Nat
  BY DEF Good, Queues
<1>2. m.returned \in [id : Ids \cup {0}, p : Seq(Piece), len : Nat]
  BY DEF Good, Queues
<1> QED  BY <1>1, <1>2, LenProperties

\* ip_reass_free_complete_datagram takes one datagram and its pbufs away.
LEMMA FreeIs ==
  ASSUME NEW m, Good(m), NEW k \in 1..Len(m.list)
  PROVE  LET r == Free(m, k)
         IN /\ Good(r) /\ IsRemoved(r.list, m.list, k) /\ r.returned = m.returned
            /\ r.count <= m.count /\ r.freed > m.freed
<1> DEFINE r == Free(m, k)
           x == Clen(m.list[k].p)
<1>1. /\ m.list \in Seq(Datagram) /\ Len(m.list) \in Nat /\ m.count \in Nat /\ m.freed \in Nat
      /\ m.returned \in [id : Ids \cup {0}, p : Seq(Piece), len : Nat]
  BY GoodFields
<1>2. m \in Queues /\ Listed(m.list) /\ m.count = Total(m.list)
  BY DEF Good
<1>3. x \in Nat /\ x > 0
  <2>1. m.list[k].p # <<>>
    BY DEF Good, Unfinished
  <2> QED  BY <1>2, <2>1, ClensIs
<1>4. /\ Listed(Removed(m.list, k)) /\ IsRemoved(Removed(m.list, k), m.list, k)
      /\ Total(Removed(m.list, k)) = Total(m.list) - x /\ Total(Removed(m.list, k)) \in Nat
  BY <1>2, ListRemoved
<1> HIDE DEF x
<1> DEFINE l == Removed(m.list, k)
<1>5. r = [m EXCEPT !.list = l, !.freed = @ + x, !.count = @ - x]
  BY DEF Free, x
<1>6. l \in Seq(Datagram)
  BY <1>4 DEF Listed
<1> HIDE DEF l, r
<1>7. /\ r.list = l /\ r.freed = m.freed + x /\ r.count = m.count - x
      /\ r.returned = m.returned
  BY <1>2, <1>5 DEF Queues
<1>8. r.count = Total(l) /\ r.count \in Nat /\ r.count <= m.count /\ r.freed \in Nat
      /\ r.freed > m.freed
  BY <1>1, <1>2, <1>3, <1>4, <1>7 DEF l
<1>9. r \in Queues
  <2>1. m.freed + x \in Nat /\ m.count - x \in Nat
    BY <1>7, <1>8
  <2> QED  BY <1>2, <1>5, <1>6, <2>1 DEF Queues
<1>10. ASSUME NEW i \in 1..Len(l) PROVE Unfinished(l[i])
  <2>1. Len(l) = Len(m.list) - 1 /\ l[i] = IF i < k THEN m.list[i] ELSE m.list[i + 1]
    BY <1>4 DEF l, IsRemoved
  <2>2. i \in 1..Len(m.list) /\ i + 1 \in 1..Len(m.list)
    BY <1>1, <2>1
  <2> QED  BY <2>1, <2>2 DEF Good
<1>11. Good(r)
  BY <1>4, <1>7, <1>8, <1>9, <1>10 DEF Good, l
<1> QED  BY <1>4, <1>7, <1>8, <1>11 DEF r, l

\* There is an oldest datagram among the others, if there are others.
LEMMA OldestIs ==
  ASSUME NEW m, Good(m), NEW S, S \subseteq 1..Len(m.list), S # {}
  PROVE  Oldest(m, S) \in S
<1> DEFINE l == m.list
<1>1. Len(l) \in Nat /\ \A k \in 1..Len(l) : l[k].timer \in Nat
  BY DatagramTypes, GoodFields
<1> HIDE DEF l
<1>2. S \subseteq 1..Len(l)
  BY DEF l
<1> DEFINE T == {l[k].timer : k \in S}
<1>3. T \subseteq Nat /\ T # {}
  BY <1>1, <1>2
<1>4. PICK t \in T : \A u \in T : t <= u
  <2> HIDE DEF T
  <2> QED  BY <1>3, LeastOf
<1>5. PICK a \in S : l[a].timer = t
  OBVIOUS
<1> DEFINE B == {b \in Nat : Len(l) - b \in S /\ l[Len(l) - b].timer = t}
<1>6. B \subseteq Nat /\ B # {}
  <2>1. Len(l) - a \in Nat /\ Len(l) - (Len(l) - a) = a
    BY <1>1, <1>2
  <2>2. Len(l) - a \in B
    BY <1>5, <2>1
  <2> QED  BY <2>2
<1>7. PICK b \in B : \A c \in B : b <= c
  <2> HIDE DEF B
  <2> QED  BY <1>6, LeastOf
<1> DEFINE k == Len(l) - b
<1>8. k \in S /\ l[k].timer = t /\ b \in Nat
  OBVIOUS
<1>9. ASSUME NEW j \in S
      PROVE  l[k].timer < l[j].timer \/ (l[k].timer = l[j].timer /\ k >= j)
  <2>1. t <= l[j].timer /\ l[j].timer \in Nat /\ t \in Nat
    BY <1>1, <1>2, <1>3, <1>4
  <2>2. CASE l[j].timer # t
    BY <1>8, <2>1, <2>2
  <2>3. CASE l[j].timer = t
    <3>1. j \in Nat /\ Len(l) - j \in Nat /\ Len(l) - (Len(l) - j) = j
      BY <1>1, <1>2
    <3>2. Len(l) - j \in B
      BY <2>3, <3>1
    <3>3. b <= Len(l) - j
      BY <1>7, <3>2
    <3>4. k >= j
      BY <1>1, <1>8, <3>1, <3>3
    <3> QED  BY <1>8, <2>3, <3>4
  <2> QED  BY <2>2, <2>3
<1>10. \E i \in S : \A j \in S : l[i].timer < l[j].timer \/ (l[i].timer = l[j].timer /\ i >= j)
  BY <1>8, <1>9
<1> QED  BY <1>10 DEF Oldest, l

\* r is what is left of m after some datagrams other than id were freed.
Thinned(r, m, id) ==
  /\ Good(r) /\ r.returned = m.returned /\ r.count <= m.count
  /\ Len(r.list) <= Len(m.list) /\ (r.freed > 0 => Len(r.list) < Len(m.list))
  /\ \A j \in 1..Len(r.list) : \E k \in 1..Len(m.list) : r.list[j] = m.list[k]
  /\ \A k \in 1..Len(m.list) :
       m.list[k].id = id => \E j \in 1..Len(r.list) : r.list[j] = m.list[k]

\* Freeing another datagram.
LEMMA FreeThins ==
  ASSUME NEW m, Good(m), NEW n, NEW id, Thinned(n, m, id), NEW o \in Others(n, id)
  PROVE  Thinned(Free(n, o), m, id)
<1> DEFINE r == Free(n, o)
<1>1. o \in 1..Len(n.list) /\ n.list[o].id # id
  BY DEF Others
<1>2. Good(n)
  BY DEF Thinned
<1>3. /\ Good(r) /\ IsRemoved(r.list, n.list, o) /\ r.returned = n.returned
      /\ r.count <= n.count /\ r.freed > n.freed
  BY <1>1, <1>2, FreeIs
<1> HIDE DEF r
<1>4. /\ Len(m.list) \in Nat /\ Len(n.list) \in Nat /\ Len(r.list) \in Nat
      /\ m.count \in Nat /\ n.count \in Nat /\ r.count \in Nat
  BY <1>2, <1>3, GoodFields
<1>5. /\ Len(r.list) = Len(n.list) - 1
      /\ \A i \in 1..Len(r.list) : r.list[i] = IF i < o THEN n.list[i] ELSE n.list[i + 1]
  BY <1>3 DEF IsRemoved
<1>6. r.returned = m.returned /\ r.count <= m.count /\ Len(r.list) < Len(m.list)
  BY <1>3, <1>4, <1>5 DEF Thinned
<1>7. ASSUME NEW j \in 1..Len(r.list)
      PROVE  \E k \in 1..Len(m.list) : r.list[j] = m.list[k]
  <2>1. j \in 1..Len(n.list) /\ j + 1 \in 1..Len(n.list)
    BY <1>4, <1>5
  <2>2. \E i \in 1..Len(n.list) : r.list[j] = n.list[i]
    BY <1>5, <2>1
  <2> QED  BY <2>2 DEF Thinned
<1>8. ASSUME NEW k \in 1..Len(m.list), m.list[k].id = id
      PROVE  \E j \in 1..Len(r.list) : r.list[j] = m.list[k]
  <2>1. PICK i \in 1..Len(n.list) : n.list[i] = m.list[k]
    BY <1>8 DEF Thinned
  <2>2. i # o
    BY <1>1, <1>8, <2>1
  <2>3. CASE i < o
    <3>1. i \in 1..Len(r.list)
      BY <1>1, <1>4, <1>5, <2>3
    <3> QED  BY <1>5, <2>1, <2>3, <3>1
  <2>4. CASE i > o
    <3>1. i - 1 \in 1..Len(r.list) /\ ~(i - 1 < o) /\ (i - 1) + 1 = i
      BY <1>1, <1>4, <1>5, <2>4
    <3>2. r.list[i - 1] = n.list[(i - 1) + 1]
      BY <1>5, <3>1
    <3> QED  BY <2>1, <3>1, <3>2
  <2> QED  BY <1>1, <1>4, <2>2, <2>3, <2>4
<1>9. Len(r.list) <= Len(m.list)
  BY <1>4, <1>6
<1>10. Thinned(r, m, id)
  BY <1>3, <1>6, <1>7, <1>8, <1>9 DEF Thinned
<1> QED  BY <1>10 DEF r

Unfreed(m) == [m EXCEPT !.freed = 0]

\* The round i of ip_reass_remove_oldest_datagram.
Round(n, id, needed, i) ==
  IF Others(n, id) = {} \/ (i > 1 /\ n.freed >= needed) THEN n
  ELSE Free(n, Oldest(n, Others(n, id)))

Rounds(f, m, id, needed, k) ==
  f = [n \in 0..k |-> IF n = 0 THEN Unfreed(m) ELSE Round(f[n - 1], id, needed, n)]

\* The recursion of RemoveOldest has a solution of every length.
LEMMA RoundsExist ==
  ASSUME NEW m, NEW id, NEW needed, NEW k \in Nat
  PROVE  \E f : Rounds(f, m, id, needed, k)
<1> SUFFICES ASSUME ~\E f : Rounds(f, m, id, needed, k) PROVE FALSE
  OBVIOUS
<1> DEFINE Bad == {n \in Nat : ~\E f : Rounds(f, m, id, needed, n)}
<1>1. Bad \subseteq Nat /\ Bad # {}
  OBVIOUS
<1>2. PICK b \in Bad : \A y \in Bad : b <= y
  <2> HIDE DEF Bad
  <2> QED  BY <1>1, LeastOf
<1>3. b \in Nat /\ ~\E f : Rounds(f, m, id, needed, b)
  OBVIOUS
<1>4. CASE b = 0
  <2> DEFINE f == [n \in 0..0 |-> Unfreed(m)]
  <2>1. f = [n \in 0..0 |-> IF n = 0 THEN Unfreed(m) ELSE Round(f[n - 1], id, needed, n)]
    OBVIOUS
  <2>2. Rounds(f, m, id, needed, 0)
    BY <2>1 DEF Rounds
  <2> QED  BY <1>3, <1>4, <2>2
<1>5. CASE b # 0
  <2>1. b - 1 \in Nat /\ b - 1 \notin Bad
    BY <1>2, <1>3, <1>5
  <2>2. PICK f : Rounds(f, m, id, needed, b - 1)
    BY <2>1
  <2> DEFINE g == [n \in 0..b |-> IF n = b THEN Round(f[b - 1], id, needed, b) ELSE f[n]]
  <2>3. \A n \in 0..(b - 1) : f[n] = IF n = 0 THEN Unfreed(m) ELSE Round(f[n - 1], id, needed, n)
    BY <2>2 DEF Rounds
  <2>4. ASSUME NEW n \in 0..b
        PROVE  g[n] = IF n = 0 THEN Unfreed(m) ELSE Round(g[n - 1], id, needed, n)
    <3>1. CASE n = b
      <4>1. b - 1 \in 0..b /\ b - 1 # b
        BY <1>3, <1>5
      <4>2. g[b - 1] = f[b - 1]
        BY <4>1
      <4>3. g[b] = Round(f[b - 1], id, needed, b)
        BY <1>3
      <4> QED  BY <1>5, <3>1, <4>2, <4>3
    <3>2. CASE n # b
      <4>1. n \in 0..(b - 1) /\ g[n] = f[n]
        BY <1>3, <3>2
      <4>2. CASE n = 0
        BY <2>3, <4>1, <4>2
      <4>3. CASE n # 0
        <5>1. n - 1 \in 0..b /\ n - 1 # b
          BY <1>3, <4>1, <4>3
        <5>2. g[n - 1] = f[n - 1]
          BY <5>1
        <5> QED  BY <2>3, <4>1, <4>3, <5>2
      <4> QED  BY <4>2, <4>3
    <3> QED  BY <3>1, <3>2
  <2>5. g = [n \in 0..b |-> g[n]]
    OBVIOUS
  <2> HIDE DEF g
  <2>6. g = [n \in 0..b |-> IF n = 0 THEN Unfreed(m) ELSE Round(g[n - 1], id, needed, n)]
    BY <2>4, <2>5
  <2>7. Rounds(g, m, id, needed, b)
    BY <2>6 DEF Rounds
  <2> QED  BY <1>3, <2>7
<1> QED  BY <1>4, <1>5

\* ip_reass_remove_oldest_datagram frees whole datagrams, and never the fragment's own.
LEMMA RemoveOldestThins ==
  ASSUME NEW m, Good(m), NEW id, NEW needed
  PROVE  Thinned(RemoveOldest(m, id, needed), m, id)
<1> DEFINE M == MEMP_NUM_REASSDATA
           f == CHOOSE g : g = [i \in 0..M |-> IF i = 0 THEN Unfreed(m)
                                               ELSE Round(g[i - 1], id, needed, i)]
<1>1. M \in Nat
  BY ReassAssumption
<1>2. Rounds(f, m, id, needed, M)
  <2>1. \E g : Rounds(g, m, id, needed, M)
    BY <1>1, RoundsExist
  <2>2. \E g : g = [i \in 0..M |-> IF i = 0 THEN Unfreed(m) ELSE Round(g[i - 1], id, needed, i)]
    BY <2>1 DEF Rounds
  <2> QED  BY <2>2 DEF Rounds
<1>3. RemoveOldest(m, id, needed) = f[M]
  BY DEF RemoveOldest, Round, Unfreed
<1> HIDE DEF f, M
<1>4. \A i \in 0..M : f[i] = IF i = 0 THEN Unfreed(m) ELSE Round(f[i - 1], id, needed, i)
  BY <1>2 DEF Rounds
<1>5. Thinned(Unfreed(m), m, id)
  <2> DEFINE r == Unfreed(m)
  <2>1. m \in Queues
    BY DEF Good
  <2>2. /\ r \in Queues /\ r.list = m.list /\ r.count = m.count /\ r.freed = 0
        /\ r.returned = m.returned
    BY <2>1 DEF Queues, Unfreed
  <2>3. m.count \in Nat /\ Len(m.list) \in Nat
    BY GoodFields
  <2> HIDE DEF r
  <2>4. Good(r)
    BY <2>2 DEF Good
  <2>5. Thinned(r, m, id)
    BY <2>2, <2>3, <2>4 DEF Thinned
  <2> QED  BY <2>5 DEF r
<1>6. ASSUME NEW n, Thinned(n, m, id), NEW i PROVE Thinned(Round(n, id, needed, i), m, id)
  <2>1. CASE Others(n, id) = {} \/ (i > 1 /\ n.freed >= needed)
    BY <1>6, <2>1 DEF Round
  <2>2. CASE ~(Others(n, id) = {} \/ (i > 1 /\ n.freed >= needed))
    <3> DEFINE o == Oldest(n, Others(n, id))
    <3>1. Good(n) /\ Others(n, id) \subseteq 1..Len(n.list) /\ Others(n, id) # {}
      BY <1>6, <2>2 DEF Thinned, Others
    <3>2. o \in Others(n, id)
      BY <3>1, OldestIs
    <3>3. Round(n, id, needed, i) = Free(n, o)
      BY <2>2 DEF Round
    <3> HIDE DEF o
    <3> QED  BY <1>6, <3>2, <3>3, FreeThins
  <2> QED  BY <2>1, <2>2
<1> DEFINE Bad == {i \in 0..M : ~Thinned(f[i], m, id)}
<1>7. Bad = {}
  <2> SUFFICES ASSUME Bad # {} PROVE FALSE
    OBVIOUS
  <2>1. Bad \subseteq Nat
    OBVIOUS
  <2>2. PICK b \in Bad : \A y \in Bad : b <= y
    <3> HIDE DEF Bad
    <3> QED  BY <2>1, LeastOf
  <2>3. b \in 0..M /\ ~Thinned(f[b], m, id)
    OBVIOUS
  <2>4. b # 0
    BY <1>4, <1>5, <2>3
  <2>5. b - 1 \in 0..M /\ b - 1 \notin Bad
    BY <1>1, <2>2, <2>3, <2>4
  <2>6. Thinned(f[b - 1], m, id)
    BY <2>5
  <2>7. f[b] = Round(f[b - 1], id, needed, b)
    BY <1>4, <2>3, <2>4
  <2> QED  BY <1>6, <2>3, <2>6, <2>7
<1>8. Thinned(f[M], m, id)
  <2>1. M \in 0..M
    BY <1>1
  <2> QED  BY <1>7, <2>1
<1> QED  BY <1>3, <1>8

-----------------------------------------------------------------------------
(* A fragment enters its datagram *)

IsFragment(f) ==
  f.id \in Ids /\ f.start \in Nat /\ f.end \in Nat /\ f.start < f.end /\ f.end <= Size[f.id]

Kept(r, d) == Keeps(r.returned, d) \/ \E j \in 1..Len(r.list) : Keeps(r.list[j], d)

Complete(d) ==
  d # NoDatagram => d.id \in Ids /\ Spells(d.p, Size[d.id]) /\ d.len = Size[d.id]

\* The datagram at k, which may be a new one, can take the fragment f.
Ready(m, k, f) ==
  /\ m \in Queues /\ Listed(m.list) /\ m.count = Total(m.list)
  /\ k \in 1..Len(m.list) /\ m.list[k].id = f.id
  /\ \A j \in 1..Len(m.list) : j # k \/ m.list[j].p # <<>> => Unfinished(m.list[j])
  /\ Complete(m.returned)

\* r follows from m by the fragment f, of the datagram d.
Follows(r, m, f, d) ==
  /\ Good(r) /\ Complete(r.returned) /\ Kept(r, d)
  /\ r.count <= m.count + (f.end - f.start) /\ Len(r.list) <= Len(m.list)

Grown(d, p, len, last) == [d EXCEPT !.p = p, !.len = len, !.lastfrag = d.lastfrag \/ last]

\* The fields of a datagram with a fragment more.
LEMMA GrownIs ==
  ASSUME NEW d \in Datagram, NEW p \in Seq(Piece), NEW len \in Nat, NEW last \in BOOLEAN
  PROVE  LET e == Grown(d, p, len, last)
         IN /\ e \in Datagram /\ e.id = d.id /\ e.p = p /\ e.len = len
            /\ e.lastfrag <=> d.lastfrag \/ last
<1> DEFINE x == d.lastfrag \/ last
           e == [d EXCEPT !.p = p, !.len = len, !.lastfrag = x]
<1>1. x \in BOOLEAN
  BY DEF Datagram
<1>2. e = Grown(d, p, len, last)
  BY DEF Grown
<1>3. PICK y \in BOOLEAN : y = x
  BY <1>1
<1>4. e = [d EXCEPT !.p = p, !.len = len, !.lastfrag = y]
  BY <1>3
<1> HIDE DEF e
<1>5. e \in Datagram /\ e.id = d.id /\ e.p = p /\ e.len = len
  BY <1>4 DEF Datagram
<1>6. e.lastfrag = y
  BY <1>4 DEF Datagram
<1>7. e.lastfrag = x
  BY <1>3, <1>6
<1> QED  BY <1>2, <1>5, <1>7

\* A fragment goes to its place, or is dropped, or makes its datagram whole.
LEMMA EnterFollows ==
  ASSUME NEW m, NEW k, NEW f, IsFragment(f), Ready(m, k, f)
  PROVE  Follows(Enter(m, k, f), m, f, m.list[k])
<1> DEFINE d     == m.list[k]
           piece == [start |-> f.start, end |-> f.end]
           last  == f.end = Size[f.id]
           p     == Chain(d.p, piece)
           len   == IF last THEN f.end ELSE d.len
           over  == \E j \in 1..Len(d.p) : Overlap(piece, d.p[j])
           whole == (last \/ d.lastfrag) /\ Contiguous(p)
           n     == Size[f.id]
           r     == Enter(m, k, f)
<1>1. /\ over => r = m
      /\ ~over /\ whole =>
           r = [m EXCEPT !.list = Removed(m.list, k), !.count = @ - Clen(d.p),
                         !.returned = [id |-> f.id, p |-> p, len |-> len]]
      /\ ~over /\ ~whole =>
           r = [m EXCEPT !.count = @ + (f.end - f.start), !.list[k] = Grown(d, p, len, last)]
  BY DEF Enter, Grown
<1>2. /\ m \in Queues /\ Listed(m.list) /\ m.count = Total(m.list)
      /\ k \in 1..Len(m.list) /\ d.id = f.id /\ Complete(m.returned)
      /\ \A j \in 1..Len(m.list) : j # k \/ m.list[j].p # <<>> => Unfinished(m.list[j])
  BY DEF Ready
<1>3. /\ m.list \in Seq(Datagram) /\ Len(m.list) \in Nat /\ m.count \in Nat /\ m.freed \in Nat
      /\ d \in Datagram /\ Held(d) /\ n \in Nat
  BY <1>2, DatagramTypes DEF Queues, Listed
<1>4. /\ f.id \in Ids /\ f.start \in Nat /\ f.end \in Nat /\ f.start < f.end /\ f.end <= n
  BY DEF IsFragment
<1>5. /\ piece \in Piece /\ piece.start = f.start /\ piece.end = f.end
  BY <1>4 DEF Piece
<1>6. InOrder(d.p, n) /\ (d.lastfrag <=> Ends(d.p, n)) /\ (d.lastfrag => d.len = n)
  BY <1>2, <1>3 DEF Held
<1>7. Clen(d.p) \in Nat
  BY <1>3, <1>6, ClenPositive
<1> HIDE DEF piece, r, d, n
<1>8. ~over => InOrder(p, n) /\ HasAlso(p, d.p, piece) /\ Clen(p) = Clen(d.p) + (f.end - f.start)
  <2>1. /\ n \in Nat /\ InOrder(d.p, n) /\ piece \in Piece
        /\ piece.start < piece.end /\ piece.end <= n
        /\ piece.end - piece.start = f.end - f.start
    BY <1>3, <1>4, <1>5, <1>6
  <2> QED  BY <2>1, ChainIs
<1>9. d.len \in Nat
  BY <1>3 DEF Datagram
<1> HIDE DEF p
<1>10. len \in Nat
  BY <1>4, <1>9
<1>11. ~over => (Ends(p, n) <=> Ends(d.p, n) \/ f.end = n) /\ p # <<>> /\ p \in Seq(Piece)
  <2> SUFFICES ASSUME ~over
               PROVE  (Ends(p, n) <=> Ends(d.p, n) \/ f.end = n) /\ p # <<>> /\ p \in Seq(Piece)
    OBVIOUS
  <2>1. HasAlso(p, d.p, piece) /\ p \in Seq(Piece)
    BY <1>8 DEF InOrder
  <2>2. Ends(p, n) <=> Ends(d.p, n) \/ f.end = n
    <3>1. ASSUME Ends(p, n) PROVE Ends(d.p, n) \/ f.end = n
      <4>1. PICK j \in 1..Len(p) : p[j].end = n
        BY <3>1 DEF Ends
      <4>2. p[j] = piece \/ \E i \in 1..Len(d.p) : p[j] = d.p[i]
        BY <2>1 DEF HasAlso
      <4> QED  BY <1>5, <4>1, <4>2 DEF Ends
    <3>2. ASSUME Ends(d.p, n) PROVE Ends(p, n)
      <4>1. PICK i \in 1..Len(d.p) : d.p[i].end = n
        BY <3>2 DEF Ends
      <4>2. PICK j \in 1..Len(p) : p[j] = d.p[i]
        BY <2>1 DEF HasAlso
      <4> QED  BY <4>1, <4>2 DEF Ends
    <3>3. ASSUME f.end = n PROVE Ends(p, n)
      <4>1. PICK j \in 1..Len(p) : p[j] = piece
        BY <2>1 DEF HasAlso
      <4> QED  BY <1>5, <3>3, <4>1 DEF Ends
    <3> QED  BY <3>1, <3>2, <3>3
  <2>3. p # <<>>
    BY <2>1, EmptySeq DEF HasAlso
  <2> QED  BY <2>1, <2>2, <2>3
<1>12. CASE over
  <2>1. r = m
    BY <1>1, <1>12
  <2>2. d.p # <<>>
    BY <1>12
  <2>3. Good(m)
    BY <1>2, <2>2 DEF Good, d
  <2>4. Kept(m, d)
    BY <1>2 DEF Kept, Keeps, d
  <2>5. m.count <= m.count + (f.end - f.start) /\ Len(m.list) <= Len(m.list)
    BY <1>3, <1>4
  <2> QED  BY <1>2, <2>1, <2>3, <2>4, <2>5 DEF Follows, r, d
<1>13. CASE ~over /\ whole
  <2> DEFINE l   == Removed(m.list, k)
             c   == m.count - Clen(d.p)
             out == [id |-> f.id, p |-> p, len |-> len]
  <2>1. r = [m EXCEPT !.list = l, !.count = c, !.returned = out]
    BY <1>1, <1>13
  <2>2. Listed(l) /\ IsRemoved(l, m.list, k) /\ Total(l) = m.count - Clen(d.p) /\ Total(l) \in Nat
    BY <1>2, ListRemoved DEF d
  <2>3. out \in [id : Ids \cup {0}, p : Seq(Piece), len : Nat]
    BY <1>4, <1>10, <1>11, <1>13
  <2>4. out.id = f.id /\ out.p = p /\ out.len = len
    OBVIOUS
  <2>5. l \in Seq(Datagram) /\ c \in Nat /\ c = Total(l)
    BY <2>2 DEF Listed
  <2> HIDE DEF l, c, out
  <2>6. r \in Queues /\ r.list = l /\ r.count = c /\ r.returned = out
    BY <1>2, <2>1, <2>3, <2>5 DEF Queues
  <2>7. ASSUME NEW i \in 1..Len(l) PROVE Unfinished(l[i])
    <3>1. Len(l) = Len(m.list) - 1 /\ l[i] = IF i < k THEN m.list[i] ELSE m.list[i + 1]
      BY <2>2 DEF IsRemoved
    <3>2. PICK j \in 1..Len(m.list) : j # k /\ l[i] = m.list[j]
      <4>1. CASE i < k
        <5>1. i \in 1..Len(m.list) /\ i # k /\ l[i] = m.list[i]
          BY <1>2, <1>3, <3>1, <4>1
        <5> QED  BY <5>1
      <4>2. CASE ~(i < k)
        <5>1. i + 1 \in 1..Len(m.list) /\ i + 1 # k /\ l[i] = m.list[i + 1]
          BY <1>2, <1>3, <3>1, <4>2
        <5> QED  BY <5>1
      <4> QED  BY <4>1, <4>2
    <3> QED  BY <1>2, <3>2
  <2>8. Good(r)
    BY <2>2, <2>5, <2>6, <2>7 DEF Good
  <2>9. Complete(r.returned)
    <3>1. Ends(p, n) /\ Contiguous(p)
      BY <1>6, <1>11, <1>13 DEF n
    <3>2. Spells(p, n)
      BY <1>3, <1>8, <1>11, <1>13, <3>1, SpellsIs
    <3>3. len = n
      BY <1>6, <1>13 DEF n
    <3> QED  BY <1>4, <2>4, <2>6, <3>2, <3>3 DEF Complete, n
  <2>10. Kept(r, d)
    <3>1. \A i \in 1..Len(d.p) : \E j \in 1..Len(p) : p[j] = d.p[i]
      BY <1>8, <1>13 DEF HasAlso
    <3>2. Keeps(out, d)
      BY <1>2, <2>4, <3>1 DEF Keeps
    <3> QED  BY <2>6, <3>2 DEF Kept
  <2>11. r.count <= m.count + (f.end - f.start) /\ Len(r.list) <= Len(m.list)
    BY <1>3, <1>4, <1>7, <2>2, <2>6 DEF IsRemoved, c
  <2> QED  BY <2>8, <2>9, <2>10, <2>11 DEF Follows, r, d
<1>14. CASE ~over /\ ~whole
  <2> DEFINE e == Grown(d, p, len, last)
             l == [m.list EXCEPT ![k] = e]
             c == m.count + (f.end - f.start)
  <2>1. r = [m EXCEPT !.count = c, !.list = l]
    BY <1>1, <1>14
  <2>2. /\ e \in Datagram /\ e.id = d.id /\ e.p = p /\ e.len = len
        /\ e.lastfrag <=> d.lastfrag \/ last
    <3>1. last \in BOOLEAN /\ d \in Datagram /\ p \in Seq(Piece)
      BY <1>3, <1>11, <1>14
    <3> HIDE DEF len, last
    <3> QED  BY <1>10, <3>1, GrownIs
  <2> HIDE DEF e
  <2>3. e.lastfrag <=> Ends(p, n)
    BY <1>6, <1>11, <1>14, <2>2 DEF n
  <2>4. e.lastfrag => len = n
    BY <1>6, <2>2 DEF n
  <2>5. Held(e)
    BY <1>2, <1>8, <1>14, <2>2, <2>3, <2>4 DEF Held, n
  <2>6. Unfinished(e)
    BY <1>11, <1>14, <2>2 DEF Unfinished
  <2>7. /\ Listed(l) /\ Total(l) = (Total(m.list) - Clen(d.p)) + Clen(e.p)
        /\ Len(l) = Len(m.list) /\ l[k] = e
        /\ \A i \in 1..Len(m.list) : i # k => l[i] = m.list[i]
    <3>1. Listed(m.list) /\ k \in 1..Len(m.list) /\ e.id = m.list[k].id
      BY <1>2, <2>2 DEF d
    <3> QED  BY <2>2, <2>5, <3>1, ListChanged DEF d
  <2>8. Total(l) = c /\ c \in Nat /\ l \in Seq(Datagram)
    <3>1. Clen(e.p) = Clen(d.p) + (f.end - f.start)
      BY <1>8, <1>14, <2>2
    <3>2. Total(l) = (m.count - Clen(d.p)) + (Clen(d.p) + (f.end - f.start))
      BY <1>2, <2>7, <3>1
    <3>3. l \in Seq(Datagram)
      BY <2>7 DEF Listed
    <3> DEFINE x == Clen(d.p)
               y == f.end - f.start
               z == m.count
    <3>4. x \in Nat /\ y \in Nat /\ z \in Nat /\ Total(l) = (z - x) + (x + y) /\ c = z + y
      BY <1>3, <1>4, <1>7, <3>2
    <3> HIDE DEF x, y, z, l, c
    <3>5. (z - x) + (x + y) = z + y /\ z + y \in Nat
      BY <3>4
    <3> QED  BY <3>3, <3>4, <3>5
  <2> HIDE DEF l, c
  <2>9. r \in Queues /\ r.list = l /\ r.count = c /\ r.returned = m.returned
    BY <1>2, <2>1, <2>8 DEF Queues
  <2>10. ASSUME NEW i \in 1..Len(l) PROVE Unfinished(l[i])
    BY <1>2, <2>6, <2>7
  <2>11. Good(r)
    BY <2>7, <2>8, <2>9, <2>10 DEF Good
  <2>12. Kept(r, d)
    <3>1. Keeps(l[k], d)
      BY <1>8, <1>14, <2>2, <2>7 DEF Keeps, HasAlso
    <3> QED  BY <1>2, <2>7, <2>9, <3>1 DEF Kept
  <2>13. r.count <= m.count + (f.end - f.start) /\ Len(r.list) <= Len(m.list)
    <3>1. r.count = m.count + (f.end - f.start) /\ Len(r.list) = Len(m.list)
      BY <2>7, <2>9 DEF c
    <3> QED  BY <1>3, <1>4, <3>1
  <2> QED  BY <1>2, <2>9, <2>11, <2>12, <2>13 DEF Follows, r, d
<1> QED  BY <1>12, <1>13, <1>14

-----------------------------------------------------------------------------
(* ip4_reass *)

\* The queues are within the two limits.
Bounded(m) ==
  /\ Good(m) /\ Complete(m.returned)
  /\ m.count <= IP_REASS_MAX_PBUFS /\ Len(m.list) <= MEMP_NUM_REASSDATA

Fresh(id) == [id |-> id, timer |-> IP_REASS_MAXAGE, lastfrag |-> FALSE, len |-> 0, p |-> <<>>]

\* A new datagram holds nothing.
LEMMA FreshIs ==
  ASSUME NEW id \in Ids
  PROVE  LET d == Fresh(id) IN d \in Datagram /\ Held(d) /\ d.id = id /\ d.p = <<>> /\ Clen(d.p) = 0
<1> DEFINE d == Fresh(id)
<1>1. PICK x \in BOOLEAN : x = FALSE
  OBVIOUS
<1>2. d = [id |-> id, timer |-> IP_REASS_MAXAGE, lastfrag |-> x, len |-> 0, p |-> <<>>]
  BY <1>1 DEF Fresh
<1>3. IP_REASS_MAXAGE \in 0..IP_REASS_MAXAGE /\ <<>> \in Seq(Piece) /\ 0 \in Nat
  BY ReassAssumption
<1> HIDE DEF d
<1>4. d \in Datagram
  BY <1>2, <1>3 DEF Datagram
<1>5. d.id = id /\ d.p = <<>> /\ d.lastfrag = x
  BY <1>2
<1>6. ~d.lastfrag
  BY <1>1, <1>5
<1>7. 1..Len(<<>>) = {} /\ Len(<<>>) = 0
  OBVIOUS
<1>8. InOrder(<<>>, Size[id]) /\ ~Ends(<<>>, Size[id])
  BY <1>3, <1>7 DEF InOrder, Ends
<1>9. Held(d)
  BY <1>5, <1>6, <1>8 DEF Held
<1>10. Clen(<<>>) = 0
  <2>1. Size[id] \in Nat
    BY ReassAssumption
  <2>2. Lens(<<>>) \in Seq(Nat) /\ Len(Lens(<<>>)) = 0 /\ Clen(<<>>) = Sum(Lens(<<>>))
    BY <1>7, <1>8, <2>1, LensIs
  <2>3. PICK c : SumsOf(c, Lens(<<>>))
    BY <2>2, SumIs
  <2> QED  BY <2>2, <2>3 DEF SumsOf
<1> QED  BY <1>4, <1>5, <1>9, <1>10 DEF d

WithFresh(n, id) == [n EXCEPT !.list = Inserted(n.list, 1, Fresh(id))]

\* A fragment of a datagram that is not in the list.
LEMMA NewFollows ==
  ASSUME NEW n, Good(n), Complete(n.returned), NEW f, IsFragment(f),
         \A k \in 1..Len(n.list) : n.list[k].id # f.id
  PROVE  LET r == Enter(WithFresh(n, f.id), 1, f)
         IN /\ Good(r) /\ Complete(r.returned)
            /\ r.count <= n.count + (f.end - f.start) /\ Len(r.list) <= Len(n.list) + 1
<1> DEFINE d == Fresh(f.id)
           l == Inserted(n.list, 1, d)
           m == WithFresh(n, f.id)
<1>1. f.id \in Ids
  BY DEF IsFragment
<1>2. d \in Datagram /\ Held(d) /\ d.id = f.id /\ d.p = <<>> /\ Clen(d.p) = 0
  BY <1>1, FreshIs
<1>3. n \in Queues /\ Listed(n.list) /\ n.count = Total(n.list) /\ n.count \in Nat
  BY GoodFields DEF Good
<1>4. m = [n EXCEPT !.list = l]
  BY DEF WithFresh
<1> HIDE DEF d
<1>5. /\ Listed(l) /\ Total(l) = Total(n.list) + Clen(d.p)
      /\ Len(l) = Len(n.list) + 1 /\ l[1] = d /\ \A i \in 2..Len(l) : l[i] = n.list[i - 1]
  <2>1. Len(n.list) \in Nat
    BY GoodFields
  <2>2. 1 \in 1..(Len(n.list) + 1)
    BY <2>1
  <2>3. Listed(l) /\ IsInserted(l, n.list, 1, d) /\ Total(l) = Total(n.list) + Clen(d.p)
    BY <1>2, <1>3, <2>2, ListInserted
  <2> HIDE DEF l
  <2>4. Len(l) = Len(n.list) + 1 /\ l[1] = d /\ \A i \in 2..Len(l) : l[i] = n.list[i - 1]
    BY <2>1, <2>3 DEF IsInserted
  <2> QED  BY <2>3, <2>4
<1> HIDE DEF l, m
<1>6. l \in Seq(Datagram) /\ Total(l) = n.count /\ Len(n.list) \in Nat
  BY <1>2, <1>3, <1>5, GoodFields DEF Listed
<1>7. m \in Queues /\ m.list = l /\ m.count = n.count /\ m.returned = n.returned
  BY <1>3, <1>4, <1>6 DEF Queues
<1>8. ASSUME NEW j \in 1..Len(l), j # 1 \/ l[j].p # <<>> PROVE Unfinished(l[j])
  <2>1. j # 1
    BY <1>2, <1>5, <1>8
  <2>2. j \in 2..Len(l) /\ j - 1 \in 1..Len(n.list)
    BY <1>5, <1>6, <2>1
  <2> QED  BY <1>5, <2>2 DEF Good
<1>9. 1 \in 1..Len(l)
  BY <1>5, <1>6
<1>10. Ready(m, 1, f)
  BY <1>2, <1>5, <1>6, <1>7, <1>8, <1>9 DEF Ready
<1>11. Follows(Enter(m, 1, f), m, f, m.list[1])
  BY <1>10, EnterFollows
<1> QED  BY <1>5, <1>7, <1>11 DEF Follows, m

\* ip_reass_enqueue_new_datagram makes room for an entry before it takes one.
LEMMA EnterNewBounded ==
  ASSUME NEW m, Bounded(m), NEW f, IsFragment(f), \A k \in 1..Len(m.list) : m.list[k].id # f.id,
         m.count + (f.end - f.start) <= IP_REASS_MAX_PBUFS
  PROVE  Bounded(EnterNew(m, f))
<1> DEFINE clen == f.end - f.start
           full == Len(m.list) = MEMP_NUM_REASSDATA
           n    == IF full THEN RemoveOldest(m, f.id, clen) ELSE m
           r    == Enter(WithFresh(n, f.id), 1, f)
<1>1. EnterNew(m, f) = IF full /\ n.freed < clen THEN n ELSE r
  BY DEF EnterNew, WithFresh, Fresh
<1>2. /\ Good(m) /\ Complete(m.returned) /\ m.count <= IP_REASS_MAX_PBUFS
      /\ Len(m.list) <= MEMP_NUM_REASSDATA
  BY DEF Bounded
<1>3. clen \in Nat /\ clen > 0
  BY DEF IsFragment
<1>4. m.count \in Nat /\ Len(m.list) \in Nat
  BY <1>2, GoodFields
<1>5. /\ IP_REASS_MAX_PBUFS \in Nat /\ MEMP_NUM_REASSDATA \in Nat
  BY ReassAssumption
<1>6. m.count + clen <= IP_REASS_MAX_PBUFS
  OBVIOUS
<1> HIDE DEF clen
<1>7. full => Thinned(n, m, f.id)
  BY <1>2, RemoveOldestThins
<1>8. ~full => n = m
  OBVIOUS
<1> HIDE DEF n
<1>9. /\ Good(n) /\ n.returned = m.returned /\ n.count <= m.count /\ Len(n.list) <= Len(m.list)
      /\ \A j \in 1..Len(n.list) : \E k \in 1..Len(m.list) : n.list[j] = m.list[k]
  <2>1. CASE full
    BY <1>7, <2>1 DEF Thinned
  <2>2. CASE ~full
    BY <1>2, <1>4, <1>8, <2>2
  <2> QED  BY <2>1, <2>2
<1>10. n.count \in Nat /\ Len(n.list) \in Nat /\ n.freed \in Nat
  BY <1>9, GoodFields
<1>11. CASE full /\ n.freed < clen
  <2>1. n.count <= IP_REASS_MAX_PBUFS /\ Len(n.list) <= MEMP_NUM_REASSDATA
    BY <1>2, <1>4, <1>5, <1>9, <1>10
  <2> QED  BY <1>1, <1>2, <1>9, <1>11, <2>1 DEF Bounded
<1>12. CASE ~(full /\ n.freed < clen)
  <2>1. \A k \in 1..Len(n.list) : n.list[k].id # f.id
    BY <1>9
  <2>2. /\ Good(r) /\ Complete(r.returned)
        /\ r.count <= n.count + clen /\ Len(r.list) <= Len(n.list) + 1
    BY <1>2, <1>9, <2>1, NewFollows DEF clen
  <2> HIDE DEF r
  <2>3. r.count \in Nat /\ Len(r.list) \in Nat
    BY <2>2, GoodFields
  <2>4. r.count <= IP_REASS_MAX_PBUFS
    BY <1>3, <1>4, <1>5, <1>6, <1>9, <1>10, <2>2, <2>3
  <2>5. Len(n.list) < MEMP_NUM_REASSDATA
    <3>1. CASE full
      <4>1. n.freed > 0
        BY <1>3, <1>10, <1>12, <3>1
      <4>2. Len(n.list) < Len(m.list)
        BY <1>7, <3>1, <4>1 DEF Thinned
      <4> QED  BY <3>1, <4>2
    <3>2. CASE ~full
      BY <1>2, <1>4, <1>5, <1>8, <3>2
    <3> QED  BY <3>1, <3>2
  <2>6. Len(r.list) <= MEMP_NUM_REASSDATA
    BY <1>5, <1>10, <2>2, <2>3, <2>5
  <2>7. EnterNew(m, f) = r
    BY <1>1, <1>12
  <2> QED  BY <2>2, <2>4, <2>6, <2>7 DEF Bounded
<1> QED  BY <1>11, <1>12

\* A fragment leaves the queues within their limits, and its datagram with what it had.
LEMMA ReassBounded ==
  ASSUME NEW m, Bounded(m), NEW f, IsFragment(f)
  PROVE  /\ Bounded(Reass(m, f))
         /\ \A k \in 1..Len(m.list) : m.list[k].id = f.id => Kept(Reass(m, f), m.list[k])
<1> DEFINE clen  == f.end - f.start
           tight == m.count + clen > IP_REASS_MAX_PBUFS
           n     == IF tight THEN RemoveOldest(m, f.id, clen) ELSE m
           own   == {k \in 1..Len(n.list) : n.list[k].id = f.id}
           drop  == tight /\ (n.freed = 0 \/ n.count + clen > IP_REASS_MAX_PBUFS)
           o     == CHOOSE k \in own : TRUE
           r     == Reass(m, f)
<1>1. r = IF drop THEN n ELSE IF own # {} THEN Enter(n, o, f) ELSE EnterNew(n, f)
  BY DEF Reass
<1>2. /\ Good(m) /\ Complete(m.returned) /\ m.count <= IP_REASS_MAX_PBUFS
      /\ Len(m.list) <= MEMP_NUM_REASSDATA
  BY DEF Bounded
<1>3. clen \in Nat /\ clen > 0
  BY DEF IsFragment
<1>4. m.count \in Nat /\ Len(m.list) \in Nat
  BY <1>2, GoodFields
<1>5. IP_REASS_MAX_PBUFS \in Nat /\ MEMP_NUM_REASSDATA \in Nat
  BY ReassAssumption
<1> HIDE DEF clen, r
<1>6. tight => Thinned(n, m, f.id)
  BY <1>2, RemoveOldestThins
<1>7. ~tight => n = m
  OBVIOUS
<1>8. o \in own \/ own = {}
  OBVIOUS
<1> HIDE DEF n, o
<1>9. /\ Good(n) /\ n.returned = m.returned /\ n.count <= m.count /\ Len(n.list) <= Len(m.list)
      /\ \A k \in 1..Len(m.list) :
           m.list[k].id = f.id => \E j \in 1..Len(n.list) : n.list[j] = m.list[k]
  <2>1. CASE tight
    BY <1>6, <2>1 DEF Thinned
  <2>2. CASE ~tight
    BY <1>2, <1>4, <1>7, <2>2
  <2> QED  BY <2>1, <2>2
<1>10. n.count \in Nat /\ Len(n.list) \in Nat
  BY <1>9, GoodFields
<1>11. n.count <= IP_REASS_MAX_PBUFS /\ Len(n.list) <= MEMP_NUM_REASSDATA
  BY <1>2, <1>4, <1>5, <1>9, <1>10
<1>12. Bounded(n)
  BY <1>2, <1>9, <1>11 DEF Bounded
<1>13. CASE drop
  <2>1. r = n
    BY <1>1, <1>13
  <2>2. ASSUME NEW k \in 1..Len(m.list), m.list[k].id = f.id PROVE Kept(n, m.list[k])
    <3>1. PICK j \in 1..Len(n.list) : n.list[j] = m.list[k]
      BY <1>9, <2>2
    <3>2. Keeps(n.list[j], m.list[k])
      BY <3>1 DEF Keeps
    <3> QED  BY <3>2 DEF Kept
  <2> QED  BY <1>12, <2>1, <2>2 DEF r
<1>14. ASSUME ~drop PROVE n.count + clen <= IP_REASS_MAX_PBUFS
  <2>1. CASE tight
    BY <1>3, <1>5, <1>10, <1>14, <2>1
  <2>2. CASE ~tight
    BY <1>3, <1>4, <1>5, <1>7, <2>2
  <2> QED  BY <2>1, <2>2
<1>15. CASE ~drop /\ own # {}
  <2>1. r = Enter(n, o, f)
    BY <1>1, <1>15
  <2>2. o \in 1..Len(n.list) /\ n.list[o].id = f.id
    BY <1>8, <1>15
  <2>3. Ready(n, o, f)
    BY <1>2, <1>9, <2>2 DEF Ready, Good
  <2>4. Follows(r, n, f, n.list[o])
    BY <2>1, <2>3, EnterFollows
  <2>5. Good(r) /\ r.count <= n.count + clen /\ Len(r.list) <= Len(n.list)
    BY <2>4 DEF Follows, clen
  <2>6. r.count \in Nat /\ Len(r.list) \in Nat
    BY <2>5, GoodFields
  <2>7. r.count <= IP_REASS_MAX_PBUFS /\ Len(r.list) <= MEMP_NUM_REASSDATA
    BY <1>3, <1>5, <1>10, <1>11, <1>14, <1>15, <2>5, <2>6
  <2>8. Bounded(r)
    BY <2>4, <2>7 DEF Bounded, Follows
  <2>9. ASSUME NEW k \in 1..Len(m.list), m.list[k].id = f.id PROVE Kept(r, m.list[k])
    <3>1. PICK j \in 1..Len(n.list) : n.list[j] = m.list[k]
      BY <1>9, <2>9
    <3>2. j = o
      BY <1>9, <2>2, <2>9, <3>1 DEF Good, Listed
    <3> QED  BY <2>4, <3>1, <3>2 DEF Follows
  <2> QED  BY <2>8, <2>9 DEF r
<1>16. CASE ~drop /\ own = {}
  <2>1. r = EnterNew(n, f)
    BY <1>1, <1>16
  <2>2. \A k \in 1..Len(n.list) : n.list[k].id # f.id
    BY <1>16
  <2>3. n.count + (f.end - f.start) <= IP_REASS_MAX_PBUFS
    BY <1>14, <1>16 DEF clen
  <2>4. Bounded(r)
    BY <1>12, <2>1, <2>2, <2>3, EnterNewBounded
  <2>5. ASSUME NEW k \in 1..Len(m.list), m.list[k].id = f.id PROVE FALSE
    BY <1>9, <2>2, <2>5
  <2> QED  BY <2>4, <2>5 DEF r
<1> QED  BY <1>13, <1>15, <1>16

-----------------------------------------------------------------------------
(* ip_reass_tmr *)

Emptied(m) == [m EXCEPT !.list = <<>>]

Aged(d) == [d EXCEPT !.timer = @ - 1]

Ticks(f, m, k) == f = [n \in 0..k |-> IF n = 0 THEN Emptied(m) ELSE Tick(f[n - 1], m.list[n])]

\* The recursion of ReassTmr has a solution of every length.
LEMMA TicksExist ==
  ASSUME NEW m, NEW k \in Nat
  PROVE  \E f : Ticks(f, m, k)
<1> SUFFICES ASSUME ~\E f : Ticks(f, m, k) PROVE FALSE
  OBVIOUS
<1> DEFINE Bad == {n \in Nat : ~\E f : Ticks(f, m, n)}
<1>1. Bad \subseteq Nat /\ Bad # {}
  OBVIOUS
<1>2. PICK b \in Bad : \A y \in Bad : b <= y
  <2> HIDE DEF Bad
  <2> QED  BY <1>1, LeastOf
<1>3. b \in Nat /\ ~\E f : Ticks(f, m, b)
  OBVIOUS
<1>4. CASE b = 0
  <2> DEFINE f == [n \in 0..0 |-> Emptied(m)]
  <2>1. f = [n \in 0..0 |-> IF n = 0 THEN Emptied(m) ELSE Tick(f[n - 1], m.list[n])]
    OBVIOUS
  <2>2. Ticks(f, m, 0)
    BY <2>1 DEF Ticks
  <2> QED  BY <1>3, <1>4, <2>2
<1>5. CASE b # 0
  <2>1. b - 1 \in Nat /\ b - 1 \notin Bad
    BY <1>2, <1>3, <1>5
  <2>2. PICK f : Ticks(f, m, b - 1)
    BY <2>1
  <2> DEFINE g == [n \in 0..b |-> IF n = b THEN Tick(f[b - 1], m.list[b]) ELSE f[n]]
  <2>3. \A n \in 0..(b - 1) : f[n] = IF n = 0 THEN Emptied(m) ELSE Tick(f[n - 1], m.list[n])
    BY <2>2 DEF Ticks
  <2>4. ASSUME NEW n \in 0..b
        PROVE  g[n] = IF n = 0 THEN Emptied(m) ELSE Tick(g[n - 1], m.list[n])
    <3>1. CASE n = b
      <4>1. b - 1 \in 0..b /\ b - 1 # b
        BY <1>3, <1>5
      <4>2. g[b - 1] = f[b - 1]
        BY <4>1
      <4>3. g[b] = Tick(f[b - 1], m.list[b])
        BY <1>3
      <4> QED  BY <1>5, <3>1, <4>2, <4>3
    <3>2. CASE n # b
      <4>1. n \in 0..(b - 1) /\ g[n] = f[n]
        BY <1>3, <3>2
      <4>2. CASE n = 0
        BY <2>3, <4>1, <4>2
      <4>3. CASE n # 0
        <5>1. n - 1 \in 0..b /\ n - 1 # b
          BY <1>3, <4>1, <4>3
        <5>2. g[n - 1] = f[n - 1]
          BY <5>1
        <5> QED  BY <2>3, <4>1, <4>3, <5>2
      <4> QED  BY <4>2, <4>3
    <3> QED  BY <3>1, <3>2
  <2>5. g = [n \in 0..b |-> g[n]]
    OBVIOUS
  <2> HIDE DEF g
  <2>6. g = [n \in 0..b |-> IF n = 0 THEN Emptied(m) ELSE Tick(g[n - 1], m.list[n])]
    BY <2>4, <2>5
  <2>7. Ticks(g, m, b)
    BY <2>6 DEF Ticks
  <2> QED  BY <1>3, <2>7
<1> QED  BY <1>4, <1>5

\* A second less is left for a datagram, and nothing else of it changes.
LEMMA AgedIs ==
  ASSUME NEW d \in Datagram, Held(d), Unfinished(d), d.timer > 0
  PROVE  LET e == Aged(d)
         IN e \in Datagram /\ Held(e) /\ Unfinished(e) /\ e.id = d.id /\ e.p = d.p
<1> DEFINE e == Aged(d)
<1>1. d.timer \in 0..IP_REASS_MAXAGE /\ IP_REASS_MAXAGE \in Nat
  BY ReassAssumption DEF Datagram
<1>2. d.timer - 1 \in 0..IP_REASS_MAXAGE
  BY <1>1
<1>3. e \in Datagram
  BY <1>2 DEF Aged, Datagram
<1>4. e.id = d.id /\ e.p = d.p /\ e.len = d.len
  BY DEF Aged, Datagram
<1>5. e.lastfrag = d.lastfrag
  BY DEF Aged, Datagram
<1> HIDE DEF e
<1>6. Held(e) /\ Unfinished(e)
  BY <1>4, <1>5 DEF Held, Unfinished
<1> QED  BY <1>3, <1>4, <1>6 DEF e

\* Append enters at the end.
LEMMA AppendIs ==
  ASSUME NEW S, NEW l \in Seq(S), NEW d \in S
  PROVE  Append(l, d) = Inserted(l, Len(l) + 1, d)
<1> DEFINE a == Append(l, d)
           r == Inserted(l, Len(l) + 1, d)
<1>1. Len(l) \in Nat
  BY LenProperties
<1>2. /\ a \in Seq(S) /\ Len(a) = Len(l) + 1
      /\ \A i \in 1..Len(l) : a[i] = l[i]
      /\ a[Len(l) + 1] = d
  BY AppendProperties
<1>3. r \in Seq(S) /\ IsInserted(r, l, Len(l) + 1, d)
  <2>1. Len(l) + 1 \in 1..(Len(l) + 1)
    BY <1>1
  <2> QED  BY <2>1, InsertedIs
<1> HIDE DEF a, r
<1>4. ASSUME NEW i \in 1..Len(a) PROVE a[i] = r[i]
  <2>1. i \in 1..Len(r)
    BY <1>2, <1>3 DEF IsInserted
  <2>2. CASE i < Len(l) + 1
    <3>1. i \in 1..Len(l)
      BY <1>1, <2>2
    <3> QED  BY <1>2, <1>3, <2>1, <2>2, <3>1 DEF IsInserted
  <2>3. CASE i = Len(l) + 1
    BY <1>1, <1>2, <1>3, <2>1, <2>3 DEF IsInserted
  <2> QED  BY <1>1, <1>2, <2>2, <2>3
<1>5. Len(a) = Len(r)
  BY <1>2, <1>3 DEF IsInserted
<1>6. a = r
  BY <1>2, <1>3, <1>4, <1>5, SeqEqual
<1> QED  BY <1>6 DEF a, r

\* The queues while the timer goes through the list: the count may be ahead of it.
Ledgers ==
  [list : Seq(Datagram), count : Int, freed : Nat,
   returned : [id : Ids \cup {0}, p : Seq(Piece), len : Nat]]

\* After k datagrams: the list has those that live, and the number of pbufs is short of those
\* that were freed; c holds the sums over the list at the beginning.
Ticked(r, m, k, c) ==
  /\ r \in Ledgers
  /\ Listed(r.list) /\ r.returned = m.returned
  /\ \A j \in 1..Len(r.list) : Unfinished(r.list[j])
  /\ \A j \in 1..Len(r.list) : \E i \in 1..k : r.list[j].id = m.list[i].id
  /\ Len(r.list) <= k
  /\ r.count <= m.count
  /\ r.count = Total(r.list) + (c[Len(m.list)] - c[k])

\* One datagram of the list.
LEMMA TickIs ==
  ASSUME NEW m, Good(m), NEW c, SumsOf(c, Clens(m.list)), NEW k \in Nat, k + 1 <= Len(m.list),
         NEW r, Ticked(r, m, k, c)
  PROVE  Ticked(Tick(r, m.list[k + 1]), m, k + 1, c)
<1> DEFINE d == m.list[k + 1]
           x == Clen(d.p)
           s == Tick(r, d)
           L == Len(m.list)
<1>1. L \in Nat /\ m.list \in Seq(Datagram) /\ m.count \in Nat
  BY GoodFields
<1>2. k + 1 \in 1..L /\ k \in 0..L /\ k + 1 \in 0..L /\ L \in 0..L /\ (k + 1) - 1 = k
  BY <1>1
<1>3. Listed(m.list) /\ d \in Datagram /\ Held(d) /\ Unfinished(d)
  BY <1>1, <1>2, DatagramTypes DEF Good, Listed
<1>4. /\ Len(Clens(m.list)) = L /\ Clens(m.list)[k + 1] = x /\ x \in Nat
  BY <1>2, <1>3, ClensIs
<1>5. /\ c[k] \in Nat /\ c[k + 1] \in Nat /\ c[L] \in Nat /\ c[k + 1] = c[k] + x
  <2>1. c[k + 1] = c[(k + 1) - 1] + Clens(m.list)[k + 1]
    BY <1>2, <1>4 DEF SumsOf
  <2> QED  BY <1>2, <1>4, <2>1 DEF SumsOf
<1>6. /\ Listed(r.list) /\ r.returned = m.returned
      /\ \A j \in 1..Len(r.list) : Unfinished(r.list[j])
      /\ \A j \in 1..Len(r.list) : \E i \in 1..k : r.list[j].id = m.list[i].id
      /\ Len(r.list) <= k /\ r.count <= m.count
      /\ r.count = Total(r.list) + (c[L] - c[k])
  BY DEF Ticked
<1>7. r.list \in Seq(Datagram) /\ r.count \in Int /\ Len(r.list) \in Nat
  BY <1>6, LenProperties DEF Listed, Ticked, Ledgers
<1>l. Len(r.list) <= k /\ r.count = Total(r.list) + (c[L] - c[k])
  BY <1>6
<1>8. Total(r.list) \in Nat
  BY <1>6, ClensIs, SumAtLeast
<1>9. 1..k \subseteq 1..(k + 1)
  OBVIOUS
<1> HIDE DEF d, x, s, L
<1>10. CASE d.timer > 0
  <2> DEFINE e == Aged(d)
             l == Append(r.list, e)
             n == Len(r.list)
  <2>1. e \in Datagram /\ Held(e) /\ Unfinished(e) /\ e.id = d.id /\ e.p = d.p
    BY <1>3, <1>10, AgedIs
  <2>2. s = [r EXCEPT !.list = l]
    BY <1>10 DEF Tick, Aged, s
  <2> HIDE DEF e
  <2>3. ASSUME NEW i \in 1..Len(r.list) PROVE r.list[i].id # e.id
    <3>1. PICK j \in 1..k : r.list[i].id = m.list[j].id
      BY <1>6
    <3>2. j \in 1..L /\ j # k + 1
      BY <1>1, <1>2
    <3>3. m.list[j].id # m.list[k + 1].id
      BY <1>2, <1>3, <3>2 DEF Listed, L
    <3> QED  BY <2>1, <3>1, <3>3 DEF d
  <2>4. l = Inserted(r.list, n + 1, e) /\ n + 1 \in 1..(n + 1)
    <3>1. l = Inserted(r.list, Len(r.list) + 1, e)
      BY <1>7, <2>1, AppendIs
    <3>2. n + 1 \in 1..(n + 1)
      BY <1>7
    <3> QED  BY <3>1, <3>2
  <2>5. Listed(l) /\ IsInserted(l, r.list, n + 1, e) /\ Total(l) = Total(r.list) + Clen(e.p)
    BY <1>6, <2>1, <2>3, <2>4, ListInserted
  <2> HIDE DEF l
  <2>6. Len(l) = n + 1 /\ \A j \in 1..Len(l) : l[j] = e \/ (j \in 1..n /\ l[j] = r.list[j])
    BY <1>7, <2>5 DEF IsInserted
  <2>7. s.list = l /\ s.count = r.count /\ s.returned = r.returned
    BY <2>2 DEF Ticked, Ledgers
  <2>8. s \in Ledgers
    <3>1. l \in Seq(Datagram)
      BY <2>5 DEF Listed
    <3> QED  BY <2>2, <3>1 DEF Ticked, Ledgers
  <2>9. ASSUME NEW j \in 1..Len(l)
        PROVE  Unfinished(l[j]) /\ \E i \in 1..(k + 1) : l[j].id = m.list[i].id
    <3>1. CASE l[j] = e
      BY <2>1, <3>1 DEF d
    <3>2. CASE j \in 1..n /\ l[j] = r.list[j]
      BY <1>6, <1>9, <3>2
    <3> QED  BY <2>6, <3>1, <3>2
  <2>10. Len(l) <= k + 1
    BY <1>l, <1>7, <2>6
  <2>11. s.count = Total(l) + (c[L] - c[k + 1])
    <3>1. Total(l) = Total(r.list) + x
      BY <2>1, <2>5 DEF x
    <3> DEFINE T == Total(r.list)
               A == c[L]
               B == c[k]
    <3>2. /\ T \in Nat /\ A \in Nat /\ B \in Nat /\ x \in Nat /\ Total(l) = T + x
          /\ s.count = T + (A - B) /\ c[k + 1] = B + x
      BY <1>4, <1>5, <1>8, <1>l, <2>7, <3>1
    <3> HIDE DEF T, A, B, l
    <3>3. T + (A - B) = (T + x) + (A - (B + x))
      BY <3>2
    <3> QED  BY <3>2, <3>3 DEF A
  <2> QED  BY <1>6, <2>5, <2>7, <2>8, <2>9, <2>10, <2>11 DEF Ticked, s, d, L
<1>11. CASE ~(d.timer > 0)
  <2>1. s = [r EXCEPT !.count = r.count - x]
    BY <1>11 DEF Tick, s, x
  <2>2. s.list = r.list /\ s.count = r.count - x /\ s.returned = r.returned
    BY <2>1 DEF Ticked, Ledgers
  <2>3. s \in Ledgers
    <3>1. r.count - x \in Int
      BY <1>4, <1>7
    <3> QED  BY <2>1, <3>1 DEF Ticked, Ledgers
  <2>4. s.count = Total(r.list) + (c[L] - c[k + 1]) /\ s.count <= m.count
    <3> DEFINE T == Total(r.list)
               A == c[L]
               B == c[k]
               y == r.count
    <3>1. /\ T \in Nat /\ A \in Nat /\ B \in Nat /\ y \in Int /\ x \in Nat /\ m.count \in Nat
          /\ y = T + (A - B) /\ y <= m.count
          /\ s.count = y - x /\ c[k + 1] = B + x
      BY <1>1, <1>4, <1>5, <1>6, <1>7, <1>8, <2>2
    <3> HIDE DEF T, A, B, y
    <3>2. y - x = T + (A - (B + x)) /\ y - x <= m.count
      BY <3>1
    <3> QED  BY <3>1, <3>2 DEF T, A
  <2>5. Len(r.list) <= k + 1
    BY <1>l, <1>7
  <2>6. \A j \in 1..Len(r.list) : \E i \in 1..(k + 1) : r.list[j].id = m.list[i].id
    BY <1>6, <1>9
  <2> QED  BY <1>6, <2>2, <2>3, <2>4, <2>5, <2>6 DEF Ticked, s, d, L
<1> QED  BY <1>10, <1>11

\* ip_reass_tmr leaves the queues within their limits.
LEMMA TicksBounded ==
  ASSUME NEW m, Bounded(m), NEW f, Ticks(f, m, Len(m.list))
  PROVE  Bounded(f[Len(m.list)]) /\ f[Len(m.list)].returned = m.returned
<1> DEFINE L == Len(m.list)
<1>1. Good(m)
  BY DEF Bounded
<1>2. L \in Nat /\ m.count \in Nat /\ m \in Queues /\ m.list \in Seq(Datagram)
  BY <1>1, GoodFields DEF Good
<1>3. Clens(m.list) \in Seq(Nat) /\ Len(Clens(m.list)) = L /\ m.count = Sum(Clens(m.list))
  BY <1>1, ClensIs DEF Good
<1>4. PICK c : SumsOf(c, Clens(m.list))
  BY <1>3, SumIs
<1>5. c[0] = 0 /\ c[L] = m.count
  BY <1>3, <1>4 DEF SumsOf
<1>6. \A i \in 0..L : f[i] = IF i = 0 THEN Emptied(m) ELSE Tick(f[i - 1], m.list[i])
  BY DEF Ticks
<1>7. Ticked(Emptied(m), m, 0, c)
  <2> DEFINE r == Emptied(m)
  <2>1. <<>> \in Seq(Datagram) /\ Len(<<>>) = 0 /\ 1..Len(<<>>) = {}
    OBVIOUS
  <2>2. r.list = <<>> /\ r.count = m.count /\ r.returned = m.returned
    BY <1>2 DEF Emptied, Queues
  <2>3. r \in Ledgers
    <3>1. m \in Ledgers
      BY <1>2 DEF Queues, Ledgers
    <3> QED  BY <2>1, <3>1 DEF Emptied, Ledgers
  <2>4. Listed(<<>>)
    BY <2>1 DEF Listed
  <2>5. Total(<<>>) = 0
    <3>1. Clens(<<>>) \in Seq(Nat) /\ Len(Clens(<<>>)) = 0 /\ Total(<<>>) = Sum(Clens(<<>>))
      BY <2>1, <2>4, ClensIs
    <3>2. PICK e : SumsOf(e, Clens(<<>>))
      BY <3>1, SumIs
    <3> QED  BY <3>1, <3>2 DEF SumsOf
  <2> HIDE DEF r
  <2>6. r.count = Total(r.list) + (c[L] - c[0]) /\ r.count <= m.count
    BY <1>2, <1>5, <2>2, <2>5
  <2>7. Ticked(r, m, 0, c)
    BY <2>1, <2>2, <2>3, <2>4, <2>6 DEF Ticked
  <2> QED  BY <2>7 DEF r
<1> DEFINE Bad == {i \in 0..L : ~Ticked(f[i], m, i, c)}
<1>8. Bad = {}
  <2> SUFFICES ASSUME Bad # {} PROVE FALSE
    OBVIOUS
  <2>1. Bad \subseteq Nat
    OBVIOUS
  <2>2. PICK b \in Bad : \A y \in Bad : b <= y
    <3> HIDE DEF Bad
    <3> QED  BY <2>1, LeastOf
  <2>3. b \in 0..L /\ ~Ticked(f[b], m, b, c)
    OBVIOUS
  <2>4. b # 0
    <3>1. 0 \in 0..L
      BY <1>2
    <3> QED  BY <1>6, <1>7, <2>3, <3>1
  <2>5. b - 1 \in 0..L /\ b - 1 \in Nat /\ (b - 1) + 1 = b /\ b <= L
    BY <1>2, <2>3, <2>4
  <2>6. Ticked(f[b - 1], m, b - 1, c)
    <3>1. b - 1 \notin Bad
      BY <2>2, <2>3, <2>5
    <3> QED  BY <2>5, <3>1
  <2>7. Ticked(Tick(f[b - 1], m.list[b]), m, b, c)
    <3> DEFINE a == b - 1
    <3>1. a \in Nat /\ a + 1 <= L /\ Ticked(f[a], m, a, c) /\ a + 1 = b
      BY <2>5, <2>6
    <3> HIDE DEF a
    <3>2. Ticked(Tick(f[a], m.list[a + 1]), m, a + 1, c)
      BY <1>1, <1>4, <3>1, TickIs
    <3>3. Ticked(Tick(f[a], m.list[b]), m, b, c)
      BY <3>1, <3>2
    <3> QED  BY <3>3 DEF a
  <2>8. f[b] = Tick(f[b - 1], m.list[b])
    BY <1>6, <2>3, <2>4
  <2> QED  BY <2>3, <2>7, <2>8
<1> DEFINE r == f[L]
<1>9. Ticked(r, m, L, c)
  <2>1. L \in 0..L
    BY <1>2
  <2> QED  BY <1>8, <2>1
<1> HIDE DEF r, L
<1>10. /\ Listed(r.list) /\ r.returned = m.returned
       /\ \A j \in 1..Len(r.list) : Unfinished(r.list[j])
       /\ Len(r.list) <= L /\ r.count <= m.count
       /\ r.count = Total(r.list) + (c[L] - c[L])
  BY <1>9 DEF Ticked, L
<1>11. Total(r.list) \in Nat /\ Len(r.list) \in Nat
  BY <1>10, ClensIs, SumAtLeast, LenProperties DEF Listed
<1>12. r.count = Total(r.list) /\ r.count \in Nat
  BY <1>2, <1>5, <1>10, <1>11
<1>13. r \in Queues
  <2>1. r \in Ledgers
    BY <1>9 DEF Ticked
  <2> QED  BY <1>12, <2>1 DEF Queues, Ledgers
<1>14. Good(r)
  BY <1>10, <1>12, <1>13 DEF Good
<1>15. r.count <= IP_REASS_MAX_PBUFS /\ Len(r.list) <= MEMP_NUM_REASSDATA
  <2>1. m.count <= IP_REASS_MAX_PBUFS /\ L <= MEMP_NUM_REASSDATA
    BY DEF Bounded, L
  <2> QED  BY <1>2, <1>10, <1>11, <1>12, <2>1, ReassAssumption
<1>16. Bounded(r)
  BY <1>10, <1>14, <1>15 DEF Bounded
<1> QED  BY <1>10, <1>16 DEF r, L

-----------------------------------------------------------------------------
(* The theorems *)

ReassInv == Bounded(Queue) /\ Complete(returned)

AsQueue(l, c) == [list |-> l, count |-> c, freed |-> 0, returned |-> NoDatagram]

\* No datagram is one that ip4_reass can return.
LEMMA NoneReturned ==
  NoDatagram \in [id : Ids \cup {0}, p : Seq(Piece), len : Nat] /\ Complete(NoDatagram)
<1>1. <<>> \in Seq(Piece)
  OBVIOUS
<1>2. NoDatagram \in [id : Ids \cup {0}, p : Seq(Piece), len : Nat]
  BY <1>1 DEF NoDatagram
<1> QED  BY <1>2 DEF Complete

\* What one call leaves is what the next one finds.
LEMMA AsQueueBounded ==
  ASSUME NEW r, Bounded(r)
  PROVE  Bounded(AsQueue(r.list, r.count))
<1> DEFINE q == AsQueue(r.list, r.count)
<1>1. Good(r) /\ r.count <= IP_REASS_MAX_PBUFS /\ Len(r.list) <= MEMP_NUM_REASSDATA
  BY DEF Bounded
<1>2. r.list \in Seq(Datagram) /\ r.count \in Nat
  BY <1>1, GoodFields
<1>3. q.list = r.list /\ q.count = r.count /\ q.returned = NoDatagram
  BY DEF AsQueue
<1>4. q \in Queues
  BY <1>2, NoneReturned DEF AsQueue, Queues
<1> HIDE DEF q
<1>5. Good(q)
  BY <1>1, <1>3, <1>4 DEF Good
<1>6. Bounded(q)
  BY <1>1, <1>3, <1>5, NoneReturned DEF Bounded
<1> QED  BY <1>6 DEF q

\* What a fragment can be.
LEMMA FragmentIs ==
  ASSUME NEW f \in Fragments, f.start < f.end
  PROVE  IsFragment(f)
<1>1. PICK i \in Ids :
        f \in {[id |-> i, start |-> s, end |-> e] : s \in 0..(Size[i] - 1), e \in 1..Size[i]}
  BY DEF Fragments
<1>2. PICK s \in 0..(Size[i] - 1), e \in 1..Size[i] : f = [id |-> i, start |-> s, end |-> e]
  BY <1>1
<1>3. Size[i] \in Nat
  BY ReassAssumption
<1>4. f.id = i /\ f.start = s /\ f.end = e
  BY <1>2
<1> QED  BY <1>3, <1>4 DEF IsFragment

\* The queues are in order at the beginning.
LEMMA ReassInitGood == ReassInit => ReassInv
<1> SUFFICES ASSUME ReassInit PROVE ReassInv
  OBVIOUS
<1> DEFINE q == AsQueue(<<>>, 0)
<1>1. <<>> \in Seq(Datagram) /\ Len(<<>>) = 0 /\ 1..Len(<<>>) = {}
  OBVIOUS
<1>2. Listed(<<>>)
  BY <1>1 DEF Listed
<1>3. Total(<<>>) = 0
  <2>1. Clens(<<>>) \in Seq(Nat) /\ Len(Clens(<<>>)) = 0 /\ Total(<<>>) = Sum(Clens(<<>>))
    BY <1>1, <1>2, ClensIs
  <2>2. PICK e : SumsOf(e, Clens(<<>>))
    BY <2>1, SumIs
  <2> QED  BY <2>1, <2>2 DEF SumsOf
<1>4. q.list = <<>> /\ q.count = 0 /\ q.returned = NoDatagram
  BY DEF AsQueue
<1>5. q \in Queues
  BY <1>1, NoneReturned DEF AsQueue, Queues
<1>6. Queue = q
  BY DEF ReassInit, Queue, AsQueue
<1> HIDE DEF q
<1>7. Good(q)
  BY <1>1, <1>2, <1>3, <1>4, <1>5 DEF Good
<1>8. Bounded(q)
  BY <1>1, <1>4, <1>7, NoneReturned, ReassAssumption DEF Bounded
<1> QED  BY <1>6, <1>8, NoneReturned DEF ReassInv, ReassInit

\* A step becomes what a call of ip4_reass or ip_reass_tmr made of the queues.
LEMMA BecomesGood ==
  ASSUME NEW r, Bounded(r), ReassBecomes(r)
  PROVE  ReassInv'
<1>1. Queue' = AsQueue(r.list, r.count)
  BY DEF Queue, AsQueue, ReassBecomes
<1>2. Bounded(Queue')
  BY <1>1, AsQueueBounded
<1>3. Complete(returned')
  BY DEF Bounded, ReassBecomes
<1> QED  BY <1>2, <1>3 DEF ReassInv

\* The step of ip_reass_tmr.
LEMMA TmrGood == ReassInv /\ ReassTmr => ReassInv' /\ arrived' = 0
<1> SUFFICES ASSUME ReassInv, ReassTmr PROVE ReassInv' /\ arrived' = 0
  OBVIOUS
<1>1. PICK m : m = Queue
  OBVIOUS
<1>2. m.list = reassdatagrams /\ Bounded(m)
  BY <1>1 DEF Queue, ReassInv
<1>3. PICK L : L = Len(m.list)
  OBVIOUS
<1>4. L \in Nat
  BY <1>2, <1>3, GoodFields DEF Bounded
<1> DEFINE f == CHOOSE g : g = [k \in 0..Len(reassdatagrams) |->
                                 IF k = 0 THEN [Queue EXCEPT !.list = <<>>]
                                 ELSE Tick(g[k - 1], reassdatagrams[k])]
<1>5. Ticks(f, m, L)
  <2>1. PICK g : Ticks(g, m, L)
    BY <1>4, TicksExist
  <2>2. g = [k \in 0..Len(reassdatagrams) |-> IF k = 0 THEN [Queue EXCEPT !.list = <<>>]
                                               ELSE Tick(g[k - 1], reassdatagrams[k])]
    BY <1>1, <1>2, <1>3, <2>1 DEF Ticks, Emptied
  <2>3. f = [k \in 0..Len(reassdatagrams) |-> IF k = 0 THEN [Queue EXCEPT !.list = <<>>]
                                               ELSE Tick(f[k - 1], reassdatagrams[k])]
    BY <2>2
  <2> HIDE DEF f
  <2> QED  BY <1>1, <1>2, <1>3, <2>3 DEF Ticks, Emptied
<1>6. ReassBecomes(f[L]) /\ arrived' = 0
  <2>1. L = Len(reassdatagrams)
    BY <1>2, <1>3
  <2>2. ReassBecomes(f[Len(reassdatagrams)]) /\ arrived' = 0
    BY DEF ReassTmr
  <2> QED  BY <2>1, <2>2
<1> HIDE DEF f
<1>7. Bounded(f[L])
  BY <1>2, <1>3, <1>5, TicksBounded
<1> QED  BY <1>6, <1>7, BecomesGood

\* The step of ip4_reass, and what it leaves the datagram of the fragment.
LEMMA ArrivesGood ==
  ASSUME ReassInv, FragmentArrives
  PROVE  /\ ReassInv'
         /\ OwnKept
<1>1. PICK f \in Fragments :
        f.start < f.end /\ ReassBecomes(Reass(Queue, f)) /\ arrived' = f.id
  BY DEF FragmentArrives
<1>2. PICK m : m = Queue
  OBVIOUS
<1>3. m.list = reassdatagrams /\ Bounded(m)
  BY <1>2 DEF Queue, ReassInv
<1>4. IsFragment(f)
  BY <1>1, FragmentIs
<1>5. PICK r : r = Reass(m, f)
  OBVIOUS
<1>6. Bounded(r) /\ \A k \in 1..Len(m.list) : m.list[k].id = f.id => Kept(r, m.list[k])
  BY <1>3, <1>4, <1>5, ReassBounded
<1>7. ReassBecomes(r)
  BY <1>1, <1>2, <1>5
<1>8. ReassInv'
  BY <1>6, <1>7, BecomesGood
<1>9. reassdatagrams' = r.list /\ returned' = r.returned
  BY <1>7 DEF ReassBecomes
<1>10. ASSUME NEW k \in 1..Len(reassdatagrams), reassdatagrams[k].id = arrived'
       PROVE  \/ Keeps(returned', reassdatagrams[k])
              \/ \E j \in 1..Len(reassdatagrams') : Keeps(reassdatagrams'[j], reassdatagrams[k])
  <2>1. Kept(r, m.list[k])
    BY <1>1, <1>3, <1>6, <1>10
  <2> QED  BY <1>3, <1>9, <2>1 DEF Kept
<1> QED  BY <1>8, <1>10 DEF OwnKept

\* The inductive invariant of the reassembly, for every number of datagrams and every limit.
THEOREM ReassInvariant == ReassSpec => []ReassInv
<1>1. ReassInv /\ [ReassNext]_reassVars => ReassInv'
  <2> SUFFICES ASSUME ReassInv, [ReassNext]_reassVars PROVE ReassInv'
    OBVIOUS
  <2>1. CASE FragmentArrives
    BY <2>1, ArrivesGood
  <2>2. CASE ReassTmr
    BY <2>2, TmrGood
  <2>3. CASE UNCHANGED reassVars
    <3>1. Queue' = Queue /\ returned' = returned
      BY <2>3 DEF reassVars, Queue
    <3> QED  BY <3>1 DEF ReassInv
  <2> QED  BY <2>1, <2>2, <2>3 DEF ReassNext
<1> QED  BY ReassInitGood, <1>1, PTL DEF ReassSpec

\* The queues stay within the limits of the pool and of the pbufs, ip_reass_pbufcount is the
\* number of their pbufs, what ip4_reass returns is a whole datagram in order, and no whole
\* datagram is left waiting.
THEOREM ReassStaysConsistent == ReassSpec => []ReassConsistent
<1>1. ReassInv => ReassConsistent
  <2> SUFFICES ASSUME ReassInv PROVE ReassConsistent
    OBVIOUS
  <2>1. PICK m : m = Queue
    OBVIOUS
  <2>2. /\ m.list = reassdatagrams /\ m.count = ip_reass_pbufcount
        /\ Bounded(m) /\ Complete(returned)
    BY <2>1 DEF Queue, ReassInv
  <2>3. /\ Good(m) /\ m.count <= IP_REASS_MAX_PBUFS /\ Len(m.list) <= MEMP_NUM_REASSDATA
        /\ m.count \in Nat /\ m.list \in Seq(Datagram) /\ m.count = Total(m.list)
    BY <2>2, GoodFields DEF Bounded, Good
  <2>4. ASSUME NEW k \in 1..Len(m.list)
        PROVE  /\ m.list[k].id \in Ids /\ m.list[k].timer \in 0..IP_REASS_MAXAGE
               /\ \A j \in 1..Len(m.list) : m.list[j].id = m.list[k].id => j = k
    BY <2>3, DatagramTypes DEF Good, Listed
  <2>5. ReassTypeOK
    <3>1. ip_reass_pbufcount \in 0..IP_REASS_MAX_PBUFS
      BY <2>2, <2>3, ReassAssumption
    <3> QED  BY <2>2, <2>3, <2>4, <3>1 DEF ReassTypeOK
  <2>6. PbufsAddUp
    BY <2>2, <2>3 DEF PbufsAddUp
  <2>7. ASSUME NEW k \in 1..Len(m.list)
        PROVE  m.list[k].p # <<>> /\ ~Spells(m.list[k].p, Size[m.list[k].id])
    <3> DEFINE d == m.list[k]
               n == Size[d.id]
    <3>1. d.p # <<>> /\ ~(d.lastfrag /\ Contiguous(d.p)) /\ InOrder(d.p, n)
      BY <2>3 DEF Good, Unfinished, Listed, Held
    <3>2. d.lastfrag <=> Ends(d.p, n)
      BY <2>3 DEF Good, Listed, Held
    <3>3. n \in Nat
      BY <2>3, DatagramTypes
    <3> HIDE DEF d, n
    <3>4. ~Spells(d.p, n)
      BY <3>1, <3>2, <3>3, SpellsIs
    <3> QED  BY <3>1, <3>4 DEF d, n
  <2>8. NoneOverlooked
    BY <2>2, <2>7 DEF NoneOverlooked
  <2>9. Whole
    BY <2>2 DEF Whole, Complete
  <2> QED  BY <2>5, <2>6, <2>8, <2>9 DEF ReassConsistent
<1> QED  BY <1>1, ReassInvariant, PTL

\* A fragment that arrives never costs its own datagram a fragment that it has, whichever
\* datagrams ip_reass_remove_oldest_datagram throws out for it.
THEOREM ReassKeepsOwn == ReassSpec => OwnIsKept
<1>1. ReassInv /\ [ReassNext]_reassVars => [OwnKept]_reassVars
  <2> SUFFICES ASSUME ReassInv, ReassNext PROVE OwnKept
    OBVIOUS
  <2>1. CASE FragmentArrives
    BY <2>1, ArrivesGood
  <2>2. CASE ReassTmr
    <3>1. arrived' = 0
      BY <2>2, TmrGood
    <3>2. ASSUME NEW k \in 1..Len(reassdatagrams) PROVE reassdatagrams[k].id # 0
      <4>1. PICK m : m = Queue
        OBVIOUS
      <4>2. m.list = reassdatagrams /\ Good(m)
        BY <4>1 DEF Queue, ReassInv, Bounded
      <4>3. reassdatagrams[k].id \in Ids
        BY <4>2, GoodFields, DatagramTypes
      <4> QED  BY <4>3, ReassAssumption
    <3> QED  BY <3>1, <3>2 DEF OwnKept
  <2> QED  BY <2>1, <2>2 DEF ReassNext
<1> QED  BY <1>1, ReassInvariant, PTL DEF ReassSpec, OwnIsKept
=============================================================================
