------------------------ MODULE LwipTimeouts_proofs -------------------------
(***************************************************************************)
(* Proofs about LwipTimeouts: the list of timeouts stays complete and in   *)
(* the order in which its entries are due, across the wrap of the clock,   *)
(* a call of sys_check_timeouts takes no longer than one run of every      *)
(* handler, and no handler runs early or is left out.                      *)
(*                                                                         *)
(* A time is compared through the time that is left, which is an integer   *)
(* and does not wrap: the bounds on it are what makes TIME_LESS_THAN right.*)
(***************************************************************************)
EXTENDS LwipTimeouts, SequenceTheorems, FiniteSetTheorems, NaturalsInduction,
        WellFoundedInduction, TLAPS

Half == ClockMod \div 2

Count == Len(lwip_cyclic_timers) + 1

Entry == [time : 0..(ClockMod - 1), h : Timers, left : Int]

\* How far a timeout may be overdue.
Overdue == MaxPause + 2 * LongestCheck

Elems(l) == {l[i] : i \in 1..Len(l)}

Has(E, h) == \E e \in E : e.h = h

NotBefore(E, b) == \A e \in E : e.left > b

\* The list is one of timers, each at most once, whose times are right at the time now, in
\* the order in which they are due.
Fits(l, now) ==
  /\ l \in Seq(Entry)
  /\ \A e \in Elems(l) : e.time = (now + e.left) % ClockMod /\ e.left <= Interval[e.h]
  /\ \A i, j \in 1..Len(l) : i < j => l[i].left <= l[j].left
  /\ \A i, j \in 1..Len(l) : l[i].h = l[j].h => i = j

\* The timers that are not due any more in this call, since after it began.
Served(E, s) == {h \in Timers : \A e \in E : e.h = h => e.left + s > 0}

TimeoutsInv ==
  /\ clock \in 0..(ClockMod - 1) /\ since \in 0..LongestCheck /\ phase \in {"round", "check"}
  /\ tcpip_tcp_timer_active \in BOOLEAN /\ connections \in BOOLEAN
  /\ Fits(timeouts, clock)
  /\ \A h \in Cyclic : Has(Elems(timeouts), h)
  /\ Has(Elems(timeouts), "tcp") <=> tcpip_tcp_timer_active
  /\ connections => tcpip_tcp_timer_active
  /\ phase = "round" => since = 0 /\ NotBefore(Elems(timeouts), - LongestCheck)
  /\ phase = "check" => NotBefore(Elems(timeouts), - LongestCheck - MaxPause - since)
  /\ since <= MaxLag * Cardinality(Served(Elems(timeouts), since))

-----------------------------------------------------------------------------
(* Arithmetic *)

\* A number is the multiple of the divisor and the remainder.
LEMMA DivMod ==
  ASSUME NEW a \in Int, NEW n \in Nat, n > 0
  PROVE  a \div n \in Int /\ a % n \in 0..(n - 1) /\ a = (a \div n) * n + (a % n)
<1>1. a \div n \in Int
  OBVIOUS
<1>2. a % n \in 0..(n - 1)
  OBVIOUS
<1>3. a = (a \div n) * n + (a % n)
  OBVIOUS
<1> QED  BY <1>1, <1>2, <1>3

\* There is only one remainder.
LEMMA ModIs ==
  ASSUME NEW a \in Int, NEW n \in Nat, n > 0, NEW q \in Int, NEW r \in 0..(n - 1),
         a = q * n + r
  PROVE  a % n = r
OBVIOUS

\* Numbers that differ by a multiple of the divisor have the same remainder.
LEMMA ModSame ==
  ASSUME NEW a \in Int, NEW b \in Int, NEW n \in Nat, n > 0, NEW q \in Int, a = b + q * n
  PROVE  a % n = b % n
<1> DEFINE p == b \div n
           r == b % n
<1>1. p \in Int /\ r \in 0..(n - 1) /\ b = p * n + r
  BY DivMod
<1> HIDE DEF p, r
<1>2. a = (p + q) * n + r
  BY <1>1
<1>3. p + q \in Int
  BY <1>1
<1>4. a % n = r
  BY <1>1, <1>2, <1>3, ModIs
<1> QED  BY <1>4 DEF r

\* A remainder may be taken before an addition.
LEMMA ModAdd ==
  ASSUME NEW a \in Int, NEW b \in Int, NEW n \in Nat, n > 0
  PROVE  ((a % n) + b) % n = (a + b) % n
<1> DEFINE p == a \div n
           r == a % n
<1>1. p \in Int /\ r \in 0..(n - 1) /\ a = p * n + r
  BY DivMod
<1> HIDE DEF p, r
<1>2. a + b = (r + b) + p * n /\ r + b \in Int /\ a + b \in Int
  BY <1>1
<1>3. (a + b) % n = (r + b) % n
  BY <1>1, <1>2, ModSame
<1> QED  BY <1>3 DEF r

\* Remainders may be taken before a subtraction.
LEMMA ModSub ==
  ASSUME NEW a \in Int, NEW b \in Int, NEW n \in Nat, n > 0
  PROVE  ((a % n) - (b % n)) % n = (a - b) % n
<1> DEFINE p == a \div n
           r == a % n
           q == b \div n
           s == b % n
<1>1. p \in Int /\ r \in 0..(n - 1) /\ a = p * n + r
  BY DivMod
<1>2. q \in Int /\ s \in 0..(n - 1) /\ b = q * n + s
  BY DivMod
<1> HIDE DEF p, r, q, s
<1> DEFINE x == a - b
           y == r - s
           z == p - q
<1>3. x = y + z * n /\ y \in Int /\ x \in Int /\ z \in Int
  BY <1>1, <1>2
<1>4. x % n = y % n
  <2> HIDE DEF x, y, z
  <2> QED  BY <1>3, ModSame
<1> QED  BY <1>4 DEF r, s

\* The numbers of the model.
LEMMA Numbers ==
  /\ ClockMod \in Nat /\ ClockMod > 0 /\ Half \in Nat /\ ClockMod = 2 * Half
  /\ Count \in Nat /\ MaxPause \in Nat /\ MaxLag \in Nat /\ LongestCheck \in Nat
  /\ LongestCheck = MaxLag * Count /\ Overdue \in Nat
  /\ MEMP_NUM_SYS_TIMEOUT \in Nat /\ MEMP_NUM_SYS_TIMEOUT >= Count
<1>1. Len(lwip_cyclic_timers) \in Nat /\ MaxLag \in Nat /\ MaxPause \in Nat
  BY TimeoutsAssumption, LenProperties
<1>2. Count \in Nat /\ MEMP_NUM_SYS_TIMEOUT >= Count /\ MEMP_NUM_SYS_TIMEOUT \in Nat
  BY <1>1, TimeoutsAssumption DEF Count
<1>3. LongestCheck = MaxLag * Count
  BY DEF LongestCheck, Count
<1>4. LongestCheck \in Nat
  <2> HIDE DEF LongestCheck, Count
  <2> QED  BY <1>1, <1>2, <1>3
<1>5. ClockMod \in Nat /\ Half \in Nat /\ ClockMod = 2 * Half
  BY TimeoutsAssumption DEF Half
<1>6. "tcp" \in Timers /\ Interval["tcp"] \in 1..(ClockMod \div 4)
  BY TimeoutsAssumption DEF Timers
<1>7. ClockMod > 0
  BY <1>5, <1>6
<1>8. Overdue \in Nat
  BY <1>1, <1>4 DEF Overdue
<1> QED  BY <1>1, <1>2, <1>3, <1>4, <1>5, <1>7, <1>8

\* What is assumed of a period.
LEMMA Periods ==
  ASSUME NEW h \in Timers
  PROVE  Interval[h] \in Nat /\ Interval[h] > 0 /\ Interval[h] + Overdue < Half
<1>1. Interval[h] \in 1..(ClockMod \div 4)
      /\ Interval[h] + MaxPause + 2 * LongestCheck < ClockMod \div 2
  BY TimeoutsAssumption
<1>2. Interval[h] \in Nat /\ Interval[h] > 0
  BY <1>1, TimeoutsAssumption
<1> QED  BY <1>1, <1>2, Numbers DEF Half, Overdue

\* TIME_LESS_THAN compares two times rightly that are less than half a turn apart.
LEMMA TimeCompared ==
  ASSUME NEW now \in Int, NEW a \in Int, NEW b \in Int, a - b < Half, b - a < Half
  PROVE  TimeLessThan((now + a) % ClockMod, (now + b) % ClockMod) <=> a < b
<1> DEFINE d == (((now + a) % ClockMod) - ((now + b) % ClockMod)) % ClockMod
<1>1. d = (a - b) % ClockMod
  <2> DEFINE x == now + a
             y == now + b
  <2>1. x \in Int /\ y \in Int /\ x - y = a - b
    OBVIOUS
  <2>2. d = (x - y) % ClockMod
    <3>1. d = ((x % ClockMod) - (y % ClockMod)) % ClockMod
      OBVIOUS
    <3>2. ClockMod \in Nat /\ ClockMod > 0
      BY Numbers
    <3> HIDE DEF x, y, d
    <3>3. ((x % ClockMod) - (y % ClockMod)) % ClockMod = (x - y) % ClockMod
      BY <2>1, <3>2, ModSub
    <3> QED  BY <3>1, <3>3
  <2> HIDE DEF x, y, d
  <2> QED  BY <2>1, <2>2
<1>2. TimeLessThan((now + a) % ClockMod, (now + b) % ClockMod) <=> d > Half - 1
  BY Zenon DEF TimeLessThan, Half
<1> HIDE DEF d
<1>3. CASE a < b
  <2>1. (a - b) + ClockMod \in 0..(ClockMod - 1) /\ a - b = (-1) * ClockMod + ((a - b) + ClockMod)
    BY <1>3, Numbers
  <2>2. d = (a - b) + ClockMod
    BY <1>1, <2>1, Numbers, ModIs
  <2> QED  BY <1>2, <1>3, <2>2, Numbers
<1>4. CASE ~(a < b)
  <2>1. a - b \in 0..(ClockMod - 1) /\ a - b = 0 * ClockMod + (a - b)
    BY <1>4, Numbers
  <2>2. d = a - b
    BY <1>1, <2>1, Numbers, ModIs
  <2> QED  BY <1>2, <1>4, <2>2, Numbers
<1> QED  BY <1>3, <1>4

-----------------------------------------------------------------------------
(* Lists *)

\* Every set of naturals that is not empty has a least member.
LEMMA LeastOf ==
  ASSUME NEW S, S \subseteq Nat, S # {}
  PROVE  \E x \in S : \A y \in S : x <= y
<1> DEFINE R == {p \in Nat \X Nat : p[1] < p[2]}
<1>1. IsWellFoundedOn(R, Nat)
  BY NatLessThanWellFounded, Zenon DEF OpToRel
<1>2. \E a \in S : \A b \in S : ~(<<b, a>> \in R)
  <2> HIDE DEF R
  <2> QED  BY <1>1, WFMin
<1>3. PICK x \in S : \A b \in S : ~(<<b, x>> \in R)
  BY <1>2
<1>4. ASSUME NEW y \in S PROVE x <= y
  <2>1. ~(y < x)
    BY <1>3
  <2>2. x \in Nat /\ y \in Nat
    OBVIOUS
  <2> QED  BY <2>1, <2>2
<1> QED  BY <1>4

\* r is the list l with t at the place k.
Placed(r, l, t, k) ==
  /\ Len(r) = Len(l) + 1
  /\ \A i \in 1..(Len(l) + 1) : r[i] = IF i < k THEN l[i] ELSE IF i = k THEN t ELSE l[i - 1]

\* Append places at the end.
LEMMA AppendPlaces ==
  ASSUME NEW S, NEW l \in Seq(S), NEW t \in S
  PROVE  Append(l, t) \in Seq(S) /\ Placed(Append(l, t), l, t, Len(l) + 1)
<1>1. Len(l) \in Nat
  BY LenProperties
<1> QED  BY <1>1, AppendProperties DEF Placed

InsertAt(l, k, t) == SubSeq(l, 1, k - 1) \o <<t>> \o SubSeq(l, k, Len(l))

\* A timeout put between two parts of the list is where they met.
LEMMA InsertAtPlaces ==
  ASSUME NEW S, NEW l \in Seq(S), NEW t \in S, NEW k \in 1..Len(l)
  PROVE  InsertAt(l, k, t) \in Seq(S) /\ Placed(InsertAt(l, k, t), l, t, k)
<1> DEFINE a == SubSeq(l, 1, k - 1)
           b == SubSeq(l, k, Len(l))
           c == a \o <<t>>
           n == Len(l)
<1>1. n \in Nat /\ \A i \in 1..n : l[i] \in S
  BY LenProperties, ElementOfSeq
<1>2. a \in Seq(S) /\ Len(a) = k - 1 /\ \A i \in 1..(k - 1) : a[i] = l[i]
  <2>1. \A i \in 1..(k - 1) : l[i] \in S
    BY <1>1
  <2>2. /\ a \in Seq(S) /\ Len(a) = IF 1 <= k - 1 THEN (k - 1) - 1 + 1 ELSE 0
        /\ \A i \in 1..((k - 1) - 1 + 1) : a[i] = l[1 + i - 1]
    BY <2>1, SubSeqProperties
  <2> HIDE DEF a
  <2> QED  BY <2>2, <1>1
<1>3. b \in Seq(S) /\ Len(b) = n - k + 1 /\ \A i \in 1..(n - k + 1) : b[i] = l[k + i - 1]
  <2>1. \A i \in k..n : l[i] \in S
    BY <1>1
  <2>2. /\ b \in Seq(S) /\ Len(b) = IF k <= n THEN n - k + 1 ELSE 0
        /\ \A i \in 1..(n - k + 1) : b[i] = l[k + i - 1]
    BY <2>1, <1>1, SubSeqProperties
  <2> HIDE DEF b
  <2> QED  BY <2>2, <1>1
<1>4. <<t>> \in Seq(S) /\ Len(<<t>>) = 1 /\ <<t>>[1] = t
  OBVIOUS
<1>5. c \in Seq(S) /\ Len(c) = k /\ \A i \in 1..k : c[i] = IF i < k THEN l[i] ELSE t
  <2> DEFINE u == <<t>>
  <2>1. u \in Seq(S) /\ Len(u) = 1 /\ u[1] = t
    BY <1>4
  <2> HIDE DEF a, u
  <2>2. /\ a \o u \in Seq(S) /\ Len(a \o u) = Len(a) + Len(u)
        /\ \A i \in 1..(Len(a) + Len(u)) :
              (a \o u)[i] = IF i <= Len(a) THEN a[i] ELSE u[i - Len(a)]
    BY <1>2, <2>1, ConcatProperties
  <2>3. Len(a \o u) = k
    BY <1>2, <2>1, <2>2
  <2>4. ASSUME NEW i \in 1..k PROVE (a \o u)[i] = IF i < k THEN l[i] ELSE t
    <3>1. i \in 1..(Len(a) + Len(u)) /\ (i <= Len(a) <=> i < k)
      BY <1>2, <2>1
    <3>2. (a \o u)[i] = IF i <= Len(a) THEN a[i] ELSE u[i - Len(a)]
      BY <3>1, <2>2
    <3>3. i < k => a[i] = l[i]
      BY <1>2
    <3>4. ~(i < k) => i - Len(a) = 1
      BY <1>2
    <3> QED  BY <3>1, <3>2, <3>3, <3>4, <2>1
  <2> QED  BY <2>2, <2>3, <2>4 DEF u
<1>6. InsertAt(l, k, t) = c \o b
  BY DEF InsertAt
<1> HIDE DEF b, c
<1>7. /\ c \o b \in Seq(S) /\ Len(c \o b) = Len(c) + Len(b)
      /\ \A i \in 1..(Len(c) + Len(b)) :
            (c \o b)[i] = IF i <= Len(c) THEN c[i] ELSE b[i - Len(c)]
  BY <1>3, <1>5, ConcatProperties
<1>8. Len(c \o b) = n + 1
  BY <1>1, <1>3, <1>5, <1>7
<1>9. ASSUME NEW i \in 1..(n + 1)
      PROVE  (c \o b)[i] = IF i < k THEN l[i] ELSE IF i = k THEN t ELSE l[i - 1]
  <2>1. i \in 1..(Len(c) + Len(b))
    BY <1>1, <1>3, <1>5
  <2>2. CASE i <= k
    <3>1. (c \o b)[i] = c[i]
      BY <2>1, <2>2, <1>5, <1>7
    <3> QED  BY <3>1, <2>2, <1>1, <1>5
  <2>3. CASE i > k
    <3>1. (c \o b)[i] = b[i - k]
      BY <2>1, <2>3, <1>5, <1>7
    <3>2. i - k \in 1..(n - k + 1)
      BY <2>3, <1>1
    <3>3. b[i - k] = l[k + (i - k) - 1] /\ k + (i - k) - 1 = i - 1
      BY <3>2, <1>3, <1>1
    <3>4. ~(i < k) /\ i # k
      BY <2>3, <1>1
    <3> QED  BY <3>1, <3>3, <3>4
  <2>4. i <= k \/ i > k
    BY <1>1
  <2> QED  BY <2>2, <2>3, <2>4
<1> QED  BY <1>6, <1>7, <1>8, <1>9 DEF Placed

\* The members of a list of timeouts.
LEMMA Member ==
  ASSUME NEW l \in Seq(Entry)
  PROVE  /\ Len(l) \in Nat
         /\ \A i \in 1..Len(l) :
              /\ l[i] \in Entry /\ l[i] \in Elems(l)
              /\ l[i].left \in Int /\ l[i].h \in Timers /\ l[i].time \in 0..(ClockMod - 1)
         /\ \A e \in Elems(l) : e \in Entry /\ \E i \in 1..Len(l) : e = l[i]
<1>1. Len(l) \in Nat /\ \A i \in 1..Len(l) : l[i] \in Entry
  BY LenProperties, ElementOfSeq
<1>2. \A e \in Entry : e.left \in Int /\ e.h \in Timers /\ e.time \in 0..(ClockMod - 1)
  BY DEF Entry
<1> QED  BY <1>1, <1>2 DEF Elems

\* sys_timeout_abs puts a timeout behind those that are due no later and in front of the
\* others.
LEMMA InsertIs ==
  ASSUME NEW l, NEW now \in Int, Fits(l, now), NEW t \in Entry,
         t.time = (now + t.left) % ClockMod,
         \A e \in Elems(l) : e.left - t.left < Half /\ t.left - e.left < Half,
         Len(l) # MEMP_NUM_SYS_TIMEOUT
  PROVE  /\ Insert(l, t) \in Seq(Entry)
         /\ \E k \in 1..(Len(l) + 1) :
              /\ Placed(Insert(l, t), l, t, k)
              /\ \A i \in 1..Len(l) :
                   IF i < k THEN l[i].left <= t.left ELSE t.left <= l[i].left
<1> DEFINE later == {i \in 1..Len(l) : TimeLessThan(t.time, l[i].time)}
           first == CHOOSE i \in later : \A j \in later : i <= j
<1>1. l \in Seq(Entry) /\ t.left \in Int
  BY DEF Fits, Entry
<1>2. Len(l) \in Nat /\ \A i \in 1..Len(l) : l[i] \in Elems(l) /\ l[i].left \in Int
  BY <1>1, Member
<1>3. ASSUME NEW i \in 1..Len(l) PROVE i \in later <=> t.left < l[i].left
  <2>1. l[i].time = (now + l[i].left) % ClockMod
    BY <1>2 DEF Fits
  <2>2. t.left - l[i].left < Half /\ l[i].left - t.left < Half
    BY <1>2
  <2>3. TimeLessThan((now + t.left) % ClockMod, (now + l[i].left) % ClockMod)
        <=> t.left < l[i].left
    BY <1>1, <1>2, <2>2, TimeCompared
  <2> QED  BY <2>1, <2>3
<1>4. Insert(l, t) = IF later = {} THEN Append(l, t) ELSE InsertAt(l, first, t)
  BY DEF Insert, InsertAt
<1>5. later \subseteq 1..Len(l)
  OBVIOUS
<1>6. CASE later = {}
  <2>1. Insert(l, t) \in Seq(Entry) /\ Placed(Insert(l, t), l, t, Len(l) + 1)
    BY <1>1, <1>4, <1>6, AppendPlaces
  <2>2. ASSUME NEW i \in 1..Len(l)
        PROVE  IF i < Len(l) + 1 THEN l[i].left <= t.left ELSE t.left <= l[i].left
    <3>1. ~(t.left < l[i].left)
      BY <1>3, <1>6
    <3> HIDE DEF later
    <3> QED  BY <3>1, <1>1, <1>2
  <2>3. Len(l) + 1 \in 1..(Len(l) + 1)
    BY <1>2
  <2> QED  BY <2>1, <2>2, <2>3
<1>7. CASE later # {}
  <2>1. \E i \in later : \A j \in later : i <= j
    <3>1. later \subseteq Nat
      BY <1>2
    <3> HIDE DEF later
    <3> QED  BY <3>1, <1>7, LeastOf
  <2>2. first \in later /\ \A j \in later : first <= j
    <3> HIDE DEF later
    <3> QED  BY <2>1
  <2> HIDE DEF later, first
  <2>3. first \in 1..Len(l) /\ first \in 1..(Len(l) + 1)
    BY <2>2, <1>5, <1>2
  <2>4. Insert(l, t) \in Seq(Entry) /\ Placed(Insert(l, t), l, t, first)
    BY <1>1, <1>4, <1>7, <2>3, InsertAtPlaces
  <2>5. ASSUME NEW i \in 1..Len(l)
        PROVE  IF i < first THEN l[i].left <= t.left ELSE t.left <= l[i].left
    <3>1. CASE i < first
      <4>1. ~(i \in later)
        BY <2>2, <2>3, <3>1
      <4> QED  BY <3>1, <4>1, <1>1, <1>2, <1>3
    <3>2. CASE ~(i < first)
      <4>1. t.left < l[first].left
        BY <2>2, <2>3, <1>3
      <4>2. l[first].left <= l[i].left
        <5>1. first < i => l[first].left <= l[i].left
          BY <2>3 DEF Fits
        <5>2. first < i \/ first = i
          BY <2>3, <3>2
        <5> QED  BY <5>1, <5>2, <1>2, <2>3
      <4> QED  BY <3>2, <4>1, <4>2, <1>1, <1>2, <2>3
    <3> QED  BY <3>1, <3>2
  <2> QED  BY <2>3, <2>4, <2>5
<1> QED  BY <1>6, <1>7

\* A timer that is not in the list is entered in its place.
LEMMA InsertFits ==
  ASSUME NEW l, NEW now \in Int, Fits(l, now), NEW t \in Entry,
         t.time = (now + t.left) % ClockMod, t.left <= Interval[t.h],
         \A e \in Elems(l) : e.left - t.left < Half /\ t.left - e.left < Half,
         Len(l) # MEMP_NUM_SYS_TIMEOUT, ~Has(Elems(l), t.h)
  PROVE  Fits(Insert(l, t), now) /\ Elems(Insert(l, t)) = Elems(l) \cup {t}
<1> DEFINE r == Insert(l, t)
           n == Len(l)
<1>1. /\ r \in Seq(Entry)
      /\ \E k \in 1..(n + 1) :
           /\ Placed(r, l, t, k)
           /\ \A i \in 1..n : IF i < k THEN l[i].left <= t.left ELSE t.left <= l[i].left
  BY InsertIs
<1> HIDE DEF r
<1>2. PICK k \in 1..(n + 1) :
           /\ Placed(r, l, t, k)
           /\ \A i \in 1..n : IF i < k THEN l[i].left <= t.left ELSE t.left <= l[i].left
  BY <1>1
<1>3. l \in Seq(Entry) /\ t.left \in Int
  BY DEF Fits, Entry
<1>4. n \in Nat /\ \A i \in 1..n : l[i] \in Elems(l) /\ l[i].left \in Int
  BY <1>3, Member
<1>5. \A e \in Elems(l) : \E i \in 1..n : e = l[i]
  BY DEF Elems
<1>6. /\ \A i, j \in 1..n : i < j => l[i].left <= l[j].left
      /\ \A i, j \in 1..n : l[i].h = l[j].h => i = j
      /\ \A e \in Elems(l) : e.time = (now + e.left) % ClockMod /\ e.left <= Interval[e.h]
  BY DEF Fits
<1>7. Len(r) = n + 1
      /\ \A i \in 1..(n + 1) : r[i] = IF i < k THEN l[i] ELSE IF i = k THEN t ELSE l[i - 1]
  BY <1>2 DEF Placed
<1>8. ASSUME NEW i \in 1..(n + 1) PROVE
         \/ i < k /\ i \in 1..n /\ r[i] = l[i]
         \/ i = k /\ r[i] = t
         \/ i > k /\ i - 1 \in 1..n /\ i - 1 >= k /\ r[i] = l[i - 1]
  BY <1>4, <1>7
<1>9. \A i \in 1..n : l[i].h # t.h
  BY <1>4 DEF Has
<1>10. ASSUME NEW i \in 1..n PROVE \E j \in 1..(n + 1) : r[j] = l[i]
  <2>1. CASE i < k
    BY <2>1, <1>4, <1>7
  <2>2. CASE ~(i < k)
    <3>1. i + 1 \in 1..(n + 1) /\ ~(i + 1 < k) /\ i + 1 # k /\ (i + 1) - 1 = i
      BY <2>2, <1>4
    <3>2. r[i + 1] = l[i]
      BY <3>1, <1>7
    <3> QED  BY <3>1, <3>2
  <2> QED  BY <2>1, <2>2
<1>11. Elems(r) = Elems(l) \cup {t}
  <2>1. ASSUME NEW e \in Elems(r) PROVE e \in Elems(l) \cup {t}
    <3>1. PICK i \in 1..(n + 1) : e = r[i]
      BY <1>7 DEF Elems
    <3> QED  BY <3>1, <1>8, <1>4
  <2>2. t \in Elems(r)
    BY <1>7, <1>4 DEF Elems
  <2>3. ASSUME NEW e \in Elems(l) PROVE e \in Elems(r)
    <3>1. PICK i \in 1..n : e = l[i]
      BY <1>5
    <3>2. PICK j \in 1..(n + 1) : r[j] = l[i]
      BY <1>10
    <3> QED  BY <3>1, <3>2, <1>7 DEF Elems
  <2> QED  BY <2>1, <2>2, <2>3
<1>12. \A e \in Elems(r) : e.time = (now + e.left) % ClockMod /\ e.left <= Interval[e.h]
  BY <1>11, <1>6
<1>13. ASSUME NEW i \in 1..(n + 1), NEW j \in 1..(n + 1), i < j
       PROVE  r[i].left <= r[j].left
  <2>1. CASE i < k /\ j < k
    BY <2>1, <1>4, <1>6, <1>8, <1>13
  <2>2. CASE i < k /\ j = k
    BY <2>2, <1>2, <1>4, <1>8
  <2>3. CASE i < k /\ j > k
    <3>1. i \in 1..n /\ r[i] = l[i] /\ j - 1 \in 1..n /\ r[j] = l[j - 1] /\ ~(j - 1 < k)
      BY <2>3, <1>4, <1>8
    <3>2. l[i].left <= t.left /\ t.left <= l[j - 1].left
      BY <3>1, <2>3, <1>2
    <3>3. l[i].left \in Int /\ l[j - 1].left \in Int
      BY <3>1, <1>4
    <3>4. l[i].left <= l[j - 1].left
      BY <3>2, <3>3, <1>3
    <3> QED  BY <3>1, <3>4
  <2>4. CASE i = k
    <3>1. r[i] = t /\ j - 1 \in 1..n /\ r[j] = l[j - 1] /\ ~(j - 1 < k)
      BY <2>4, <1>4, <1>8, <1>13
    <3> QED  BY <3>1, <1>2
  <2>5. CASE i > k
    <3>1. i - 1 \in 1..n /\ j - 1 \in 1..n /\ r[i] = l[i - 1] /\ r[j] = l[j - 1] /\ i - 1 < j - 1
      BY <2>5, <1>4, <1>8, <1>13
    <3> QED  BY <3>1, <1>6
  <2>6. (i < k \/ i = k \/ i > k) /\ (j < k \/ j = k \/ j > k)
    BY <1>4
  <2> QED  BY <2>1, <2>2, <2>3, <2>4, <2>5, <2>6
<1>14. ASSUME NEW i \in 1..(n + 1), NEW j \in 1..(n + 1), r[i].h = r[j].h
       PROVE  i = j
  <2>1. \A m \in 1..(n + 1) : m # k => r[m].h # t.h
    BY <1>8, <1>9
  <2>2. r[k] = t
    BY <1>4, <1>7
  <2>3. CASE i = k \/ j = k
    BY <2>1, <2>2, <2>3, <1>14
  <2>4. CASE i # k /\ j # k
    <3> DEFINE from(m) == IF m < k THEN m ELSE m - 1
    <3>1. \A m \in 1..(n + 1) : m # k => from(m) \in 1..n /\ r[m] = l[from(m)]
      BY <1>4, <1>8
    <3>2. from(i) \in 1..n /\ from(j) \in 1..n /\ l[from(i)].h = l[from(j)].h
      <4> HIDE DEF from
      <4> QED  BY <3>1, <2>4, <1>14
    <3>3. from(i) = from(j)
      <4> HIDE DEF from
      <4> QED  BY <3>2, <1>6
    <3> QED  BY <3>3, <2>4, <1>4
  <2> QED  BY <2>3, <2>4
<1>15. Fits(r, now)
  BY <1>1, <1>7, <1>12, <1>13, <1>14 DEF Fits
<1> QED  BY <1>11, <1>15 DEF r

Less(e, d) == [e EXCEPT !.left = @ - d]

\* What the passing of time changes in a timeout.
LEMMA LessIs ==
  ASSUME NEW e \in Entry, NEW d \in Int
  PROVE  /\ Less(e, d) \in Entry /\ Less(e, d).h = e.h /\ Less(e, d).time = e.time
         /\ Less(e, d).left = e.left - d /\ e.left \in Int
BY DEF Less, Entry

\* The list still fits when time has passed.
LEMMA ElapseFits ==
  ASSUME NEW l, NEW now \in Int, NEW d \in Nat, Fits(l, now)
  PROVE  /\ Fits(Elapse(l, d), (now + d) % ClockMod)
         /\ Elems(Elapse(l, d)) = {Less(e, d) : e \in Elems(l)}
         /\ Len(Elapse(l, d)) = Len(l)
<1> DEFINE r == Elapse(l, d)
           n == Len(l)
<1>1. l \in Seq(Entry) /\ n \in Nat
  BY LenProperties DEF Fits
<1>2. \A i \in 1..n : l[i] \in Entry /\ l[i] \in Elems(l) /\ l[i].left \in Int
  BY <1>1, Member
<1>3. r = [i \in 1..n |-> Less(l[i], d)]
  BY DEF Elapse, Less
<1>4. \A i \in 1..n : Less(l[i], d) \in Entry
  BY <1>2, LessIs
<1>5. r \in Seq(Entry) /\ Len(r) = n /\ \A i \in 1..n : r[i] = Less(l[i], d)
  <2> HIDE DEF r
  <2> QED  BY <1>1, <1>3, <1>4
<1> HIDE DEF r
<1>6. Elems(r) = {Less(e, d) : e \in Elems(l)}
  BY <1>5 DEF Elems
<1>7. ASSUME NEW e \in Elems(r)
      PROVE  e.time = (((now + d) % ClockMod) + e.left) % ClockMod /\ e.left <= Interval[e.h]
  <2>1. PICK f \in Elems(l) : e = Less(f, d)
    BY <1>6
  <2>2. f \in Entry
    BY <1>1, Member
  <2>3. f.time = (now + f.left) % ClockMod /\ f.left <= Interval[f.h]
    BY DEF Fits
  <2>4. e.h = f.h /\ e.time = f.time /\ e.left = f.left - d /\ f.left \in Int /\ f.h \in Timers
    BY <2>1, <2>2, LessIs DEF Entry
  <2>5. Interval[f.h] \in Nat
    BY <2>4, Periods
  <2>6. e.left <= Interval[e.h]
    BY <2>3, <2>4, <2>5
  <2> DEFINE x == now + d
             y == f.left - d
  <2>7. x \in Int /\ y \in Int /\ x + y = now + f.left
    BY <2>4
  <2>8. ((x % ClockMod) + y) % ClockMod = (x + y) % ClockMod
    <3> HIDE DEF x, y
    <3> QED  BY <2>7, Numbers, ModAdd
  <2>9. e.time = ((x % ClockMod) + y) % ClockMod
    <3> HIDE DEF x, y
    <3> QED  BY <2>3, <2>4, <2>7, <2>8
  <2> QED  BY <2>4, <2>6, <2>9
<1>8. ASSUME NEW i \in 1..n PROVE r[i].left = l[i].left - d /\ r[i].h = l[i].h
  <2>1. l[i] \in Entry /\ d \in Int /\ r[i] = Less(l[i], d)
    BY <1>2, <1>5
  <2> QED  BY <2>1, LessIs
<1>9. ASSUME NEW i \in 1..n, NEW j \in 1..n, i < j PROVE r[i].left <= r[j].left
  <2>1. l[i].left <= l[j].left
    BY <1>9 DEF Fits
  <2>2. r[i].left = l[i].left - d /\ r[j].left = l[j].left - d
    BY <1>8
  <2> QED  BY <2>1, <2>2, <1>2
<1>10. ASSUME NEW i \in 1..n, NEW j \in 1..n, r[i].h = r[j].h PROVE i = j
  <2>1. l[i].h = l[j].h
    BY <1>10, <1>8
  <2> QED  BY <2>1 DEF Fits
<1>11. Fits(r, (now + d) % ClockMod)
  BY <1>5, <1>7, <1>9, <1>10 DEF Fits
<1> QED  BY <1>5, <1>6, <1>11 DEF r

\* The list without its first timeout, which is the first that is due.
LEMMA TailFits ==
  ASSUME NEW l, NEW now, Fits(l, now), l # <<>>
  PROVE  /\ Fits(Tail(l), now) /\ Head(l) \in Elems(l) /\ Head(l) \in Entry
         /\ Elems(l) = Elems(Tail(l)) \cup {Head(l)}
         /\ \A e \in Elems(Tail(l)) : e.h # Head(l).h
         /\ \A e \in Elems(l) : Head(l).left <= e.left
<1> DEFINE r == Tail(l)
           n == Len(l)
<1>1. l \in Seq(Entry) /\ n \in Nat
  BY LenProperties DEF Fits
<1>2. \A i \in 1..n : l[i] \in Entry /\ l[i] \in Elems(l) /\ l[i].left \in Int
  BY <1>1, Member
<1>3. n > 0 /\ Head(l) = l[1]
  BY <1>1
<1>4. r \in Seq(Entry) /\ Len(r) = n - 1 /\ \A i \in 1..(n - 1) : r[i] = l[i + 1]
  BY <1>1, HeadTailProperties
<1> HIDE DEF r
<1>5. \A i \in 1..(n - 1) : i + 1 \in 1..n
  BY <1>1
<1>6. /\ \A i, j \in 1..n : i < j => l[i].left <= l[j].left
      /\ \A i, j \in 1..n : l[i].h = l[j].h => i = j
      /\ \A e \in Elems(l) : e.time = (now + e.left) % ClockMod /\ e.left <= Interval[e.h]
  BY DEF Fits
<1>7. Elems(l) = Elems(r) \cup {Head(l)}
  <2>1. ASSUME NEW e \in Elems(l) PROVE e \in Elems(r) \cup {Head(l)}
    <3>1. PICK i \in 1..n : e = l[i]
      BY DEF Elems
    <3>2. CASE i = 1
      BY <3>1, <3>2, <1>3
    <3>3. CASE i # 1
      <4>1. i - 1 \in 1..(n - 1) /\ (i - 1) + 1 = i
        BY <3>3, <1>1
      <4>2. r[i - 1] = l[i]
        BY <4>1, <1>4
      <4> QED  BY <4>1, <4>2, <3>1, <1>4 DEF Elems
    <3> QED  BY <3>2, <3>3
  <2>2. ASSUME NEW e \in Elems(r) PROVE e \in Elems(l)
    <3>1. PICK i \in 1..(n - 1) : e = r[i]
      BY <1>4 DEF Elems
    <3> QED  BY <3>1, <1>2, <1>4, <1>5
  <2>3. Head(l) \in Elems(l)
    BY <1>1, <1>2, <1>3
  <2> QED  BY <2>1, <2>2, <2>3
<1>8. ASSUME NEW e \in Elems(r) PROVE e.h # Head(l).h
  <2>1. PICK i \in 1..(n - 1) : e = r[i]
    BY <1>4 DEF Elems
  <2>2. i + 1 \in 1..n /\ i + 1 # 1 /\ e = l[i + 1] /\ 1 \in 1..n
    BY <2>1, <1>1, <1>3, <1>4, <1>5
  <2> QED  BY <2>2, <1>3, <1>6
<1>9. ASSUME NEW e \in Elems(l) PROVE Head(l).left <= e.left
  <2>1. PICK i \in 1..n : e = l[i]
    BY DEF Elems
  <2>2. 1 \in 1..n /\ (i = 1 \/ 1 < i)
    BY <1>1, <1>3
  <2> QED  BY <2>1, <2>2, <1>2, <1>3, <1>6
<1>10. ASSUME NEW i \in 1..(n - 1), NEW j \in 1..(n - 1), i < j PROVE r[i].left <= r[j].left
  <2>1. i + 1 \in 1..n /\ j + 1 \in 1..n /\ i + 1 < j + 1
    BY <1>1, <1>10
  <2> QED  BY <2>1, <1>4, <1>6
<1>11. ASSUME NEW i \in 1..(n - 1), NEW j \in 1..(n - 1), r[i].h = r[j].h PROVE i = j
  <2>1. i + 1 \in 1..n /\ j + 1 \in 1..n /\ l[i + 1].h = l[j + 1].h
    BY <1>4, <1>5, <1>11
  <2>2. i + 1 = j + 1
    BY <2>1, <1>6
  <2> QED  BY <2>2, <1>1
<1>12. Fits(r, now)
  BY <1>4, <1>6, <1>7, <1>10, <1>11 DEF Fits
<1>13. Head(l) \in Elems(l) /\ Head(l) \in Entry
  BY <1>1, <1>2, <1>3
<1> QED  BY <1>7, <1>8, <1>9, <1>12, <1>13 DEF r

-----------------------------------------------------------------------------
(* Places for all timers *)

\* There are as many timers as there are places for.
LEMMA TimersCounted ==
  IsFiniteSet(Timers) /\ Cardinality(Timers) = Count
<1> DEFINE n == Len(lwip_cyclic_timers)
           f == [k \in 1..n |-> lwip_cyclic_timers[k]]
<1>1. n \in Nat
  BY TimeoutsAssumption, LenProperties
<1>2. f \in Bijection(1..n, Cyclic)
  <2>1. f \in [1..n -> Cyclic]
    BY DEF Cyclic
  <2>2. \A a, b \in 1..n : f[a] = f[b] => a = b
    BY TimeoutsAssumption
  <2>3. \A c \in Cyclic : \E a \in 1..n : f[a] = c
    BY DEF Cyclic
  <2> HIDE DEF f, n
  <2> QED  BY <2>1, <2>2, <2>3 DEF Bijection, Injection, Surjection, IsInjective
<1>3. ExistsBijection(1..n, Cyclic)
  BY <1>2 DEF ExistsBijection
<1>4. IsFiniteSet(1..n) /\ Cardinality(Cyclic) = n
  BY <1>1, <1>3, FS_CountingElements, FS_Interval
<1>5. IsFiniteSet(Cyclic)
  BY <1>3, <1>4, FS_Bijection
<1>6. "tcp" \notin Cyclic
  BY TimeoutsAssumption
<1>7. /\ IsFiniteSet(Cyclic \cup {"tcp"})
      /\ Cardinality(Cyclic \cup {"tcp"})
           = IF "tcp" \in Cyclic THEN Cardinality(Cyclic) ELSE Cardinality(Cyclic) + 1
  BY <1>5, FS_AddElement
<1> QED  BY <1>4, <1>6, <1>7 DEF Timers, Count

\* The pool is not used up while a timer is missing from the list.
LEMMA Room ==
  ASSUME NEW l, NEW now, Fits(l, now), NEW h \in Timers, ~Has(Elems(l), h)
  PROVE  Len(l) # MEMP_NUM_SYS_TIMEOUT
<1> DEFINE n == Len(l)
           f == [i \in 1..n |-> l[i].h]
           T == Timers \ {h}
<1>1. l \in Seq(Entry) /\ n \in Nat
  BY LenProperties DEF Fits
<1>2. \A i \in 1..n : l[i] \in Elems(l) /\ l[i].h \in Timers
  BY <1>1, Member
<1>3. f \in Injection(1..n, T)
  <2>1. f \in [1..n -> T]
    BY <1>2 DEF Has
  <2>2. \A a, b \in 1..n : f[a] = f[b] => a = b
    BY DEF Fits
  <2> HIDE DEF f, n, T
  <2> QED  BY <2>1, <2>2 DEF Injection, IsInjective
<1>4. IsFiniteSet(T) /\ Cardinality(T) = Cardinality(Timers) - 1
  BY TimersCounted, FS_RemoveElement
<1> HIDE DEF f, T
<1>5. Cardinality(1..n) <= Cardinality(T)
  BY <1>3, <1>4, FS_Injection
<1>6. Cardinality(1..n) = n
  <2>1. Cardinality(1..n) = IF 1 > n THEN 0 ELSE n - 1 + 1
    BY <1>1, FS_Interval
  <2> QED  BY <2>1, <1>1
<1> HIDE DEF n
<1>7. n < Count
  BY <1>1, <1>4, <1>5, <1>6, TimersCounted, Numbers
<1> QED  BY <1>7, <1>1, Numbers DEF n

\* t is a timeout of h that is due left after the time now.
IsDue(t, now, h, left) ==
  t \in Entry /\ t.h = h /\ t.left = left /\ t.time = (now + left) % ClockMod

\* A new timeout.
LEMMA AtIs ==
  ASSUME NEW now \in Int, NEW h \in Timers, NEW left \in Int
  PROVE  IsDue(At(now, h, left), now, h, left)
<1>1. (now + left) % ClockMod \in 0..(ClockMod - 1)
  <2> DEFINE x == now + left
  <2>1. x \in Int
    OBVIOUS
  <2> HIDE DEF x
  <2>2. x % ClockMod \in 0..(ClockMod - 1)
    BY <2>1, Numbers, DivMod
  <2> QED  BY <2>2 DEF x
<1> QED  BY <1>1 DEF At, Entry, IsDue

\* A timer that is not in the list, and is due within its period, is entered in its place,
\* provided no timeout of the list is overdue by more than a pause and two checks.
LEMMA EnterFits ==
  ASSUME NEW l, NEW now \in Int, Fits(l, now), NEW t \in Entry,
         t.time = (now + t.left) % ClockMod, t.left >= 0, t.left <= Interval[t.h],
         NotBefore(Elems(l), - Overdue), ~Has(Elems(l), t.h)
  PROVE  Fits(Insert(l, t), now) /\ Elems(Insert(l, t)) = Elems(l) \cup {t}
<1>1. t.h \in Timers /\ t.left \in Int /\ l \in Seq(Entry)
  BY DEF Entry, Fits
<1>2. Len(l) # MEMP_NUM_SYS_TIMEOUT
  BY <1>1, Room
<1>3. ASSUME NEW e \in Elems(l) PROVE e.left - t.left < Half /\ t.left - e.left < Half
  <2>1. e.left \in Int /\ e.h \in Timers
    BY <1>1, Member DEF Entry
  <2>2. e.left <= Interval[e.h] /\ e.left > - Overdue
    BY DEF Fits, NotBefore
  <2>3. Interval[e.h] \in Nat /\ Interval[e.h] + Overdue < Half
    BY <2>1, Periods
  <2>4. Interval[t.h] \in Nat /\ Interval[t.h] + Overdue < Half
    BY <1>1, Periods
  <2>5. Overdue \in Nat /\ Half \in Nat
    BY Numbers
  <2> DEFINE p == Interval[e.h]
             q == Interval[t.h]
             x == e.left
             y == t.left
  <2>6. /\ x \in Int /\ y \in Int /\ p \in Nat /\ q \in Nat
        /\ x <= p /\ x > - Overdue /\ y >= 0 /\ y <= q
        /\ p + Overdue < Half /\ q + Overdue < Half
    BY <1>1, <2>1, <2>2, <2>3, <2>4
  <2> HIDE DEF p, q, x, y
  <2>7. x - y < Half /\ y - x < Half
    BY <2>5, <2>6
  <2> QED  BY <2>7 DEF x, y
<1> QED  BY <1>2, <1>3, InsertFits

-----------------------------------------------------------------------------
(* sys_timeouts_init *)

StartNext(l, k) ==
  LET h == lwip_cyclic_timers[k] IN Insert(l, At(clock, h, Interval[h]))

Starts(f, k) == f = [n \in 0..k |-> IF n = 0 THEN <<>> ELSE StartNext(f[n - 1], n)]

\* The recursion that defines Started has a solution of every length.
LEMMA StartsExist ==
  ASSUME NEW k \in Nat
  PROVE  \E f : Starts(f, k)
<1> SUFFICES ASSUME ~\E f : Starts(f, k) PROVE FALSE
  OBVIOUS
<1> DEFINE Bad == {n \in Nat : ~\E f : Starts(f, n)}
<1>1. Bad \subseteq Nat /\ Bad # {}
  OBVIOUS
<1>2. PICK b \in Bad : \A y \in Bad : b <= y
  <2> HIDE DEF Bad
  <2> QED  BY <1>1, LeastOf
<1>3. b \in Nat /\ ~\E f : Starts(f, b)
  OBVIOUS
<1>4. CASE b = 0
  <2> DEFINE f == [n \in 0..0 |-> <<>>]
  <2>1. f = [n \in 0..0 |-> IF n = 0 THEN <<>> ELSE StartNext(f[n - 1], n)]
    OBVIOUS
  <2>2. Starts(f, 0)
    BY <2>1 DEF Starts
  <2> QED  BY <1>3, <1>4, <2>2
<1>5. CASE b # 0
  <2>1. b - 1 \in Nat /\ b - 1 \notin Bad
    BY <1>2, <1>3, <1>5
  <2>2. PICK f : Starts(f, b - 1)
    BY <2>1
  <2> DEFINE g == [n \in 0..b |-> IF n = b THEN StartNext(f[b - 1], b) ELSE f[n]]
  <2>3. \A n \in 0..(b - 1) : f[n] = IF n = 0 THEN <<>> ELSE StartNext(f[n - 1], n)
    BY <2>2 DEF Starts
  <2>4. ASSUME NEW n \in 0..b
        PROVE  g[n] = IF n = 0 THEN <<>> ELSE StartNext(g[n - 1], n)
    <3>1. CASE n = b
      <4>1. b - 1 \in 0..b /\ b - 1 # b
        BY <1>3, <1>5
      <4>2. g[b - 1] = f[b - 1]
        BY <4>1
      <4>3. g[b] = StartNext(f[b - 1], b)
        BY <1>3
      <4> QED  BY <1>5, <3>1, <4>2, <4>3
    <3>2. CASE n # b
      <4>1. n \in 0..(b - 1) /\ g[n] = f[n]
        BY <1>3, <3>2
      <4>2. CASE n = 0
        BY <2>3, <4>1, <4>2
      <4>3. CASE n # 0
        <5>1. n - 1 \in 0..b /\ n - 1 # b
          BY <1>3, <4>1, <4>3
        <5>2. g[n - 1] = f[n - 1]
          BY <5>1
        <5> QED  BY <2>3, <4>1, <4>3, <5>2
      <4> QED  BY <4>2, <4>3
    <3> QED  BY <3>1, <3>2
  <2>5. g = [n \in 0..b |-> g[n]]
    OBVIOUS
  <2> HIDE DEF g
  <2>6. g = [n \in 0..b |-> IF n = 0 THEN <<>> ELSE StartNext(g[n - 1], n)]
    BY <2>4, <2>5
  <2>7. Starts(g, b)
    BY <2>6 DEF Starts
  <2> QED  BY <1>3, <2>7
<1> QED  BY <1>4, <1>5

\* The list after k iterations holds the first k timers, each a whole period ahead.
StartedOK(l, k) ==
  /\ Fits(l, clock)
  /\ \A e \in Elems(l) : e.left > 0
  /\ \A h : Has(Elems(l), h) <=> \E j \in 1..k : h = lwip_cyclic_timers[j]

\* One iteration of sys_timeouts_init.
LEMMA StartNextOK ==
  ASSUME NEW l, NEW k \in Nat, k + 1 <= Len(lwip_cyclic_timers), clock \in Int,
         StartedOK(l, k)
  PROVE  StartedOK(StartNext(l, k + 1), k + 1)
<1> DEFINE h == lwip_cyclic_timers[k + 1]
           t == At(clock, h, Interval[h])
           r == Insert(l, t)
<1>1. Len(lwip_cyclic_timers) \in Nat
  BY TimeoutsAssumption, LenProperties
<1>2. k + 1 \in 1..Len(lwip_cyclic_timers) /\ 1..k \subseteq 1..Len(lwip_cyclic_timers)
  BY <1>1
<1>3. h \in Cyclic /\ h \in Timers
  BY <1>2 DEF Cyclic, Timers
<1>4. Interval[h] \in Nat /\ Interval[h] > 0
  BY <1>3, Periods
<1>5. ~\E j \in 1..k : h = lwip_cyclic_timers[j]
  BY <1>2, TimeoutsAssumption
<1> HIDE DEF h
<1>6. t \in Entry /\ t.h = h /\ t.left = Interval[h] /\ t.time = (clock + t.left) % ClockMod
  <2>1. Interval[h] \in Int
    BY <1>4
  <2>2. IsDue(t, clock, h, Interval[h])
    BY <1>3, <2>1, AtIs
  <2> HIDE DEF t
  <2> QED  BY <2>2 DEF IsDue
<1> HIDE DEF t
<1>7. ~Has(Elems(l), t.h)
  BY <1>5, <1>6 DEF StartedOK
<1>8. NotBefore(Elems(l), - Overdue)
  <2>1. l \in Seq(Entry)
    BY DEF StartedOK, Fits
  <2>2. \A e \in Elems(l) : e.left \in Int
    BY <2>1, Member DEF Entry
  <2> QED  BY <2>2, Numbers DEF StartedOK, NotBefore
<1>9. t.left >= 0 /\ t.left <= Interval[t.h] /\ t.left > 0
  BY <1>4, <1>6
<1>10. Fits(r, clock) /\ Elems(r) = Elems(l) \cup {t}
  BY <1>6, <1>7, <1>8, <1>9, EnterFits DEF StartedOK
<1>11. r = StartNext(l, k + 1)
  BY DEF StartNext, t, h
<1> HIDE DEF r
<1>12. \A e \in Elems(r) : e.left > 0
  BY <1>9, <1>10 DEF StartedOK
<1>13. ASSUME NEW g
       PROVE  Has(Elems(r), g) <=> \E j \in 1..(k + 1) : g = lwip_cyclic_timers[j]
  <2>1. Has(Elems(r), g) <=> Has(Elems(l), g) \/ g = h
    BY <1>6, <1>10 DEF Has
  <2>2. Has(Elems(l), g) <=> \E j \in 1..k : g = lwip_cyclic_timers[j]
    BY DEF StartedOK
  <2>3. 1..(k + 1) = (1..k) \cup {k + 1}
    OBVIOUS
  <2> QED  BY <2>1, <2>2, <2>3 DEF h
<1> QED  BY <1>10, <1>11, <1>12, <1>13 DEF StartedOK

\* sys_timeouts_init starts every cyclic timer once, in the order in which they are due.
LEMMA StartedAll ==
  ASSUME clock \in Int
  PROVE  StartedOK(Started[Len(lwip_cyclic_timers)], Len(lwip_cyclic_timers))
<1> DEFINE n == Len(lwip_cyclic_timers)
<1>1. n \in Nat
  BY TimeoutsAssumption, LenProperties
<1>2. Starts(Started, n)
  <2>1. \E f : Starts(f, n)
    BY <1>1, StartsExist
  <2>2. \E f : f = [k \in 0..n |-> IF k = 0 THEN <<>> ELSE StartNext(f[k - 1], k)]
    BY <2>1 DEF Starts
  <2> QED  BY <2>2 DEF Started, Starts, StartNext
<1>3. \A k \in 0..n : Started[k] = IF k = 0 THEN <<>> ELSE StartNext(Started[k - 1], k)
  BY <1>2 DEF Starts
<1> DEFINE Bad == {k \in 0..n : ~StartedOK(Started[k], k)}
<1>4. Bad = {}
  <2> SUFFICES ASSUME Bad # {} PROVE FALSE
    OBVIOUS
  <2>1. Bad \subseteq Nat
    OBVIOUS
  <2>2. PICK b \in Bad : \A y \in Bad : b <= y
    <3> HIDE DEF Bad
    <3> QED  BY <2>1, LeastOf
  <2>3. b \in 0..n /\ ~StartedOK(Started[b], b)
    OBVIOUS
  <2>4. b # 0
    <3>1. StartedOK(<<>>, 0)
      BY DEF StartedOK, Fits, Elems, Has
    <3>2. 0 \in 0..n /\ Started[0] = <<>>
      BY <1>1, <1>3
    <3> QED  BY <2>3, <3>1, <3>2
  <2>5. b - 1 \in 0..n /\ b - 1 \in Nat /\ (b - 1) + 1 = b /\ b <= n
    BY <2>3, <2>4, <1>1
  <2>6. StartedOK(Started[b - 1], b - 1)
    <3>1. b - 1 \notin Bad
      BY <2>2, <2>3, <2>5
    <3> QED  BY <3>1, <2>5
  <2>7. StartedOK(StartNext(Started[b - 1], b), b)
    <3> DEFINE a == b - 1
    <3>1. a \in Nat /\ a + 1 <= n /\ StartedOK(Started[a], a) /\ a + 1 = b
      BY <2>5, <2>6
    <3> HIDE DEF a
    <3>2. StartedOK(StartNext(Started[a], a + 1), a + 1)
      BY <3>1, StartNextOK
    <3>3. StartedOK(StartNext(Started[a], b), b)
      BY <3>1, <3>2
    <3> QED  BY <3>3 DEF a
  <2>8. Started[b] = StartNext(Started[b - 1], b)
    BY <1>3, <2>3, <2>4
  <2> QED  BY <2>3, <2>7, <2>8
<1>5. n \in 0..n
  BY <1>1
<1> QED  BY <1>4, <1>5

-----------------------------------------------------------------------------
(* sys_check_timeouts *)

\* What the invariant says in a step of sys_check_timeouts.
LEMMA Known ==
  ASSUME TimeoutsInv
  PROVE  /\ clock \in Int /\ clock \in 0..(ClockMod - 1) /\ since \in Nat /\ since <= LongestCheck
         /\ timeouts \in Seq(Entry) /\ Fits(timeouts, clock)
         /\ \A e \in Elems(timeouts) : e.left \in Int /\ e.h \in Timers /\ e \in Entry
                                      /\ e.left <= Interval[e.h]
<1>1. clock \in Int /\ clock \in 0..(ClockMod - 1) /\ since \in Nat /\ since <= LongestCheck
  BY Numbers DEF TimeoutsInv
<1>2. timeouts \in Seq(Entry) /\ Fits(timeouts, clock)
  BY DEF TimeoutsInv, Fits
<1>3. \A e \in Elems(timeouts) : e \in Entry
  BY <1>2, Member
<1>4. \A e \in Elems(timeouts) : e.left \in Int /\ e.h \in Timers
  BY <1>3 DEF Entry
<1>5. \A e \in Elems(timeouts) : e.left <= Interval[e.h]
  BY <1>2 DEF Fits
<1> QED  BY <1>1, <1>2, <1>3, <1>4, <1>5

\* sys_check_timeouts takes the first timeout for expired if and only if it was due when the
\* call began.
LEMMA ExpiredIs ==
  ASSUME TimeoutsInv, phase = "check"
  PROVE  Expired <=> timeouts # <<>> /\ Head(timeouts).left + since <= 0
<1>1. CASE timeouts = <<>>
  BY <1>1 DEF Expired
<1>2. CASE timeouts # <<>>
  <2> DEFINE t == Head(timeouts)
             a == - since
  <2>1. t \in Elems(timeouts)
    BY <1>2, Known, TailFits
  <2> HIDE DEF t
  <2>2. t.left \in Int /\ t.h \in Timers /\ t.left <= Interval[t.h]
    BY <2>1, Known
  <2>3. t.time = (clock + t.left) % ClockMod
    BY <2>1, Known DEF Fits
  <2>4. t.left > - LongestCheck - MaxPause - since
    BY <2>1 DEF TimeoutsInv, NotBefore
  <2>5. Interval[t.h] \in Nat /\ Interval[t.h] + Overdue < Half
    BY <2>2, Periods
  <2>6. a \in Int /\ a - t.left < Half /\ t.left - a < Half
    <3>1. since \in Nat /\ since <= LongestCheck
      BY Known
    <3>2. Overdue = MaxPause + 2 * LongestCheck /\ MaxPause \in Nat /\ LongestCheck \in Nat
          /\ Half \in Nat
      BY Numbers DEF Overdue
    <3> DEFINE x == t.left
               y == Interval[t.h]
    <3>3. x \in Int /\ y \in Nat /\ x <= y /\ y + Overdue < Half
          /\ x > - LongestCheck - MaxPause - since
      BY <2>2, <2>4, <2>5
    <3> HIDE DEF x, y
    <3>4. a \in Int /\ a - x < Half /\ x - a < Half
      BY <3>1, <3>2, <3>3
    <3> QED  BY <3>4 DEF x
  <2>7. Start = (clock + a) % ClockMod
    <3>1. clock - since = clock + a
      BY Known
    <3> HIDE DEF a
    <3> QED  BY <3>1 DEF Start
  <2>8. TimeLessThan(Start, t.time) <=> a < t.left
    <3> HIDE DEF a
    <3> QED  BY <2>2, <2>3, <2>6, <2>7, Known, TimeCompared
  <2>9. a < t.left <=> ~(t.left + since <= 0)
    BY <2>2, Known
  <2> QED  BY <1>2, <2>8, <2>9 DEF Expired, t
<1> QED  BY <1>1, <1>2

\* Products with a natural number are monotonic.
LEMMA Monotonic ==
  ASSUME NEW m \in Nat, NEW a \in Nat, NEW b \in Nat, a <= b
  PROVE  m * a <= m * b /\ m * (a + 1) = m * a + m /\ m * a \in Nat
<1> DEFINE d == b - a
<1>1. d \in Nat /\ b = a + d
  OBVIOUS
<1> HIDE DEF d
<1>2. m * b = m * a + m * d
  BY <1>1
<1>3. m * d \in Nat /\ m * a \in Nat
  BY <1>1
<1>4. m * (a + 1) = m * a + m
  OBVIOUS
<1>5. m * a <= m * b
  BY <1>2, <1>3
<1> QED  BY <1>3, <1>4, <1>5

\* What is left of the list when the first timeout has expired and its handler took lag.
Rest(lag) == Elapse(Tail(timeouts), lag)

\* The facts of a step in which the handler of the first timeout runs.
RunFacts(lag) ==
  LET t   == Head(timeouts)
      now == (clock + lag) % ClockMod
  IN /\ t \in Elems(timeouts) /\ t \in Entry /\ t.left + since <= 0
     /\ now \in 0..(ClockMod - 1)
     /\ Fits(Rest(lag), now)
     /\ ~Has(Elems(Rest(lag)), t.h)
     /\ \A h : h # t.h => (Has(Elems(Rest(lag)), h) <=> Has(Elems(timeouts), h))
     /\ Has(Elems(timeouts), t.h)
     /\ since + lag \in 0..LongestCheck
     /\ NotBefore(Elems(Rest(lag)), - LongestCheck - MaxPause - (since + lag))
     /\ NotBefore(Elems(Rest(lag)), - Overdue)
     /\ Late(lag) \in 0..Overdue
     /\ \A f \in Elems(Rest(lag)) :
          f.h # t.h /\ \E e \in Elems(timeouts) : e.h = f.h /\ f.left = e.left - lag

\* They hold whenever one runs.
LEMMA RunKnown ==
  ASSUME TimeoutsInv, phase = "check", Expired, NEW lag \in 0..MaxLag
  PROVE  RunFacts(lag)
<1> DEFINE t   == Head(timeouts)
           now == (clock + lag) % ClockMod
           r   == Rest(lag)
           E   == Elems(timeouts)
           S   == Served(E, since)
<1>1. timeouts # <<>> /\ t.left + since <= 0
  BY ExpiredIs
<1>2. /\ Fits(Tail(timeouts), clock) /\ t \in E /\ t \in Entry
      /\ E = Elems(Tail(timeouts)) \cup {t}
      /\ \A e \in Elems(Tail(timeouts)) : e.h # t.h
  BY <1>1, Known, TailFits
<1>3. lag \in Nat /\ lag <= MaxLag
  BY Numbers
<1>4. Fits(r, now) /\ Elems(r) = {Less(e, lag) : e \in Elems(Tail(timeouts))}
  BY <1>2, <1>3, Known, ElapseFits DEF Rest
<1>5. now \in 0..(ClockMod - 1)
  <2> DEFINE x == clock + lag
  <2>1. x \in Int
    BY <1>3, Known
  <2> HIDE DEF x
  <2>2. x % ClockMod \in 0..(ClockMod - 1)
    BY <2>1, Numbers, DivMod
  <2> QED  BY <2>2 DEF x
<1> HIDE DEF t, r, now, E
<1>6. ASSUME NEW e \in Elems(Tail(timeouts))
      PROVE  /\ e \in E /\ Less(e, lag) \in Elems(r) /\ Less(e, lag).h = e.h /\ e.h # t.h
             /\ Less(e, lag).left = e.left - lag /\ e.left \in Int
  <2>1. e \in E /\ e.h # t.h /\ Less(e, lag) \in Elems(r)
    BY <1>2, <1>4
  <2>2. e \in Entry /\ lag \in Int
    BY <2>1, <1>3, Known DEF E
  <2> QED  BY <2>1, <2>2, LessIs
<1>7. ~Has(Elems(r), t.h)
  BY <1>4, <1>6 DEF Has
<1>8. ASSUME NEW h, h # t.h PROVE Has(Elems(r), h) <=> Has(E, h)
  BY <1>2, <1>4, <1>6, <1>8 DEF Has
<1>9. t.left \in Int /\ t.h \in Timers /\ t.left > - LongestCheck - MaxPause - since
  BY <1>2, Known DEF E, TimeoutsInv, NotBefore
<1>10. since + lag <= LongestCheck
  <2>1. S \subseteq Timers \ {t.h}
    BY <1>1, <1>2, <1>9, Known DEF Served
  <2>2. IsFiniteSet(Timers \ {t.h}) /\ Cardinality(Timers \ {t.h}) = Count - 1
    BY <1>9, TimersCounted, FS_RemoveElement
  <2> DEFINE c == Cardinality(S)
  <2>3. c <= Count - 1 /\ c \in Nat
    BY <2>1, <2>2, FS_Subset, FS_CardinalityType
  <2>4. since <= MaxLag * c
    BY DEF TimeoutsInv, E
  <2> HIDE DEF c
  <2>5. c + 1 \in Nat /\ c + 1 <= Count
    BY <2>3, Numbers
  <2>6. MaxLag * (c + 1) = MaxLag * c + MaxLag /\ MaxLag * c \in Nat
    BY <2>3, Numbers, Monotonic
  <2>7. MaxLag * (c + 1) <= LongestCheck
    <3> DEFINE d == c + 1
    <3>1. d \in Nat /\ d <= Count
      BY <2>5
    <3> HIDE DEF d
    <3>2. MaxLag * d <= LongestCheck
      BY <3>1, Numbers, Monotonic
    <3> QED  BY <3>2 DEF d
  <2>8. since + lag <= MaxLag * c + MaxLag
    BY <1>3, <2>4, <2>6, Known, Numbers
  <2> QED  BY <2>6, <2>7, <2>8, <1>3, Known, Numbers
<1>11. since + lag \in 0..LongestCheck
  BY <1>3, <1>10, Known, Numbers
<1>12. ASSUME NEW f \in Elems(r)
       PROVE  f.left > - LongestCheck - MaxPause - (since + lag) /\ f.left > - Overdue
  <2>1. PICK e \in Elems(Tail(timeouts)) : f = Less(e, lag)
    BY <1>4
  <2>2. e \in E /\ f.left = e.left - lag /\ e.left \in Int
    BY <2>1, <1>6
  <2>3. e.left > - LongestCheck - MaxPause - since
    BY <2>2 DEF E, TimeoutsInv, NotBefore
  <2> QED  BY <2>2, <2>3, <1>3, <1>10, Known, Numbers DEF Overdue
<1>13. Late(lag) \in 0..Overdue
  BY <1>1, <1>3, <1>9, <1>10, Known, Numbers DEF Overdue, Late, t
<1>14. Has(E, t.h)
  BY <1>2 DEF Has
<1>15. NotBefore(Elems(r), - LongestCheck - MaxPause - (since + lag))
       /\ NotBefore(Elems(r), - Overdue)
  BY <1>12 DEF NotBefore
<1>16. \A f \in Elems(r) : f.h # t.h /\ \E e \in E : e.h = f.h /\ f.left = e.left - lag
  BY <1>4, <1>6
<1> QED
  BY <1>1, <1>2, <1>4, <1>5, <1>7, <1>8, <1>11, <1>13, <1>14, <1>15, <1>16
  DEF RunFacts, t, r, now, E

\* The timeouts E are those left, and perhaps one of the handler that ran.
FromRun(E, lag) ==
  \A e \in E :
     e \in Elems(Rest(lag)) \/ (e.h = Head(timeouts).h /\ e.left \in Int /\ e.left >= 0)

\* The timer whose handler ran is not due any more in this call, and the others are as they
\* were: so the time that has passed is still within that of the handlers served.
LEMMA ServedGrows ==
  ASSUME TimeoutsInv, NEW lag \in 0..MaxLag, RunFacts(lag), NEW E, FromRun(E, lag)
  PROVE  since + lag <= MaxLag * Cardinality(Served(E, since + lag))
<1> DEFINE t == Head(timeouts)
           s == since + lag
           A == Served(Elems(timeouts), since)
           B == Served(E, s)
           a == Cardinality(A)
           b == Cardinality(B)
<1>1. s \in Nat /\ s >= 0 /\ lag \in Nat /\ lag <= MaxLag /\ since \in Nat
  BY Known, Numbers
<1>2. IsFiniteSet(A) /\ IsFiniteSet(B) /\ a \in Nat /\ b \in Nat
  <2>1. A \in SUBSET Timers /\ B \in SUBSET Timers
    BY DEF Served
  <2> HIDE DEF A, B
  <2>2. IsFiniteSet(A) /\ IsFiniteSet(B)
    BY <2>1, TimersCounted, FS_Subset
  <2> QED  BY <2>2, FS_CardinalityType
<1>3. CASE s = 0
  <2>1. MaxLag * b \in Nat
    <3> HIDE DEF b
    <3> QED  BY <1>2, Numbers
  <2> HIDE DEF s, b
  <2> QED  BY <1>3, <2>1 DEF s, b
<1>4. CASE s # 0
  <2>1. t.h \in Timers /\ t.left \in Int /\ t.left + since <= 0 /\ t \in Elems(timeouts)
    BY DEF RunFacts, Entry
  <2>2. t.h \notin A
    <3>1. ~(t.left + since > 0)
      BY <2>1, <1>1
    <3> QED  BY <2>1, <3>1 DEF Served
  <2>3. ASSUME NEW h \in A \cup {t.h} PROVE h \in B
    <3>1. h \in Timers
      BY <2>1 DEF Served
    <3>2. ASSUME NEW f \in E, f.h = h PROVE f.left + s > 0
      <4>1. CASE f \in Elems(Rest(lag))
        <5>1. f.h # t.h
          BY <4>1 DEF RunFacts
        <5>2. PICK e \in Elems(timeouts) : e.h = f.h /\ f.left = e.left - lag
          BY <4>1 DEF RunFacts
        <5>3. h \in A
          BY <3>2, <5>1
        <5>4. e.left + since > 0 /\ e.left \in Int
          BY <5>2, <5>3, <3>2, Known DEF Served
        <5> QED  BY <5>2, <5>4, <1>1
      <4>2. CASE f.h = t.h /\ f.left \in Int /\ f.left >= 0
        BY <4>2, <1>1, <1>4
      <4> QED  BY <4>1, <4>2 DEF FromRun
    <3> QED  BY <3>1, <3>2 DEF Served
  <2>4. A \cup {t.h} \in SUBSET B
    <3> HIDE DEF A, B, t
    <3> QED  BY <2>3
  <2>5. Cardinality(A \cup {t.h}) = a + 1
    <3> HIDE DEF A, t
    <3> QED  BY <2>2, <1>2, FS_AddElement
  <2>6. a + 1 <= b
    <3>1. Cardinality(A \cup {t.h}) <= b
      <4> HIDE DEF A, B, t
      <4> QED  BY <2>4, <1>2, FS_Subset
    <3> QED  BY <2>5, <3>1
  <2>7. since <= MaxLag * a
    BY DEF TimeoutsInv
  <2>8. MaxLag \in Nat
    BY Numbers
  <2> HIDE DEF a, b, A, B
  <2>9. MaxLag * (a + 1) = MaxLag * a + MaxLag /\ MaxLag * a \in Nat
    BY <2>8, <1>2, Monotonic
  <2>10. MaxLag * (a + 1) <= MaxLag * b
    <3> DEFINE c == a + 1
    <3>1. c \in Nat /\ c <= b
      BY <2>6, <1>2
    <3> HIDE DEF c
    <3>2. MaxLag * c <= MaxLag * b
      BY <3>1, <2>8, <1>2, Monotonic
    <3> QED  BY <3>2 DEF c
  <2>11. MaxLag * b \in Nat
    BY <2>8, <1>2
  <2>12. s <= MaxLag * b
    <3> HIDE DEF s
    <3>1. s <= MaxLag * a + MaxLag
      BY <1>1, <2>7, <2>8, <2>9 DEF s
    <3> QED  BY <3>1, <2>8, <2>9, <2>10, <2>11, <1>1
  <2> QED  BY <2>12 DEF b, B
<1> QED  BY <1>3, <1>4

\* lwip_cyclic_timer keeps to the period unless the next one is over already: the comparison
\* of wrapped times is right, and the timer is due within a period.
LEMMA RescheduledIs ==
  ASSUME TimeoutsInv, NEW lag \in 0..MaxLag, RunFacts(lag)
  PROVE  LET t    == Head(timeouts)
             now  == (clock + lag) % ClockMod
             left == IF Interval[t.h] < Late(lag) THEN Interval[t.h]
                     ELSE Interval[t.h] - Late(lag)
         IN IsDue(Rescheduled(t.time, now, t.h, Late(lag)), now, t.h, left)
<1> DEFINE t    == Head(timeouts)
           now  == (clock + lag) % ClockMod
           p    == Interval[t.h]
           late == Late(lag)
           next == (t.time + p) % ClockMod
           r    == Rescheduled(t.time, now, t.h, late)
           u    == t.left + p
           x    == clock + t.left
           y    == clock + lag
<1>1. t \in Entry /\ t \in Elems(timeouts) /\ t.left \in Int /\ t.h \in Timers
      /\ now \in 0..(ClockMod - 1) /\ late \in 0..Overdue /\ late = lag - t.left
  BY DEF RunFacts, Entry, Late
<1>2. t.time = (clock + t.left) % ClockMod /\ clock \in Int
  BY <1>1, Known DEF Fits
<1>3. p \in Nat /\ p > 0 /\ p + Overdue < Half
  BY <1>1, Periods
<1>4. lag \in Nat /\ Overdue \in Nat /\ Half \in Nat /\ ClockMod \in Nat /\ ClockMod > 0
  BY Numbers
<1>5. late \in Nat /\ late <= Overdue /\ u \in Int /\ x \in Int /\ y \in Int /\ now \in Int
      /\ p \in Int /\ lag \in Int
  <2>1. u \in Int /\ x \in Int /\ y \in Int /\ p \in Int /\ lag \in Int
    BY <1>1, <1>2, <1>3, <1>4
  <2> HIDE DEF now, late
  <2>2. now \in Int
    BY <1>1, <1>4
  <2>3. late \in Nat /\ late <= Overdue
    BY <1>1, <1>4
  <2> HIDE DEF u, x, y, p
  <2> QED  BY <2>1, <2>2, <2>3
<1>6. r = IF TimeLessThan(next, now) THEN At(now, t.h, p)
          ELSE [time |-> next, h |-> t.h, left |-> p - late]
  BY DEF Rescheduled
<1>7. u - lag = p - late
  BY <1>1, <1>3, <1>4
<1> HIDE DEF late, p, r
<1>8. next = (clock + u) % ClockMod
  <2>1. x + p = clock + u
    BY <1>1, <1>2, <1>3
  <2>2. next = ((x % ClockMod) + p) % ClockMod
    BY <1>2
  <2> HIDE DEF x, u, next
  <2>3. ((x % ClockMod) + p) % ClockMod = (x + p) % ClockMod
    BY <1>3, <1>4, <1>5, ModAdd
  <2> QED  BY <2>1, <2>2, <2>3
<1>9. TimeLessThan(next, now) <=> u < lag
  <2>1. u - lag < Half /\ lag - u < Half
    <3> HIDE DEF u
    <3> QED  BY <1>3, <1>4, <1>5, <1>7
  <2>2. TimeLessThan((clock + u) % ClockMod, (clock + lag) % ClockMod) <=> u < lag
    <3> HIDE DEF u
    <3> QED  BY <2>1, <1>2, <1>4, <1>5, TimeCompared
  <2> QED  BY <1>8, <2>2
<1>10. u < lag <=> p < late
  <2> HIDE DEF u
  <2> QED  BY <1>3, <1>4, <1>5, <1>7
<1>11. next = (now + (p - late)) % ClockMod
  <2> DEFINE z == p - late
  <2>1. z \in Int /\ y + z = clock + u
    <3>1. u = lag + (p - late)
      BY <1>3, <1>4, <1>5, <1>7
    <3>2. y = clock + lag
      OBVIOUS
    <3> HIDE DEF u, y
    <3>3. p \in Int /\ late \in Int /\ lag \in Int /\ clock \in Int
      BY <1>2, <1>5
    <3> QED  BY <3>1, <3>2, <3>3
  <2>2. now = y % ClockMod
    OBVIOUS
  <2>3. y \in Int /\ z \in Int /\ ClockMod \in Nat /\ ClockMod > 0
    BY <2>1, <1>4, <1>5
  <2> HIDE DEF z, y, u, x, now, next
  <2>4. ((y % ClockMod) + z) % ClockMod = (y + z) % ClockMod
    BY <2>3, ModAdd
  <2> QED  BY <2>1, <2>2, <2>4, <1>8 DEF z
<1>12. CASE p < late
  <2>1. r = At(now, t.h, p)
    BY <1>6, <1>9, <1>10, <1>12
  <2>2. IsDue(At(now, t.h, p), now, t.h, p)
    <3>1. p \in Int
      BY <1>3
    <3> HIDE DEF now, t
    <3> QED  BY <1>1, <1>5, <3>1, AtIs
  <2> QED  BY <1>12, <2>1, <2>2 DEF p, late, r
<1>13. CASE ~(p < late)
  <2>1. r = [time |-> next, h |-> t.h, left |-> p - late]
    BY <1>6, <1>9, <1>10, <1>13
  <2>2. p - late \in Int
    BY <1>3, <1>5
  <2>3. next \in 0..(ClockMod - 1)
    <3> DEFINE z == t.time + p
    <3>1. t.time \in Int
      BY <1>1, <1>4 DEF Entry
    <3>2. z \in Int
      BY <3>1, <1>3
    <3> HIDE DEF z
    <3>3. z % ClockMod \in 0..(ClockMod - 1)
      BY <3>2, <1>4, DivMod
    <3> QED  BY <3>3 DEF z
  <2> HIDE DEF next, t, now
  <2>4. IsDue(r, now, t.h, p - late)
    BY <1>1, <1>11, <2>1, <2>2, <2>3 DEF IsDue, Entry
  <2> QED  BY <1>13, <2>4 DEF p, late, r, t, now
<1> QED  BY <1>12, <1>13

-----------------------------------------------------------------------------
(* The invariant is inductive *)

\* It holds after sys_timeouts_init.
LEMMA InitInv == TimeoutsInit => TimeoutsInv
<1> SUFFICES ASSUME TimeoutsInit PROVE TimeoutsInv
  OBVIOUS
<1> DEFINE E == Elems(timeouts)
<1>1. /\ clock = ClockMod - 1 /\ phase = "round" /\ since = 0
      /\ tcpip_tcp_timer_active = FALSE /\ connections = FALSE
  BY DEF TimeoutsInit
<1>2. clock \in 0..(ClockMod - 1) /\ clock \in Int
  BY <1>1, Numbers
<1>3. StartedOK(timeouts, Len(lwip_cyclic_timers))
  <2>1. StartedOK(Started[Len(lwip_cyclic_timers)], Len(lwip_cyclic_timers))
    BY <1>2, StartedAll
  <2>2. timeouts = Started[Len(lwip_cyclic_timers)]
    BY DEF TimeoutsInit
  <2> QED  BY <2>1, <2>2
<1>4. Fits(timeouts, clock) /\ timeouts \in Seq(Entry)
  BY <1>3 DEF StartedOK, Fits
<1>5. \A h : Has(E, h) <=> h \in Cyclic
  BY <1>3 DEF StartedOK, Cyclic
<1>6. ~Has(E, "tcp")
  BY <1>5, TimeoutsAssumption
<1>7. NotBefore(E, - LongestCheck)
  <2>1. \A e \in E : e.left > 0 /\ e \in Entry
    BY <1>3, <1>4, Member DEF StartedOK
  <2>2. \A e \in E : e.left \in Int
    BY <2>1 DEF Entry
  <2>3. LongestCheck \in Nat
    BY Numbers
  <2> QED  BY <2>1, <2>2, <2>3 DEF NotBefore
<1>8. since <= MaxLag * Cardinality(Served(E, since))
  <2>1. Served(E, since) \in SUBSET Timers
    BY DEF Served
  <2> DEFINE c == Cardinality(Served(E, since))
  <2>2. c \in Nat
    BY <2>1, TimersCounted, FS_Subset, FS_CardinalityType
  <2> HIDE DEF c
  <2>3. MaxLag * c \in Nat
    BY <2>2, Numbers
  <2>4. since <= MaxLag * c
    BY <1>1, <2>3
  <2> QED  BY <2>4 DEF c
<1>9. since \in 0..LongestCheck
  BY <1>1, Numbers
<1> HIDE DEF E
<1> QED  BY <1>1, <1>2, <1>4, <1>5, <1>6, <1>7, <1>8, <1>9 DEF TimeoutsInv, E

\* A bound on the time left holds for a smaller one.
LEMMA NotBeforeLess ==
  ASSUME NEW l \in Seq(Entry), NEW a \in Int, NEW b \in Int, b <= a, NotBefore(Elems(l), a)
  PROVE  NotBefore(Elems(l), b)
<1>1. \A e \in Elems(l) : e.left \in Int
  BY Member DEF Entry
<1> QED  BY <1>1 DEF NotBefore

\* Nothing has been served in no time.
LEMMA ServedNone ==
  ASSUME NEW E
  PROVE  0 <= MaxLag * Cardinality(Served(E, 0))
<1>1. Served(E, 0) \in SUBSET Timers
  BY DEF Served
<1> DEFINE c == Cardinality(Served(E, 0))
<1>2. c \in Nat
  BY <1>1, TimersCounted, FS_Subset, FS_CardinalityType
<1> HIDE DEF c
<1>3. MaxLag * c \in Nat
  BY <1>2, Numbers
<1>4. 0 <= MaxLag * c
  BY <1>3
<1> QED  BY <1>4 DEF c

\* tcp_timer_needed.
LEMMA ConnectKeeps == TimeoutsInv /\ Connect => TimeoutsInv'
<1> SUFFICES ASSUME TimeoutsInv, Connect PROVE TimeoutsInv'
  OBVIOUS
<1> DEFINE E == Elems(timeouts)
           t == At(clock, "tcp", Interval["tcp"])
<1>1. /\ clock' = clock /\ phase' = phase /\ since' = since /\ phase = "round"
      /\ connections' = TRUE /\ tcpip_tcp_timer_active' = TRUE
      /\ timeouts' = IF tcpip_tcp_timer_active THEN timeouts ELSE Insert(timeouts, t)
  BY DEF Connect
<1>2. since = 0
  BY <1>1 DEF TimeoutsInv
<1>3. CASE tcpip_tcp_timer_active
  <2>1. timeouts' = timeouts
    BY <1>1, <1>3
  <2> QED  BY <1>1, <1>3, <2>1 DEF TimeoutsInv
<1>4. CASE ~tcpip_tcp_timer_active
  <2>1. "tcp" \in Timers /\ ~Has(E, "tcp")
    BY <1>4 DEF Timers, TimeoutsInv
  <2>2. Interval["tcp"] \in Nat /\ Interval["tcp"] > 0
    BY <2>1, Periods
  <2>3. IsDue(t, clock, "tcp", Interval["tcp"])
    <3>1. Interval["tcp"] \in Int /\ clock \in Int
      BY <2>2, Known
    <3> QED  BY <3>1, <2>1, AtIs
  <2> HIDE DEF t
  <2>4. t \in Entry /\ t.h = "tcp" /\ t.left = Interval["tcp"]
        /\ t.time = (clock + t.left) % ClockMod
    BY <2>3 DEF IsDue
  <2>5. t.left \in Nat /\ t.left > 0 /\ t.left >= 0 /\ t.left <= Interval[t.h]
    BY <2>2, <2>4
  <2>6. NotBefore(E, - LongestCheck) /\ timeouts \in Seq(Entry)
    BY <1>1, Known DEF TimeoutsInv
  <2>7. NotBefore(E, - Overdue)
    <3>1. - LongestCheck \in Int /\ - Overdue \in Int /\ - Overdue <= - LongestCheck
      BY Numbers DEF Overdue
    <3> QED  BY <2>6, <3>1, NotBeforeLess
  <2>8. Fits(timeouts', clock) /\ Elems(timeouts') = E \cup {t}
    <3>1. ~Has(E, t.h)
      BY <2>1, <2>4
    <3>2. timeouts' = Insert(timeouts, t)
      BY <1>1, <1>4
    <3>3. Fits(Insert(timeouts, t), clock) /\ Elems(Insert(timeouts, t)) = E \cup {t}
      BY <2>4, <2>5, <2>7, <3>1, Known, EnterFits
    <3> QED  BY <3>2, <3>3
  <2>9. \A h \in Cyclic : Has(Elems(timeouts'), h)
    BY <2>8 DEF TimeoutsInv, Has
  <2>10. Has(Elems(timeouts'), "tcp")
    BY <2>4, <2>8 DEF Has
  <2>11. NotBefore(Elems(timeouts'), - LongestCheck)
    <3>1. t.left > - LongestCheck
      BY <2>5, Numbers
    <3> QED  BY <2>6, <2>8, <3>1 DEF NotBefore
  <2>12. since' <= MaxLag * Cardinality(Served(Elems(timeouts'), since'))
    BY <1>1, <1>2, ServedNone
  <2>13. clock' \in 0..(ClockMod - 1) /\ since' \in 0..LongestCheck /\ Fits(timeouts', clock')
    BY <1>1, <2>8 DEF TimeoutsInv
  <2> HIDE DEF E
  <2> QED  BY <1>1, <1>2, <2>9, <2>10, <2>11, <2>12, <2>13 DEF TimeoutsInv
<1> QED  BY <1>3, <1>4

\* The last connection goes.
LEMMA DisconnectKeeps == TimeoutsInv /\ Disconnect => TimeoutsInv'
<1> SUFFICES ASSUME TimeoutsInv, Disconnect PROVE TimeoutsInv'
  OBVIOUS
<1>1. /\ clock' = clock /\ phase' = phase /\ since' = since /\ timeouts' = timeouts
      /\ connections' = FALSE /\ tcpip_tcp_timer_active' = tcpip_tcp_timer_active
  BY DEF Disconnect
<1> QED  BY <1>1 DEF TimeoutsInv

\* The main loop goes round once and calls sys_check_timeouts.
LEMMA PollKeeps == TimeoutsInv /\ Poll => TimeoutsInv'
<1> SUFFICES ASSUME TimeoutsInv, Poll PROVE TimeoutsInv'
  OBVIOUS
<1> DEFINE E == Elems(timeouts)
<1>1. PICK n \in 0..MaxPause : clock' = (clock + n) % ClockMod /\ timeouts' = Elapse(timeouts, n)
  BY DEF Poll
<1>2. /\ phase = "round" /\ phase' = "check" /\ since' = 0
      /\ tcpip_tcp_timer_active' = tcpip_tcp_timer_active /\ connections' = connections
  BY DEF Poll
<1>3. n \in Nat /\ n <= MaxPause
  BY Numbers
<1>4. Fits(timeouts', clock') /\ Elems(timeouts') = {Less(e, n) : e \in E}
  <2>1. Fits(Elapse(timeouts, n), (clock + n) % ClockMod)
        /\ Elems(Elapse(timeouts, n)) = {Less(e, n) : e \in E}
    BY <1>3, Known, ElapseFits
  <2> QED  BY <1>1, <2>1
<1>5. clock' \in 0..(ClockMod - 1)
  <2> DEFINE x == clock + n
  <2>1. x \in Int
    BY <1>3, Known
  <2> HIDE DEF x
  <2>2. x % ClockMod \in 0..(ClockMod - 1)
    BY <2>1, Numbers, DivMod
  <2> QED  BY <2>2, <1>1 DEF x
<1>6. ASSUME NEW e \in E
      PROVE  Less(e, n).h = e.h /\ Less(e, n).left = e.left - n /\ e.left \in Int
  <2>1. e \in Entry /\ n \in Int
    BY <1>3, Known
  <2> QED  BY <2>1, LessIs
<1>7. \A h : Has(Elems(timeouts'), h) <=> Has(E, h)
  <2> HIDE DEF E
  <2> QED  BY <1>4, <1>6 DEF Has
<1>8. NotBefore(Elems(timeouts'), - LongestCheck - MaxPause - since')
  <2> SUFFICES ASSUME NEW f \in Elems(timeouts')
               PROVE  f.left > - LongestCheck - MaxPause - since'
    BY DEF NotBefore
  <2>1. PICK e \in E : f = Less(e, n)
    BY <1>4
  <2>2. e.left > - LongestCheck
    BY <1>2 DEF TimeoutsInv, NotBefore
  <2>3. f.left = e.left - n /\ e.left \in Int
    BY <2>1, <1>6
  <2> QED  BY <2>2, <2>3, <1>2, <1>3, Numbers
<1>9. since' <= MaxLag * Cardinality(Served(Elems(timeouts'), since'))
  BY <1>2, ServedNone
<1>10. since' \in 0..LongestCheck
  BY <1>2, Numbers
<1>11. /\ \A h \in Cyclic : Has(E, h)
       /\ Has(E, "tcp") <=> tcpip_tcp_timer_active
       /\ connections => tcpip_tcp_timer_active
       /\ tcpip_tcp_timer_active \in BOOLEAN /\ connections \in BOOLEAN
  BY DEF TimeoutsInv
<1> HIDE DEF E
<1> QED  BY <1>2, <1>4, <1>5, <1>7, <1>8, <1>9, <1>10, <1>11 DEF TimeoutsInv

\* The invariant after a handler ran, whatever it made of the list.
LEMMA AfterRun ==
  ASSUME TimeoutsInv, phase = "check", NEW lag \in 0..MaxLag, RunFacts(lag),
         clock' = (clock + lag) % ClockMod, since' = since + lag, phase' = phase,
         Fits(timeouts', clock'), FromRun(Elems(timeouts'), lag),
         \A h \in Cyclic : Has(Elems(timeouts'), h),
         Has(Elems(timeouts'), "tcp") <=> tcpip_tcp_timer_active',
         connections' => tcpip_tcp_timer_active',
         tcpip_tcp_timer_active' \in BOOLEAN, connections' \in BOOLEAN
  PROVE  TimeoutsInv'
<1>1. clock' \in 0..(ClockMod - 1) /\ since' \in 0..LongestCheck
  BY DEF RunFacts
<1>2. NotBefore(Elems(timeouts'), - LongestCheck - MaxPause - since')
  <2> SUFFICES ASSUME NEW e \in Elems(timeouts')
               PROVE  e.left > - LongestCheck - MaxPause - since'
    BY DEF NotBefore
  <2>1. CASE e \in Elems(Rest(lag))
    BY <2>1 DEF RunFacts, NotBefore
  <2>2. CASE e.left \in Int /\ e.left >= 0
    <3> DEFINE x == Head(timeouts).left
    <3>1. Head(timeouts) \in Elems(timeouts) /\ x + since <= 0
      BY DEF RunFacts
    <3>2. x > - LongestCheck - MaxPause - since /\ x \in Int
      BY <3>1, Known DEF TimeoutsInv, NotBefore
    <3>3. LongestCheck + MaxPause > 0
      <4> HIDE DEF x
      <4> QED  BY <3>1, <3>2, Known, Numbers
    <3>4. since' \in Nat
      BY <1>1, Numbers
    <3> QED  BY <2>2, <3>3, <3>4, Numbers
  <2> QED  BY <2>1, <2>2 DEF FromRun
<1>3. since' <= MaxLag * Cardinality(Served(Elems(timeouts'), since'))
  <2> DEFINE E == Elems(timeouts')
  <2>1. FromRun(E, lag)
    OBVIOUS
  <2> HIDE DEF E
  <2>2. since + lag <= MaxLag * Cardinality(Served(E, since + lag))
    BY <2>1, ServedGrows
  <2> QED  BY <2>2 DEF E
<1> QED  BY <1>1, <1>2, <1>3 DEF TimeoutsInv

\* lwip_cyclic_timer runs.
LEMMA RunCyclicKeeps == TimeoutsInv /\ RunCyclic => TimeoutsInv'
<1> SUFFICES ASSUME TimeoutsInv, RunCyclic PROVE TimeoutsInv'
  OBVIOUS
<1>1. /\ phase = "check" /\ Expired /\ Head(timeouts).h # "tcp" /\ phase' = phase
      /\ tcpip_tcp_timer_active' = tcpip_tcp_timer_active /\ connections' = connections
  BY DEF RunCyclic
<1> DEFINE t      == Head(timeouts)
           now(x) == (clock + x) % ClockMod
           u(x)   == Rescheduled(t.time, now(x), t.h, Late(x))
<1>2. PICK lag \in 0..MaxLag :
         /\ clock' = now(lag) /\ since' = since + lag
         /\ timeouts' = Insert(Rest(lag), u(lag))
  BY DEF RunCyclic, Rest
<1>3. RunFacts(lag)
  BY <1>1, RunKnown
<1> DEFINE v    == u(lag)
           p    == Interval[t.h]
           late == Late(lag)
           left == IF p < late THEN p ELSE p - late
<1>4. IsDue(v, now(lag), t.h, left)
  BY <1>3, RescheduledIs
<1>5. t.h \in Timers /\ late \in Nat /\ now(lag) \in Int
  <2>1. t \in Entry /\ late \in 0..Overdue /\ now(lag) \in 0..(ClockMod - 1)
    BY <1>3 DEF RunFacts
  <2> HIDE DEF t, late, now
  <2> QED  BY <2>1, Numbers DEF Entry
<1>6. p \in Nat /\ p > 0
  BY <1>5, Periods
<1>7. left \in Int /\ left >= 0 /\ left <= p
  <2> HIDE DEF p, late
  <2> QED  BY <1>5, <1>6
<1> HIDE DEF v, left, now
<1>8. /\ v \in Entry /\ v.h = t.h /\ v.left \in Int /\ v.left >= 0 /\ v.left <= Interval[v.h]
      /\ v.time = (now(lag) + v.left) % ClockMod
  BY <1>4, <1>7 DEF IsDue
<1>9. /\ Fits(Rest(lag), now(lag)) /\ NotBefore(Elems(Rest(lag)), - Overdue)
      /\ ~Has(Elems(Rest(lag)), v.h)
  BY <1>3, <1>8 DEF RunFacts, now
<1>10. Fits(Insert(Rest(lag), v), now(lag))
       /\ Elems(Insert(Rest(lag), v)) = Elems(Rest(lag)) \cup {v}
  BY <1>5, <1>8, <1>9, EnterFits
<1>11. timeouts' = Insert(Rest(lag), v) /\ clock' = (clock + lag) % ClockMod
  BY <1>2 DEF v, now
<1>12. Fits(timeouts', clock') /\ Elems(timeouts') = Elems(Rest(lag)) \cup {v}
  BY <1>2, <1>10, <1>11
<1>13. \A h : Has(Elems(timeouts'), h) <=> Has(Elems(timeouts), h)
  <2> SUFFICES ASSUME NEW h PROVE Has(Elems(timeouts'), h) <=> Has(Elems(timeouts), h)
    OBVIOUS
  <2>1. Has(Elems(timeouts'), h) <=> Has(Elems(Rest(lag)), h) \/ h = t.h
    BY <1>8, <1>12 DEF Has
  <2>2. Has(Elems(timeouts), t.h)
        /\ (h # t.h => (Has(Elems(Rest(lag)), h) <=> Has(Elems(timeouts), h)))
    BY <1>3 DEF RunFacts
  <2> QED  BY <2>1, <2>2
<1>14. FromRun(Elems(timeouts'), lag)
  <2>1. FromRun(Elems(Rest(lag)) \cup {v}, lag)
    BY <1>8 DEF FromRun
  <2> QED  BY <1>12, <2>1
<1>15. /\ \A h \in Cyclic : Has(Elems(timeouts'), h)
       /\ Has(Elems(timeouts'), "tcp") <=> tcpip_tcp_timer_active'
       /\ connections' => tcpip_tcp_timer_active'
       /\ tcpip_tcp_timer_active' \in BOOLEAN /\ connections' \in BOOLEAN
  BY <1>1, <1>13 DEF TimeoutsInv
<1> QED  BY <1>1, <1>2, <1>3, <1>11, <1>12, <1>14, <1>15, AfterRun

\* tcpip_tcp_timer runs.
LEMMA RunTcpKeeps == TimeoutsInv /\ RunTcp => TimeoutsInv'
<1> SUFFICES ASSUME TimeoutsInv, RunTcp PROVE TimeoutsInv'
  OBVIOUS
<1> DEFINE t      == Head(timeouts)
           now(x) == (clock + x) % ClockMod
<1>1. phase = "check" /\ Expired /\ t.h = "tcp" /\ phase' = phase
  BY DEF RunTcp
<1>2. PICK lag \in 0..MaxLag, still \in {FALSE, connections} :
         /\ clock' = now(lag) /\ since' = since + lag
         /\ TcpTimer(now(lag), Rest(lag), still)
  BY DEF RunTcp, Rest
<1>3. RunFacts(lag)
  BY <1>1, RunKnown
<1> DEFINE v == At(now(lag), "tcp", Interval["tcp"])
<1>4. /\ connections' = still /\ tcpip_tcp_timer_active' = still
      /\ timeouts' = IF still THEN Insert(Rest(lag), v) ELSE Rest(lag)
  BY <1>2 DEF TcpTimer
<1>5. still \in BOOLEAN
  BY DEF TimeoutsInv
<1>6. now(lag) \in Int
  <2>1. now(lag) \in 0..(ClockMod - 1)
    BY <1>3 DEF RunFacts
  <2> HIDE DEF now
  <2> QED  BY <2>1, Numbers
<1>7. "tcp" \in Timers
  BY DEF Timers
<1>8. Interval["tcp"] \in Nat /\ Interval["tcp"] > 0 /\ Interval["tcp"] \in Int
  BY <1>7, Periods
<1> HIDE DEF now
<1>9. IsDue(v, now(lag), "tcp", Interval["tcp"])
  BY <1>6, <1>7, <1>8, AtIs
<1> HIDE DEF v
<1>10. /\ v \in Entry /\ v.h = t.h /\ v.h = "tcp" /\ v.left \in Int /\ v.left >= 0
       /\ v.left <= Interval[v.h] /\ v.time = (now(lag) + v.left) % ClockMod
  BY <1>1, <1>8, <1>9 DEF IsDue
<1>11. /\ Fits(Rest(lag), now(lag)) /\ NotBefore(Elems(Rest(lag)), - Overdue)
       /\ ~Has(Elems(Rest(lag)), v.h)
  BY <1>3, <1>10 DEF RunFacts, now
<1>12. Fits(Insert(Rest(lag), v), now(lag))
       /\ Elems(Insert(Rest(lag), v)) = Elems(Rest(lag)) \cup {v}
  BY <1>6, <1>10, <1>11, EnterFits
<1>13. clock' = (clock + lag) % ClockMod
  BY <1>2 DEF now
<1>14. ASSUME NEW h \in Cyclic PROVE Has(Elems(Rest(lag)), h)
  <2>1. h # t.h
    BY <1>1, TimeoutsAssumption
  <2>2. Has(Elems(timeouts), h)
    BY DEF TimeoutsInv
  <2> QED  BY <2>1, <2>2, <1>3 DEF RunFacts
<1>15. CASE still
  <2>1. timeouts' = Insert(Rest(lag), v)
    BY <1>4, <1>15
  <2>2. Fits(timeouts', clock') /\ Elems(timeouts') = Elems(Rest(lag)) \cup {v}
    BY <1>2, <1>12, <2>1
  <2>3. \A h \in Cyclic : Has(Elems(timeouts'), h)
    BY <1>14, <2>2 DEF Has
  <2>4. Has(Elems(timeouts'), "tcp")
    BY <1>10, <2>2 DEF Has
  <2>5. FromRun(Elems(timeouts'), lag)
    <3>1. FromRun(Elems(Rest(lag)) \cup {v}, lag)
      BY <1>10 DEF FromRun
    <3> QED  BY <2>2, <3>1
  <2>6. /\ Has(Elems(timeouts'), "tcp") <=> tcpip_tcp_timer_active'
        /\ connections' => tcpip_tcp_timer_active'
        /\ tcpip_tcp_timer_active' \in BOOLEAN /\ connections' \in BOOLEAN
    BY <1>4, <1>5, <1>15, <2>4
  <2> QED  BY <1>1, <1>2, <1>3, <1>13, <2>2, <2>3, <2>5, <2>6, AfterRun
<1>16. CASE ~still
  <2>1. timeouts' = Rest(lag)
    BY <1>4, <1>16
  <2>2. Fits(timeouts', clock') /\ Elems(timeouts') = Elems(Rest(lag))
    BY <1>2, <1>11, <2>1
  <2>3. \A h \in Cyclic : Has(Elems(timeouts'), h)
    BY <1>14, <2>2
  <2>4. ~Has(Elems(timeouts'), "tcp")
    BY <1>10, <1>11, <2>2
  <2>5. FromRun(Elems(timeouts'), lag)
    <3>1. FromRun(Elems(Rest(lag)), lag)
      BY DEF FromRun
    <3> QED  BY <2>2, <3>1
  <2>6. /\ Has(Elems(timeouts'), "tcp") <=> tcpip_tcp_timer_active'
        /\ connections' => tcpip_tcp_timer_active'
        /\ tcpip_tcp_timer_active' \in BOOLEAN /\ connections' \in BOOLEAN
    BY <1>4, <1>5, <1>16, <2>4
  <2> QED  BY <1>1, <1>2, <1>3, <1>13, <2>2, <2>3, <2>5, <2>6, AfterRun
<1> QED  BY <1>15, <1>16

\* When sys_check_timeouts returns, nothing is due that was due when it began.
LEMMA NothingDue ==
  ASSUME TimeoutsInv, CheckEnd, NEW e \in Elems(timeouts)
  PROVE  e.left + since > 0
<1>1. timeouts # <<>>
  <2>1. Elems(<<>>) = {}
    BY DEF Elems
  <2> QED  BY <2>1
<1>2. phase = "check" /\ ~Expired
  BY DEF CheckEnd
<1> DEFINE t == Head(timeouts)
<1>3. t \in Elems(timeouts) /\ t.left <= e.left
  BY <1>1, Known, TailFits
<1>4. ~(t.left + since <= 0)
  BY <1>1, <1>2, ExpiredIs
<1>5. t.left \in Int /\ e.left \in Int /\ since \in Nat
  BY <1>3, Known
<1> HIDE DEF t
<1> QED  BY <1>3, <1>4, <1>5

\* sys_check_timeouts returns.
LEMMA CheckEndKeeps == TimeoutsInv /\ CheckEnd => TimeoutsInv'
<1> SUFFICES ASSUME TimeoutsInv, CheckEnd PROVE TimeoutsInv'
  OBVIOUS
<1>1. /\ clock' = clock /\ phase' = "round" /\ since' = 0 /\ timeouts' = timeouts
      /\ connections' = connections /\ tcpip_tcp_timer_active' = tcpip_tcp_timer_active
  BY DEF CheckEnd
<1>2. NotBefore(Elems(timeouts), - LongestCheck)
  <2> SUFFICES ASSUME NEW e \in Elems(timeouts) PROVE e.left > - LongestCheck
    BY DEF NotBefore
  <2>1. e.left + since > 0
    BY NothingDue
  <2>2. e.left \in Int /\ since \in Nat /\ since <= LongestCheck
    BY Known
  <2> QED  BY <2>1, <2>2, Numbers
<1>3. since' <= MaxLag * Cardinality(Served(Elems(timeouts'), since'))
  BY <1>1, ServedNone
<1>4. since' \in 0..LongestCheck
  BY <1>1, Numbers
<1> QED  BY <1>1, <1>2, <1>3, <1>4 DEF TimeoutsInv

\* Every step of the timers keeps the invariant.
THEOREM TimeoutsInvariant == TimeoutsSpec => []TimeoutsInv
<1>1. ASSUME TimeoutsInv, [TimeoutsNext]_timeoutsVars PROVE TimeoutsInv'
  <2>1. CASE UNCHANGED timeoutsVars
    BY <1>1, <2>1 DEF TimeoutsInv, timeoutsVars
  <2>2. CASE TimeoutsNext
    BY <1>1, <2>2, ConnectKeeps, DisconnectKeeps, PollKeeps, RunCyclicKeeps, RunTcpKeeps,
       CheckEndKeeps DEF TimeoutsNext
  <2> QED  BY <1>1, <2>1, <2>2
<1> QED  BY <1>1, InitInv, PTL DEF TimeoutsSpec

\* The invariant is what the run checks: no timer is lost, doubled or out of order, and no
\* call of sys_check_timeouts takes longer than one run of every handler.
THEOREM TimersStayConsistent == TimeoutsSpec => []TimersConsistent
<1>1. ASSUME TimeoutsInv PROVE TimersConsistent
  <2> DEFINE l == timeouts
             n == Len(timeouts)
             Places(h) == {i \in 1..n : l[i].h = h}
  <2>1. n \in Nat /\ \A i \in 1..n : l[i] \in Elems(l) /\ l[i].left \in Int /\ l[i].h \in Timers
                                  /\ l[i].time \in 0..(ClockMod - 1)
    BY <1>1, Known, Member
  <2>2. TimeoutsTypeOK
    BY <1>1, <2>1, Known DEF TimeoutsTypeOK, TimeoutsInv
  <2>3. DueInOrder
    <3>1. \A i \in 1..n : l[i].time = (clock + l[i].left) % ClockMod
      BY <1>1, <2>1 DEF TimeoutsInv, Fits
    <3>2. ASSUME NEW i \in 1..(n - 1) PROVE l[i].left <= l[i + 1].left
      <4>1. i \in 1..n /\ i + 1 \in 1..n /\ i < i + 1
        BY <2>1
      <4> QED  BY <1>1, <4>1 DEF TimeoutsInv, Fits
    <3> QED  BY <3>1, <3>2 DEF DueInOrder
  <2>4. ASSUME NEW h, Has(Elems(l), h) PROVE Cardinality(Places(h)) = 1
    <3>1. PICK i \in 1..n : l[i].h = h
      BY <2>4 DEF Has, Elems
    <3>2. \A j \in 1..n : l[j].h = h => j = i
      BY <1>1, <3>1 DEF TimeoutsInv, Fits
    <3>3. Places(h) = {i}
      BY <3>1, <3>2
    <3> QED  BY <3>3, FS_Singleton
  <2>5. ASSUME NEW h, ~Has(Elems(l), h) PROVE Cardinality(Places(h)) = 0
    <3>1. Places(h) = {}
      BY <2>1, <2>5 DEF Has
    <3> QED  BY <3>1, FS_EmptySet
  <2>6. TimersRun
    <3>1. \A h \in Cyclic : Cardinality(Places(h)) = 1
      BY <1>1, <2>4 DEF TimeoutsInv
    <3>2. Cardinality(Places("tcp")) = IF tcpip_tcp_timer_active THEN 1 ELSE 0
      BY <1>1, <2>4, <2>5 DEF TimeoutsInv
    <3>3. connections => tcpip_tcp_timer_active
      BY <1>1 DEF TimeoutsInv
    <3> QED  BY <3>1, <3>2, <3>3 DEF TimersRun
  <2>7. NoCatchUp
    BY <1>1, Known DEF NoCatchUp
  <2> QED  BY <2>2, <2>3, <2>6, <2>7 DEF TimersConsistent
<1> QED  BY <1>1, TimeoutsInvariant, PTL

\* No handler runs before its time, and none that was due when sys_check_timeouts began is
\* left when it returns.
THEOREM TimersRunOnTime == TimeoutsSpec => OnTime
<1> DEFINE A == /\ (RunCyclic \/ RunTcp) => Head(timeouts).left + since <= 0
                /\ CheckEnd => \A i \in 1..Len(timeouts) : timeouts[i].left + since > 0
<1>1. ASSUME TimeoutsInv PROVE A
  <2>1. ASSUME RunCyclic \/ RunTcp PROVE Head(timeouts).left + since <= 0
    <3>1. phase = "check" /\ Expired
      BY <2>1 DEF RunCyclic, RunTcp
    <3> QED  BY <1>1, <3>1, ExpiredIs
  <2>2. ASSUME CheckEnd, NEW i \in 1..Len(timeouts) PROVE timeouts[i].left + since > 0
    <3>1. timeouts[i] \in Elems(timeouts)
      BY DEF Elems
    <3> QED  BY <1>1, <2>2, <3>1, NothingDue
  <2> QED  BY <2>1, <2>2
<1>2. TimeoutsInv => [A]_timeoutsVars
  BY <1>1
<1> HIDE DEF A
<1>3. TimeoutsSpec => [][A]_timeoutsVars
  BY <1>2, TimeoutsInvariant, PTL
<1> QED  BY <1>3 DEF OnTime, A

=============================================================================
