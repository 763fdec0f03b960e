--------------------------- MODULE LwipHeap_proofs ---------------------------
(***************************************************************************)
(* The heap is safe whatever its size and whatever is asked of it: lemmas  *)
(* on its list, what each operation does to it, the inductive invariant    *)
(* HeapInv, and what follows from it.                                      *)
(***************************************************************************)
EXTENDS LwipHeap, TLAPS

-----------------------------------------------------------------------------
(* The list: splitting a block, making one of two, marking one *)

\* What HeapAssumption says of the sizes, as integers.
LEMMA Sizes ==
  /\ RamEnd \in Int /\ RamEnd > 0
  /\ SIZEOF_STRUCT_MEM \in Int /\ SIZEOF_STRUCT_MEM > 0
  /\ MIN_SIZE_ALIGNED \in Int /\ MIN_SIZE_ALIGNED > 0
  BY HeapAssumption DEF RamEnd

\* The offsets of a list are integers and its pointers are offsets.
LEMMA ListTypes ==
  ASSUME NEW h, IsList(h), NEW q \in DOMAIN h
  PROVE  /\ q \in Int /\ 0 <= q /\ q <= RamEnd
         /\ h[q].next \in DOMAIN h /\ h[q].next \in Int /\ h[q].next <= RamEnd
         /\ h[q].prev \in DOMAIN h /\ h[q].prev \in Int /\ 0 <= h[q].prev
         /\ h[q].used \in {0, 1}
<1>1. \A r \in DOMAIN h : r \in Int /\ 0 <= r /\ r <= RamEnd
  BY Sizes DEF IsList
<1>2. h[q].next \in DOMAIN h /\ h[q].prev \in DOMAIN h /\ h[q].used \in {0, 1}
  BY DEF IsList
<1> QED  BY <1>1, <1>2

\* What IsLinked says of one block.
LEMMA LinkedAt ==
  ASSUME NEW h, IsLinked(h), NEW q \in DOMAIN h, q # RamEnd
  PROVE  /\ h[q].next >= q + SIZEOF_STRUCT_MEM + MIN_SIZE_ALIGNED
         /\ \A r \in DOMAIN h : r <= q \/ r >= h[q].next
         /\ h[q].next # RamEnd => h[h[q].next].prev = q
         /\ q # 0 => h[q].prev < q /\ h[h[q].prev].next = q
  BY DEF IsLinked

\* Blocks are apart: no two have the same next.
LEMMA NextDiffers ==
  ASSUME NEW h, IsList(h), IsLinked(h), NEW p \in DOMAIN h, NEW q \in DOMAIN h,
         p # RamEnd, q # RamEnd, p # q
  PROVE  h[p].next # h[q].next
<1>1. p \in Int /\ q \in Int /\ h[p].next \in Int /\ h[q].next \in Int
  BY ListTypes
<1>2. h[p].next > p /\ h[q].next > q
  BY <1>1, Sizes, LinkedAt
<1>3. (q <= p \/ q >= h[p].next) /\ (p <= q \/ p >= h[q].next)
  BY LinkedAt
<1> QED  BY <1>1, <1>2, <1>3

\* Both parts can hold data if the block at p is split at n.
CanSplit(h, p, n) ==
  /\ n \in Int /\ n >= p + SIZEOF_STRUCT_MEM + MIN_SIZE_ALIGNED
  /\ h[p].next >= n + SIZEOF_STRUCT_MEM + MIN_SIZE_ALIGNED

\* A block can be split wherever both parts can hold data (mem_malloc, mem_trim).
LEMMA SplitLinked ==
  ASSUME NEW h, IsList(h), IsLinked(h), NEW p \in DOMAIN h, p # RamEnd,
         NEW n, CanSplit(h, p, n), NEW u \in {0, 1}
  PROVE  IsList(Split(h, p, n, h[p].next, u)) /\ IsLinked(Split(h, p, n, h[p].next, u))
<1> DEFINE m == h[p].next
           k == Split(h, p, n, m, u)
<1>0. /\ n \in Int /\ n >= p + SIZEOF_STRUCT_MEM + MIN_SIZE_ALIGNED
      /\ m >= n + SIZEOF_STRUCT_MEM + MIN_SIZE_ALIGNED
  BY DEF CanSplit
<1>1. p \in Int /\ 0 <= p /\ m \in Int /\ m <= RamEnd /\ m \in DOMAIN h
  BY ListTypes
<1>2. p < n /\ n < m /\ n # 0
  BY <1>0, <1>1, Sizes
<1>3. n \notin DOMAIN h
  BY <1>0, <1>1, <1>2, LinkedAt
<1>4. DOMAIN k = DOMAIN h \cup {n}
  BY DEF Split
<1>5. 0 \in DOMAIN h /\ RamEnd \in DOMAIN h
  BY DEF IsList
<1>6. k[n] = Mem(m, p, 0)
  BY <1>0, <1>1, <1>2 DEF Split
<1>7. k[p] = Mem(n, h[p].prev, u)
  BY <1>0, <1>1, <1>2 DEF Split
<1>8. m # RamEnd => k[m] = Mem(h[m].next, n, h[m].used)
  BY <1>0, <1>1, <1>2 DEF Split
<1>9. ASSUME NEW q \in DOMAIN h, q # p, q # m \/ q = RamEnd
      PROVE  k[q] = h[q]
  BY <1>3, <1>9 DEF Split
<1> HIDE DEF k
<1>10. IsList(k)
  <2>1. DOMAIN k \subseteq 0..RamEnd
    BY <1>0, <1>1, <1>2, <1>4, Sizes DEF IsList
  <2>2. ASSUME NEW q \in DOMAIN k
        PROVE  k[q] \in [next : DOMAIN k, prev : DOMAIN k, used : {0, 1}]
    <3>1. CASE q = n
      BY <3>1, <1>1, <1>4, <1>6 DEF Mem
    <3>2. CASE q = p
      BY <3>2, <1>4, <1>7, ListTypes DEF Mem
    <3>3. CASE q = m /\ m # RamEnd
      <4>1. h[m].next \in DOMAIN h /\ h[m].used \in {0, 1}
        BY <1>1, ListTypes
      <4> QED  BY <3>3, <4>1, <1>4, <1>8 DEF Mem
    <3>4. CASE q # n /\ q # p /\ (q # m \/ q = RamEnd)
      <4>1. q \in DOMAIN h
        BY <3>4, <1>4
      <4>2. k[q] = h[q]
        BY <4>1, <3>4, <1>9
      <4>3. h[q] \in [next : DOMAIN h, prev : DOMAIN h, used : {0, 1}]
        BY <4>1 DEF IsList
      <4> QED  BY <4>2, <4>3, <1>4
    <3> QED  BY <3>1, <3>2, <3>3, <3>4
  <2>3. k = [q \in DOMAIN k |-> k[q]]
    BY <1>4 DEF k, Split
  <2> QED  BY <2>1, <2>2, <2>3, <1>4, <1>5 DEF IsList
<1>11. IsLinked(k)
  <2>1. k[0].prev = 0
    <3>1. h[0].prev = 0 /\ m # 0
      BY <1>0, <1>1, <1>2 DEF IsLinked
    <3>2. CASE p = 0
      BY <3>1, <3>2, <1>7 DEF Mem
    <3>3. CASE p # 0
      BY <3>1, <3>3, <1>5, <1>9
    <3> QED  BY <3>2, <3>3
  <2>2. k[RamEnd] = Mem(RamEnd, RamEnd, 1)
    BY <1>5, <1>9 DEF IsLinked
  <2>3. ASSUME NEW q \in DOMAIN k, q # RamEnd
        PROVE  /\ k[q].next >= q + SIZEOF_STRUCT_MEM + MIN_SIZE_ALIGNED
               /\ \A r \in DOMAIN k : r <= q \/ r >= k[q].next
               /\ k[q].next # RamEnd => k[k[q].next].prev = q
               /\ q # 0 => k[q].prev < q /\ k[k[q].prev].next = q
    <3>0. \A r \in DOMAIN h : r \in Int /\ (r <= p \/ r >= m)
      BY ListTypes, LinkedAt
    <3>1. CASE q = n
      <4>1. k[n].next = m /\ k[n].prev = p /\ k[p].next = n
        BY <1>6, <1>7 DEF Mem
      <4>2. m # RamEnd => k[m].prev = n
        BY <1>8 DEF Mem
      <4>3. \A r \in DOMAIN k : r <= n \/ r >= m
        BY <3>0, <1>0, <1>1, <1>2, <1>4
      <4> QED  BY <3>1, <4>1, <4>2, <4>3, <1>0, <1>2
    <3>2. CASE q = p
      <4>1. k[p].next = n /\ k[n].prev = p /\ k[p].prev = h[p].prev
        BY <1>6, <1>7 DEF Mem
      <4>2. \A r \in DOMAIN k : r <= p \/ r >= n
        BY <3>0, <1>0, <1>1, <1>2, <1>4
      <4>3. ASSUME p # 0
            PROVE  k[p].prev < p /\ k[k[p].prev].next = p
        <5>1. h[p].prev < p /\ h[h[p].prev].next = p /\ h[p].prev \in DOMAIN h
          BY <4>3, LinkedAt, ListTypes
        <5>2. h[p].prev # p /\ h[p].prev # m
          <6>1. h[p].prev \in Int
            BY ListTypes
          <6> QED  BY <5>1, <6>1, <1>0, <1>1, <1>2
        <5>3. k[h[p].prev] = h[h[p].prev]
          BY <5>1, <5>2, <1>9
        <5> QED  BY <4>1, <5>1, <5>3
      <4> QED  BY <3>2, <4>1, <4>2, <4>3, <1>0
    <3>3. CASE q = m
      <4>1. k[m].next = h[m].next /\ k[m].prev = n /\ k[n].next = m
        BY <3>3, <2>3, <1>6, <1>8 DEF Mem
      <4>2. /\ h[m].next >= m + SIZEOF_STRUCT_MEM + MIN_SIZE_ALIGNED
            /\ \A r \in DOMAIN h : r <= m \/ r >= h[m].next
            /\ h[m].next # RamEnd => h[h[m].next].prev = m
        BY <3>3, <2>3, <1>1, LinkedAt
      <4>3. \A r \in DOMAIN k : r <= m \/ r >= h[m].next
        BY <4>2, <1>0, <1>1, <1>2, <1>4
      <4>4. h[m].next \in DOMAIN h /\ h[m].next \in Int
        BY <1>1, ListTypes
      <4>5. h[m].next # m /\ h[m].next # p
        BY <4>2, <4>4, <1>0, <1>1, <1>2, Sizes
      <4>6. k[h[m].next] = h[h[m].next]
        BY <4>4, <4>5, <1>9
      <4> QED  BY <3>3, <4>1, <4>2, <4>3, <4>6, <1>2
    <3>4. CASE q # n /\ q # p /\ q # m
      <4>1. q \in DOMAIN h /\ k[q] = h[q]
        BY <3>4, <1>4, <1>9
      <4>2. /\ h[q].next >= q + SIZEOF_STRUCT_MEM + MIN_SIZE_ALIGNED
            /\ \A r \in DOMAIN h : r <= q \/ r >= h[q].next
            /\ h[q].next # RamEnd => h[h[q].next].prev = q
            /\ q # 0 => h[q].prev < q /\ h[h[q].prev].next = q
        BY <4>1, <2>3, LinkedAt
      <4>3. /\ q \in Int /\ h[q].next \in Int /\ h[q].next \in DOMAIN h
            /\ h[q].prev \in DOMAIN h
        BY <4>1, ListTypes
      <4>4. h[q].next # m
        BY <4>1, <3>4, <2>3, NextDiffers
      <4>5. n <= q \/ n >= h[q].next
        <5>1. (p <= q \/ p >= h[q].next) /\ (q <= p \/ q >= m) /\ (m <= q \/ m >= h[q].next)
          BY <4>1, <4>2, <3>0, <1>1
        <5> QED  BY <5>1, <4>3, <3>4, <1>0, <1>1, <1>2
      <4>6. \A r \in DOMAIN k : r <= q \/ r >= h[q].next
        BY <4>2, <4>5, <1>4
      <4>7. h[q].next # RamEnd => k[h[q].next].prev = q
        <5>1. CASE h[q].next = p
          BY <5>1, <4>2, <1>7 DEF Mem
        <5>2. CASE h[q].next # p
          BY <5>2, <4>2, <4>3, <4>4, <1>9
        <5> QED  BY <5>1, <5>2
      <4>8. ASSUME q # 0
            PROVE  k[h[q].prev].next = q
        <5>1. h[h[q].prev].next = q
          BY <4>8, <4>2
        <5>2. h[q].prev # p
          BY <5>1, <3>4
        <5>3. CASE h[q].prev = m
          <6>1. m # RamEnd
            BY <5>1, <5>3, <2>3, <4>8, <1>5 DEF IsLinked, Mem
          <6> QED  BY <6>1, <5>1, <5>3, <1>8 DEF Mem
        <5>4. CASE h[q].prev # m
          BY <5>1, <5>2, <5>4, <4>3, <1>9
        <5> QED  BY <5>3, <5>4
      <4> QED  BY <4>1, <4>2, <4>6, <4>7, <4>8
    <3> QED  BY <3>1, <3>2, <3>3, <3>4
  <2> QED  BY <2>1, <2>2, <2>3 DEF IsLinked
<1> QED  BY <1>10, <1>11 DEF k

\* Two neighbours can be made one (plug_holes, mem_trim).
LEMMA MergeLinked ==
  ASSUME NEW h, IsList(h), IsLinked(h), NEW p \in DOMAIN h, p # RamEnd, h[p].next # RamEnd
  PROVE  IsList(Merge(h, p)) /\ IsLinked(Merge(h, p))
<1> DEFINE n == h[p].next
           m == h[n].next
           k == Merge(h, p)
<1>1. /\ p \in Int /\ 0 <= p /\ n \in Int /\ n \in DOMAIN h
      /\ h[p].prev \in DOMAIN h /\ h[p].prev \in Int
  BY ListTypes
<1>2. m \in Int /\ m <= RamEnd /\ m \in DOMAIN h
  BY <1>1, ListTypes
<1>3. p < n /\ n < m
  <2>1. n >= p + SIZEOF_STRUCT_MEM + MIN_SIZE_ALIGNED
    BY LinkedAt
  <2>2. m >= n + SIZEOF_STRUCT_MEM + MIN_SIZE_ALIGNED
    BY <1>1, LinkedAt
  <2> QED  BY <2>1, <2>2, <1>1, <1>2, Sizes
<1>4. DOMAIN k = DOMAIN h \ {n}
  BY DEF Merge
<1>5. 0 \in DOMAIN h \ {n} /\ RamEnd \in DOMAIN h \ {n}
  BY <1>1, <1>3 DEF IsList
<1>6. k[p] = Mem(m, h[p].prev, 0)
  BY <1>1, <1>2, <1>3 DEF Merge
<1>7. m # RamEnd => k[m] = Mem(h[m].next, p, h[m].used)
  BY <1>1, <1>2, <1>3 DEF Merge
<1>8. ASSUME NEW q \in DOMAIN h, q # p, q # n, q # m \/ q = RamEnd
      PROVE  k[q] = h[q]
  BY <1>8 DEF Merge
<1>9. ASSUME NEW q \in DOMAIN h, q # p, q # RamEnd
      PROVE  h[q].next # n
  BY <1>9, NextDiffers
<1>10. ASSUME NEW q \in DOMAIN h, q # m, q # 0, q # RamEnd
       PROVE  h[q].prev # n
  BY <1>10, LinkedAt
<1>11. h[p].prev # n
  <2>1. CASE p = 0
    BY <2>1, <1>1, <1>3 DEF IsLinked
  <2>2. CASE p # 0
    <3>1. h[p].prev < p
      BY <2>2, LinkedAt
    <3> QED  BY <3>1, <1>1, <1>3
  <2> QED  BY <2>1, <2>2
<1> HIDE DEF k
<1>12. IsList(k)
  <2>1. DOMAIN k \subseteq 0..RamEnd
    BY <1>4 DEF IsList
  <2>2. ASSUME NEW q \in DOMAIN k
        PROVE  k[q] \in [next : DOMAIN k, prev : DOMAIN k, used : {0, 1}]
    <3>1. CASE q = p
      BY <3>1, <1>1, <1>2, <1>3, <1>4, <1>6, <1>11 DEF Mem
    <3>2. CASE q = m /\ m # RamEnd
      <4>1. h[m].next \in DOMAIN h /\ h[m].used \in {0, 1}
        BY <1>2, ListTypes
      <4>2. h[m].next # n
        BY <3>2, <1>1, <1>2, <1>3, <1>9
      <4>3. p \in DOMAIN k
        BY <1>1, <1>3, <1>4
      <4> QED  BY <3>2, <4>1, <4>2, <4>3, <1>4, <1>7 DEF Mem
    <3>3. CASE q # p /\ (q # m \/ q = RamEnd)
      <4>1. q \in DOMAIN h /\ q # n /\ k[q] = h[q]
        BY <3>3, <1>4, <1>8
      <4>2. h[q] \in [next : DOMAIN h, prev : DOMAIN h, used : {0, 1}]
        BY <4>1 DEF IsList
      <4>3. h[q].next # n /\ h[q].prev # n
        <5>1. CASE q = RamEnd
          BY <5>1 DEF IsLinked, Mem
        <5>2. CASE q # RamEnd /\ q # 0
          BY <5>2, <4>1, <3>3, <1>9, <1>10
        <5>3. CASE q = 0 /\ q # RamEnd
          BY <5>3, <4>1, <3>3, <1>5, <1>9 DEF IsLinked
        <5> QED  BY <5>1, <5>2, <5>3
      <4> QED  BY <4>1, <4>2, <4>3, <1>4
    <3> QED  BY <3>1, <3>2, <3>3
  <2>3. k = [q \in DOMAIN k |-> k[q]]
    BY <1>4 DEF k, Merge
  <2> QED  BY <2>1, <2>2, <2>3, <1>4, <1>5 DEF IsList
<1>13. IsLinked(k)
  <2>1. k[0].prev = 0
    <3>1. h[0].prev = 0 /\ m # 0
      BY <1>1, <1>2, <1>3 DEF IsLinked
    <3>2. CASE p = 0
      BY <3>1, <3>2, <1>6 DEF Mem
    <3>3. CASE p # 0
      BY <3>1, <3>3, <1>5, <1>8
    <3> QED  BY <3>2, <3>3
  <2>2. k[RamEnd] = Mem(RamEnd, RamEnd, 1)
    BY <1>5, <1>8 DEF IsLinked
  <2>3. ASSUME NEW q \in DOMAIN k, q # RamEnd
        PROVE  /\ k[q].next >= q + SIZEOF_STRUCT_MEM + MIN_SIZE_ALIGNED
               /\ \A r \in DOMAIN k : r <= q \/ r >= k[q].next
               /\ k[q].next # RamEnd => k[k[q].next].prev = q
               /\ q # 0 => k[q].prev < q /\ k[k[q].prev].next = q
    <3>0. /\ q \in DOMAIN h /\ q # n /\ q \in Int
          /\ h[q].next \in DOMAIN h /\ h[q].next \in Int
          /\ h[q].prev \in DOMAIN h /\ h[q].prev \in Int
      BY <1>4, ListTypes
    <3>1. /\ h[q].next >= q + SIZEOF_STRUCT_MEM + MIN_SIZE_ALIGNED
          /\ \A r \in DOMAIN h : r <= q \/ r >= h[q].next
          /\ h[q].next # RamEnd => h[h[q].next].prev = q
          /\ q # 0 => h[q].prev < q /\ h[h[q].prev].next = q
      BY <3>0, <2>3, LinkedAt
    <3>2. CASE q = p
      <4>1. k[p].next = m /\ k[p].prev = h[p].prev
        BY <1>6 DEF Mem
      <4>2. m # RamEnd => k[m].prev = p
        BY <1>7 DEF Mem
      <4>3. /\ \A r \in DOMAIN h : r <= n \/ r >= m
            /\ m >= n + SIZEOF_STRUCT_MEM + MIN_SIZE_ALIGNED
        BY <1>1, LinkedAt
      <4>4. \A r \in DOMAIN h : r \in Int
        BY ListTypes
      <4>5. \A r \in DOMAIN k : r <= p \/ r >= m
        BY <4>3, <4>4, <3>1, <3>2, <1>1, <1>2, <1>3, <1>4
      <4>6. m >= p + SIZEOF_STRUCT_MEM + MIN_SIZE_ALIGNED
        BY <4>3, <1>1, <1>2, <1>3, Sizes
      <4>7. ASSUME p # 0 PROVE k[h[p].prev] = h[h[p].prev]
        <5>1. h[p].prev < p
          BY <4>7, <3>1, <3>2
        <5>2. h[p].prev # p /\ h[p].prev # m
          BY <5>1, <1>1, <1>2, <1>3
        <5> QED  BY <5>2, <1>1, <1>8, <1>11
      <4> QED  BY <3>1, <3>2, <4>1, <4>2, <4>5, <4>6, <4>7
    <3>3. CASE q = m
      <4>1. k[m].next = h[m].next /\ k[m].prev = p /\ k[p].next = m
        BY <3>3, <2>3, <1>6, <1>7 DEF Mem
      <4>2. h[m].next # m /\ h[m].next # p /\ h[m].next # n
        BY <3>0, <3>1, <3>3, <1>1, <1>2, <1>3, Sizes
      <4>3. k[h[m].next] = h[h[m].next]
        BY <4>2, <3>0, <3>3, <1>8
      <4>4. \A r \in DOMAIN k : r <= m \/ r >= h[m].next
        BY <3>1, <3>3, <1>4
      <4>5. p < m
        BY <1>1, <1>2, <1>3
      <4> QED  BY <3>1, <3>3, <4>1, <4>3, <4>4, <4>5
    <3>4. CASE q # p /\ q # m
      <4>1. k[q] = h[q]
        BY <3>0, <3>4, <1>8
      <4>2. h[q].next # n
        BY <3>0, <3>4, <2>3, <1>9
      <4>3. h[q].next # m
        BY <3>0, <3>4, <2>3, <1>1, NextDiffers
      <4>4. h[q].next # RamEnd => k[h[q].next].prev = q
        <5>1. CASE h[q].next = p
          BY <5>1, <3>1, <1>6 DEF Mem
        <5>2. CASE h[q].next # p
          BY <5>2, <3>0, <3>1, <4>2, <4>3, <1>8
        <5> QED  BY <5>1, <5>2
      <4>5. ASSUME q # 0 PROVE k[h[q].prev].next = q
        <5>1. h[h[q].prev].next = q
          BY <4>5, <3>1
        <5>2. h[q].prev # p /\ h[q].prev # n
          BY <5>1, <3>0, <3>4
        <5>3. CASE h[q].prev = m
          <6>1. m # RamEnd
            BY <5>1, <5>3, <2>3 DEF IsLinked, Mem
          <6> QED  BY <6>1, <5>1, <5>3, <1>7 DEF Mem
        <5>4. CASE h[q].prev # m
          BY <5>1, <5>2, <5>4, <3>0, <1>8
        <5> QED  BY <5>3, <5>4
      <4>6. \A r \in DOMAIN k : r <= q \/ r >= h[q].next
        BY <3>1, <1>4
      <4> QED  BY <3>1, <4>1, <4>4, <4>5, <4>6
    <3> QED  BY <3>2, <3>3, <3>4
  <2> QED  BY <2>1, <2>2, <2>3 DEF IsLinked
<1> QED  BY <1>12, <1>13 DEF k

-----------------------------------------------------------------------------
(* NoTwoHoles and OwnersHaveRoom of any list *)

\* No hole is followed by another, except perhaps those of S.
Holes(h, S) ==
  \A q \in DOMAIN h : q # RamEnd /\ q \notin S /\ h[q].used = 0 => h[h[q].next].used = 1

\* The blocks that are used are those of o, except perhaps those of S.
Owners(h, o, S) ==
  \A q \in DOMAIN h : q # RamEnd /\ q \notin S =>
    /\ h[q].used = 1 <=> q \in DOMAIN o
    /\ q \in DOMAIN o => o[q] <= h[q].next - (q + SIZEOF_STRUCT_MEM)

\* k is h with the block at p split at n: what a reader of next and used sees.
IsSplit(h, p, n, u, k) ==
  /\ DOMAIN k = DOMAIN h \cup {n} /\ n \notin DOMAIN h
  /\ p < n /\ n < h[p].next /\ n < RamEnd
  /\ k[n].next = h[p].next /\ k[n].used = 0
  /\ k[p].next = n /\ k[p].used = u
  /\ \A q \in DOMAIN h : q # p => k[q].next = h[q].next /\ k[q].used = h[q].used

\* What Split changes.
LEMMA SplitFacts ==
  ASSUME NEW h, IsList(h), IsLinked(h), NEW p \in DOMAIN h, p # RamEnd,
         NEW n, CanSplit(h, p, n), NEW u,
         NEW k, k = Split(h, p, n, h[p].next, u)
  PROVE  IsSplit(h, p, n, u, k)
<1>1. p \in Int /\ h[p].next \in Int /\ h[p].next <= RamEnd /\ h[p].next \in DOMAIN h
  BY ListTypes
<1>2. p < n /\ n < h[p].next /\ n < RamEnd
  BY <1>1, Sizes DEF CanSplit
<1>3. n \notin DOMAIN h
  BY <1>1, <1>2, LinkedAt DEF CanSplit
<1>4. DOMAIN k = DOMAIN h \cup {n}
  BY DEF Split
<1>5. k[n].next = h[p].next /\ k[n].used = 0
  BY <1>1, <1>3 DEF Split, Mem
<1>6. k[p].next = n /\ k[p].used = u
  BY <1>1, <1>2, <1>3, Sizes DEF Split, Mem, CanSplit
<1>7. ASSUME NEW q \in DOMAIN h, q # p
      PROVE  k[q].next = h[q].next /\ k[q].used = h[q].used
  <2>1. CASE q = h[p].next /\ q # RamEnd
    <3>1. k[q] = Mem(h[q].next, n, h[q].used)
      BY <2>1, <1>3, <1>7 DEF Split
    <3> QED  BY <3>1 DEF Mem
  <2>2. CASE q # h[p].next \/ q = RamEnd
    <3>1. k[q] = h[q]
      BY <2>2, <1>3, <1>7 DEF Split
    <3> QED  BY <3>1
  <2> QED  BY <2>1, <2>2
<1> QED  BY <1>2, <1>3, <1>4, <1>5, <1>6, <1>7 DEF IsSplit

\* k is h with the block at p and the one behind it made one that is free.
IsMerged(h, p, k) ==
  /\ DOMAIN k = DOMAIN h \ {h[p].next} /\ p < h[p].next
  /\ k[p].next = h[h[p].next].next /\ k[p].used = 0 /\ k[p].prev = h[p].prev
  /\ \A q \in DOMAIN h : q # p /\ q # h[p].next =>
       k[q].next = h[q].next /\ k[q].used = h[q].used
  /\ \A q \in DOMAIN h : q # p /\ q # RamEnd => h[q].next # h[p].next

\* What Merge changes.
LEMMA MergeFacts ==
  ASSUME NEW h, IsList(h), IsLinked(h), NEW p \in DOMAIN h, p # RamEnd, h[p].next # RamEnd,
         NEW k, k = Merge(h, p)
  PROVE  IsMerged(h, p, k)
<1> DEFINE n == h[p].next
           m == h[n].next
<1>1. p \in Int /\ n \in Int /\ n \in DOMAIN h
  BY ListTypes
<1>2. m \in Int /\ m \in DOMAIN h
  BY <1>1, ListTypes
<1>3. p < n /\ n < m
  <2>1. n >= p + SIZEOF_STRUCT_MEM + MIN_SIZE_ALIGNED
    BY LinkedAt
  <2>2. m >= n + SIZEOF_STRUCT_MEM + MIN_SIZE_ALIGNED
    BY <1>1, LinkedAt
  <2> QED  BY <2>1, <2>2, <1>1, <1>2, Sizes
<1>4. DOMAIN k = DOMAIN h \ {n}
  BY DEF Merge
<1>5. k[p] = Mem(m, h[p].prev, 0)
  BY <1>1, <1>2, <1>3 DEF Merge
<1>6. ASSUME NEW q \in DOMAIN h, q # p, q # n
      PROVE  k[q].next = h[q].next /\ k[q].used = h[q].used
  <2>1. CASE q = m /\ q # RamEnd
    <3>1. k[q] = Mem(h[q].next, p, h[q].used)
      BY <2>1, <1>6 DEF Merge
    <3> QED  BY <3>1 DEF Mem
  <2>2. CASE q # m \/ q = RamEnd
    <3>1. k[q] = h[q]
      BY <2>2, <1>6 DEF Merge
    <3> QED  BY <3>1
  <2> QED  BY <2>1, <2>2
<1>7. \A q \in DOMAIN h : q # p /\ q # RamEnd => h[q].next # n
  BY NextDiffers
<1>8. k[p].next = m /\ k[p].used = 0 /\ k[p].prev = h[p].prev
  BY <1>5 DEF Mem
<1> QED  BY <1>3, <1>4, <1>6, <1>7, <1>8 DEF IsMerged

\* The block at p and the one in front of it.
Around(h, p) == {p} \cup {q \in DOMAIN h : h[q].next = p}

\* Splitting the block of a new or smaller owner in front of a block that is used.
LEMMA SplitKeeps ==
  ASSUME NEW h, IsList(h), IsLinked(h), NEW p \in DOMAIN h, p # RamEnd,
         NEW n, CanSplit(h, p, n),
         Holes(h, Around(h, p)), h[h[p].next].used = 1,
         NEW o, DOMAIN o \subseteq DOMAIN h, Owners(h, o, {p}),
         p \in DOMAIN o, o[p] <= n - (p + SIZEOF_STRUCT_MEM),
         NEW k, k = Split(h, p, n, h[p].next, 1)
  PROVE  Holes(k, {}) /\ Owners(k, o, {})
<1>1. /\ DOMAIN k = DOMAIN h \cup {n} /\ n \notin DOMAIN h
      /\ p < n /\ n < h[p].next /\ n < RamEnd
      /\ k[n].next = h[p].next /\ k[n].used = 0
      /\ k[p].next = n /\ k[p].used = 1
      /\ \A q \in DOMAIN h : q # p => k[q].next = h[q].next /\ k[q].used = h[q].used
  <2>1. IsSplit(h, p, n, 1, k)
    BY SplitFacts
  <2> QED  BY <2>1 DEF IsSplit
<1>2. h[p].next \in DOMAIN h /\ h[p].next # p
  <2>1. n \in Int /\ p \in Int /\ h[p].next \in Int /\ h[p].next \in DOMAIN h
    BY ListTypes DEF CanSplit
  <2> QED  BY <2>1, <1>1
<1>3. Holes(k, {})
  <2> SUFFICES ASSUME NEW q \in DOMAIN k, q # RamEnd, k[q].used = 0
               PROVE  k[k[q].next].used = 1
    BY DEF Holes
  <2>1. CASE q = n
    BY <2>1, <1>1, <1>2
  <2>2. CASE q \in DOMAIN h /\ q # p
    <3>1. h[q].next \in DOMAIN h
      BY <2>2, ListTypes
    <3>2. CASE h[q].next = p
      BY <2>2, <3>2, <1>1
    <3>3. CASE h[q].next # p
      <4>1. h[h[q].next].used = 1
        BY <2>2, <3>3, <1>1 DEF Holes, Around
      <4> QED  BY <2>2, <3>1, <3>3, <4>1, <1>1
    <3> QED  BY <3>2, <3>3
  <2> QED  BY <2>1, <2>2, <1>1
<1>4. Owners(k, o, {})
  <2> SUFFICES ASSUME NEW q \in DOMAIN k, q # RamEnd
               PROVE  /\ k[q].used = 1 <=> q \in DOMAIN o
                      /\ q \in DOMAIN o => o[q] <= k[q].next - (q + SIZEOF_STRUCT_MEM)
    BY DEF Owners
  <2>1. CASE q = n
    BY <2>1, <1>1
  <2>2. CASE q = p
    BY <2>2, <1>1
  <2>3. CASE q \in DOMAIN h /\ q # p
    BY <2>3, <1>1 DEF Owners
  <2> QED  BY <2>1, <2>2, <2>3, <1>1
<1> QED  BY <1>3, <1>4

\* Making one block of two that are free.
LEMMA MergeKeeps ==
  ASSUME NEW h, IsList(h), IsLinked(h), NEW p \in DOMAIN h, p # RamEnd, h[p].next # RamEnd,
         h[p].used = 0, h[h[p].next].used = 0,
         NEW S, Holes(h, S), h[p].next \notin S,
         NEW o, DOMAIN o \subseteq DOMAIN h, Owners(h, o, {}),
         NEW l, IsLowestFree(h, 0, l),
         NEW k, k = Merge(h, p)
  PROVE  /\ Holes(k, S \ {p}) /\ Owners(k, o, {}) /\ DOMAIN o \subseteq DOMAIN k
         /\ IsLowestFree(k, 0, l) /\ l # h[p].next
<1> DEFINE n == h[p].next
           m == h[n].next
<1>1. /\ DOMAIN k = DOMAIN h \ {n} /\ p < n
      /\ k[p].next = m /\ k[p].used = 0
      /\ \A q \in DOMAIN h : q # p /\ q # n => k[q].next = h[q].next /\ k[q].used = h[q].used
      /\ \A q \in DOMAIN h : q # p /\ q # RamEnd => h[q].next # n
  <2>1. IsMerged(h, p, k)
    BY MergeFacts
  <2> QED  BY <2>1 DEF IsMerged
<1>2. p \in Int /\ 0 <= p /\ n \in Int /\ n \in DOMAIN h
  BY ListTypes
<1>3. m \in Int /\ m \in DOMAIN h
  BY <1>2, ListTypes
<1>4. m # n /\ m # p
  <2>1. m >= n + SIZEOF_STRUCT_MEM + MIN_SIZE_ALIGNED
    BY <1>2, LinkedAt
  <2> QED  BY <2>1, <1>1, <1>2, <1>3, Sizes
<1>5. Holes(k, S \ {p})
  <2> SUFFICES ASSUME NEW q \in DOMAIN k, q # RamEnd, q \notin S \ {p}, k[q].used = 0
               PROVE  k[k[q].next].used = 1
    BY DEF Holes
  <2>1. CASE q = p
    <3>1. h[m].used = 1
      BY <1>2 DEF Holes
    <3> QED  BY <2>1, <3>1, <1>1, <1>3, <1>4
  <2>2. CASE q # p
    <3>1. q \in DOMAIN h /\ q # n /\ h[q].next # n /\ h[q].next \in DOMAIN h
      BY <2>2, <1>1, ListTypes
    <3>2. h[h[q].next].used = 1
      BY <2>2, <3>1, <1>1 DEF Holes
    <3>3. h[q].next # p
      BY <3>2
    <3> QED  BY <2>2, <3>1, <3>2, <3>3, <1>1
  <2> QED  BY <2>1, <2>2
<1>6. p \notin DOMAIN o /\ n \notin DOMAIN o
  BY <1>2 DEF Owners
<1>7. Owners(k, o, {})
  <2> SUFFICES ASSUME NEW q \in DOMAIN k, q # RamEnd
               PROVE  /\ k[q].used = 1 <=> q \in DOMAIN o
                      /\ q \in DOMAIN o => o[q] <= k[q].next - (q + SIZEOF_STRUCT_MEM)
    BY DEF Owners
  <2>1. CASE q = p
    BY <2>1, <1>1, <1>6
  <2>2. CASE q # p
    BY <2>2, <1>1 DEF Owners
  <2> QED  BY <2>1, <2>2
<1>8. DOMAIN o \subseteq DOMAIN k
  BY <1>1, <1>6
<1>9. l \in DOMAIN h /\ l \in Int /\ 0 <= l /\ l <= p
  <2>1. l \in DOMAIN h
    BY DEF IsLowestFree
  <2>2. l \in Int /\ 0 <= l
    BY <2>1, ListTypes
  <2>3. ~ (p < l)
    BY <1>2 DEF IsLowestFree
  <2> QED  BY <2>1, <2>2, <2>3, <1>2
<1>10. l # n
  BY <1>1, <1>2, <1>9
<1>11. IsLowestFree(k, 0, l)
  <2>1. l \in DOMAIN k /\ (l = RamEnd \/ k[l].used = 0)
    BY <1>1, <1>9, <1>10 DEF IsLowestFree
  <2>2. ASSUME NEW r \in DOMAIN k, r < l PROVE k[r].used = 1
    <3>1. r \in DOMAIN h /\ r # n /\ r \in Int /\ 0 <= r
      BY <1>1, ListTypes
    <3>2. r # p
      BY <3>1, <2>2, <1>2, <1>9
    <3>3. h[r].used = 1
      BY <3>1, <2>2 DEF IsLowestFree
    <3> QED  BY <3>1, <3>2, <3>3, <1>1
  <2> QED  BY <2>1, <2>2, <1>9 DEF IsLowestFree
<1> QED  BY <1>5, <1>7, <1>8, <1>10, <1>11

\* k is h with the used field of p set to u.
IsMarked(h, p, u, k) ==
  /\ DOMAIN k = DOMAIN h /\ k[p].used = u
  /\ \A q \in DOMAIN h : k[q].next = h[q].next /\ k[q].prev = h[q].prev
  /\ \A q \in DOMAIN h : q # p => k[q].used = h[q].used

\* Setting used changes no link.
LEMMA MarkLinked ==
  ASSUME NEW h, IsList(h), IsLinked(h), NEW p \in DOMAIN h, p # RamEnd, NEW u \in {0, 1},
         NEW k, k = [h EXCEPT ![p].used = u]
  PROVE  IsList(k) /\ IsLinked(k) /\ IsMarked(h, p, u, k)
<1>0. h \in [DOMAIN h -> [next : DOMAIN h, prev : DOMAIN h, used : {0, 1}]]
  BY DEF IsList
<1>1. DOMAIN k = DOMAIN h
  OBVIOUS
<1>2. ASSUME NEW q \in DOMAIN h, q # p PROVE k[q] = h[q]
  BY <1>2
<1>3. k[p].next = h[p].next /\ k[p].prev = h[p].prev /\ k[p].used = u
  BY <1>0
<1>4. \A q \in DOMAIN h : k[q].next = h[q].next /\ k[q].prev = h[q].prev
  BY <1>2, <1>3
<1>5. IsList(k)
  <2>1. k \in [DOMAIN h -> [next : DOMAIN h, prev : DOMAIN h, used : {0, 1}]]
    BY <1>0
  <2> QED  BY <2>1, <1>1 DEF IsList
<1>6. IsLinked(k)
  <2>1. k[0].prev = 0 /\ k[RamEnd] = Mem(RamEnd, RamEnd, 1)
    BY <1>2, <1>4 DEF IsLinked, IsList
  <2>2. ASSUME NEW q \in DOMAIN k, q # RamEnd
        PROVE  /\ k[q].next >= q + SIZEOF_STRUCT_MEM + MIN_SIZE_ALIGNED
               /\ \A r \in DOMAIN k : r <= q \/ r >= k[q].next
               /\ k[q].next # RamEnd => k[k[q].next].prev = q
               /\ q # 0 => k[q].prev < q /\ k[k[q].prev].next = q
    <3>1. /\ h[q].next >= q + SIZEOF_STRUCT_MEM + MIN_SIZE_ALIGNED
          /\ \A r \in DOMAIN h : r <= q \/ r >= h[q].next
          /\ h[q].next # RamEnd => h[h[q].next].prev = q
          /\ q # 0 => h[q].prev < q /\ h[h[q].prev].next = q
      BY <2>2, <1>1, LinkedAt
    <3>2. h[q].next \in DOMAIN h /\ h[q].prev \in DOMAIN h
      BY <1>1, ListTypes
    <3> QED  BY <3>1, <3>2, <1>1, <1>4
  <2> QED  BY <2>1, <2>2 DEF IsLinked
<1> QED  BY <1>1, <1>2, <1>3, <1>4, <1>5, <1>6 DEF IsMarked

-----------------------------------------------------------------------------
(* The operations *)

\* An aligned size is no less than what was asked for, nor than the minimum
\* (LWIP_MEM_ALIGN_SIZE, mem_malloc).
LEMMA AlignedSizeEnough ==
  ASSUME NEW n \in Nat \ {0}
  PROVE  /\ AlignedSize(n) \in Nat \ {0}
         /\ AlignedSize(n) >= n /\ AlignedSize(n) >= MIN_SIZE_ALIGNED
  BY HeapAssumption DEF AlignedSize

-----------------------------------------------------------------------------
(* The inductive invariant *)

HeapInv == HeapTypeOK /\ ListIntact /\ NoTwoHoles /\ LowestFree /\ OwnersHaveRoom

\* The same in terms of Holes and Owners.
GoodHeap(h, l, o) ==
  /\ IsList(h) /\ IsLinked(h) /\ Holes(h, {}) /\ IsLowestFree(h, 0, l)
  /\ DOMAIN o \subseteq DOMAIN h \ {RamEnd} /\ Owners(h, o, {})

\* HeapInv without the types of the history variables is GoodHeap.
LEMMA InvIsGood ==
  ASSUME owned \in [DOMAIN owned -> Requests], refused \in Nat
  PROVE  HeapInv <=> GoodHeap(heap, lfree, owned)
<1>1. NoTwoHoles <=> Holes(heap, {})
  BY DEF NoTwoHoles, Holes
<1>2. OwnersHaveRoom <=> Owners(heap, owned, {})
  BY DEF OwnersHaveRoom, Owners, Room
<1>3. IsLowestFree(heap, 0, lfree) => lfree \in DOMAIN heap
  BY DEF IsLowestFree
<1> QED  BY <1>1, <1>2, <1>3 DEF HeapInv, HeapTypeOK, ListIntact, LowestFree, GoodHeap

\* The heap that mem_init leaves is good.
LEMMA InitGood == HeapInit => HeapInv
<1> SUFFICES ASSUME HeapInit PROVE HeapInv
  OBVIOUS
<1>1. DOMAIN heap = {0, RamEnd} /\ 0 # RamEnd
  BY Sizes DEF HeapInit
<1>2. heap[0] = Mem(RamEnd, 0, 0) /\ heap[RamEnd] = Mem(RamEnd, RamEnd, 1)
  BY Sizes DEF HeapInit
<1>3. lfree = 0 /\ DOMAIN owned = {} /\ refused = 0 /\ owned \in [DOMAIN owned -> Requests]
  BY DEF HeapInit
<1>4. IsList(heap)
  <2>1. heap \in [DOMAIN heap -> [next : DOMAIN heap, prev : DOMAIN heap, used : {0, 1}]]
    BY <1>1 DEF HeapInit, Mem
  <2> QED  BY <2>1, <1>1, Sizes DEF IsList
<1>5. IsLinked(heap)
  BY <1>1, <1>2, Sizes, HeapAssumption DEF IsLinked, Mem, RamEnd
<1>6. Holes(heap, {}) /\ Owners(heap, owned, {}) /\ IsLowestFree(heap, 0, lfree)
  BY <1>1, <1>2, <1>3, Sizes DEF Holes, Owners, IsLowestFree, Mem
<1>7. GoodHeap(heap, lfree, owned)
  BY <1>3, <1>4, <1>5, <1>6 DEF GoodHeap
<1> QED  BY <1>3, <1>7, InvIsGood

-----------------------------------------------------------------------------
(* The operations *)

\* mem_malloc takes the first block that fits, splits it or not, and looks for the
\* next lowest free one.
LEMMA MallocGood ==
  ASSUME GoodHeap(heap, lfree, owned), NEW n \in Requests, Malloc(n)
  PROVE  GoodHeap(heap', lfree', owned')
<1> DEFINE size == AlignedSize(n)
<1>0. /\ IsList(heap) /\ IsLinked(heap) /\ Holes(heap, {}) /\ IsLowestFree(heap, 0, lfree)
      /\ DOMAIN owned \subseteq DOMAIN heap \ {RamEnd} /\ Owners(heap, owned, {})
  BY DEF GoodHeap
<1>1. n \in Int /\ size \in Int /\ size >= n /\ size >= MIN_SIZE_ALIGNED
  BY HeapAssumption, AlignedSizeEnough
<1>2. PICK p \in Fits(size) :
        /\ heap' = Taken(p, size) /\ Lowest(p)
        /\ owned' = [q \in DOMAIN owned \cup {p} |-> IF q = p THEN n ELSE owned[q]]
  BY DEF Malloc
<1> HIDE DEF size
<1>3. p \in DOMAIN heap /\ heap[p].used = 0 /\ lfree <= p /\ Room(p) >= size
  BY DEF Fits
<1>4. p # RamEnd
  BY <1>0, <1>3 DEF IsLinked, Mem
<1>5. /\ p \in Int /\ 0 <= p /\ p <= RamEnd /\ heap[p].next \in Int
      /\ heap[p].next \in DOMAIN heap /\ heap[p].next <= RamEnd
  BY <1>0, <1>3, ListTypes
<1>6. heap[heap[p].next].used = 1
  BY <1>0, <1>3, <1>4 DEF Holes
<1>7. /\ DOMAIN owned' = DOMAIN owned \cup {p} /\ owned'[p] = n
      /\ \A q \in DOMAIN owned : q # p => owned'[q] = owned[q]
  BY <1>2
<1>8. DOMAIN owned' \subseteq DOMAIN heap \ {RamEnd} /\ Owners(heap, owned', {p})
  <2>1. DOMAIN owned' \subseteq DOMAIN heap \ {RamEnd}
    BY <1>0, <1>3, <1>4, <1>7
  <2>2. Owners(heap, owned', {p})
    BY <1>0, <1>7 DEF Owners
  <2> QED  BY <2>1, <2>2
<1>9. /\ IsList(heap') /\ IsLinked(heap') /\ Holes(heap', {}) /\ Owners(heap', owned', {})
      /\ DOMAIN heap \subseteq DOMAIN heap'
      /\ \A q \in DOMAIN heap : q # p => heap'[q].used = heap[q].used
      /\ \A q \in DOMAIN heap' : q <= p => q \in DOMAIN heap
  <2> DEFINE b == p + SIZEOF_STRUCT_MEM + size
  <2>1. CASE Room(p) >= size + SIZEOF_STRUCT_MEM + MIN_SIZE_ALIGNED
    <3>1. heap' = Split(heap, p, b, heap[p].next, 1)
      BY <1>2, <2>1 DEF Taken
    <3>2. CanSplit(heap, p, b)
      BY <2>1, <1>1, <1>5, Sizes DEF CanSplit, Room
    <3>3. owned'[p] <= b - (p + SIZEOF_STRUCT_MEM) /\ b \in Int
      BY <1>1, <1>5, <1>7, Sizes
    <3>4. IsSplit(heap, p, b, 1, heap')
      BY <3>1, <3>2, <1>0, <1>3, <1>4, SplitFacts
    <3>5. Holes(heap, Around(heap, p)) /\ DOMAIN owned' \subseteq DOMAIN heap /\ p \in DOMAIN owned'
      BY <1>0, <1>7, <1>8 DEF Holes
    <3> HIDE DEF b
    <3>6. Holes(heap', {}) /\ Owners(heap', owned', {})
      BY <3>1, <3>2, <3>3, <3>5, <1>0, <1>3, <1>4, <1>6, <1>8, SplitKeeps
    <3>7. IsList(heap') /\ IsLinked(heap')
      BY <3>1, <3>2, <1>0, <1>3, <1>4, SplitLinked
    <3>8. ASSUME NEW q \in DOMAIN heap', q <= p PROVE q \in DOMAIN heap
      BY <3>3, <3>4, <3>8, <1>5 DEF IsSplit
    <3> QED  BY <3>4, <3>6, <3>7, <3>8 DEF IsSplit
  <2>2. CASE ~ (Room(p) >= size + SIZEOF_STRUCT_MEM + MIN_SIZE_ALIGNED)
    <3>1. heap' = [heap EXCEPT ![p].used = 1]
      BY <1>2, <2>2 DEF Taken
    <3>2. IsList(heap') /\ IsLinked(heap') /\ IsMarked(heap, p, 1, heap')
      BY <3>1, <1>0, <1>3, <1>4, MarkLinked
    <3>3. Holes(heap', {})
      <4> SUFFICES ASSUME NEW q \in DOMAIN heap, q # RamEnd, heap'[q].used = 0
                   PROVE  heap'[heap'[q].next].used = 1
        BY <3>2 DEF Holes, IsMarked
      <4>1. q # p /\ heap[q].used = 0 /\ heap'[q].next = heap[q].next
        BY <3>2 DEF IsMarked
      <4>2. heap[heap[q].next].used = 1 /\ heap[q].next \in DOMAIN heap
        BY <4>1, <1>0, ListTypes DEF Holes
      <4> QED  BY <4>1, <4>2, <3>2 DEF IsMarked
    <3>4. Owners(heap', owned', {})
      <4> SUFFICES ASSUME NEW q \in DOMAIN heap, q # RamEnd
                   PROVE  /\ heap'[q].used = 1 <=> q \in DOMAIN owned'
                          /\ q \in DOMAIN owned' =>
                               owned'[q] <= heap'[q].next - (q + SIZEOF_STRUCT_MEM)
        BY <3>2 DEF Owners, IsMarked
      <4>1. CASE q = p
        <5>1. n <= heap[p].next - (p + SIZEOF_STRUCT_MEM)
          BY <1>1, <1>3, <1>5, Sizes DEF Room
        <5> QED  BY <4>1, <5>1, <3>2, <1>3, <1>7 DEF IsMarked
      <4>2. CASE q # p
        BY <4>2, <3>2, <1>8 DEF IsMarked, Owners
      <4> QED  BY <4>1, <4>2
    <3> QED  BY <3>2, <3>3, <3>4 DEF IsMarked
  <2> QED  BY <2>1, <2>2
<1>10. IsLowestFree(heap', 0, lfree')
  <2>0. lfree \in DOMAIN heap /\ lfree \in Int /\ 0 <= lfree
    BY <1>0, ListTypes DEF IsLowestFree
  <2>1. ASSUME NEW r \in DOMAIN heap', r < lfree PROVE heap'[r].used = 1
    <3>1. r \in Int /\ 0 <= r
      BY <1>9, ListTypes
    <3>2. r \in DOMAIN heap /\ r # p
      BY <3>1, <2>0, <2>1, <1>3, <1>5, <1>9
    <3>3. heap[r].used = 1
      BY <3>1, <3>2, <2>1, <1>0 DEF IsLowestFree
    <3> QED  BY <3>2, <3>3, <1>9
  <2>2. CASE p # lfree
    <3>1. lfree' = lfree
      BY <1>2, <2>2 DEF Lowest
    <3>2. heap'[lfree].used = heap[lfree].used /\ lfree \in DOMAIN heap'
      BY <2>0, <2>2, <1>9
    <3>3. lfree = RamEnd \/ heap[lfree].used = 0
      BY <1>0 DEF IsLowestFree
    <3> QED  BY <3>1, <3>2, <3>3, <2>0, <2>1 DEF IsLowestFree
  <2>3. CASE p = lfree
    <3>1. IsLowestFree(heap', lfree, lfree')
      BY <1>2, <2>3 DEF Lowest
    <3>2. lfree' \in DOMAIN heap' /\ lfree' \in Int
      BY <3>1, <1>9, ListTypes DEF IsLowestFree
    <3>3. ASSUME NEW r \in DOMAIN heap', r < lfree' PROVE heap'[r].used = 1
      <4>1. r \in Int
        BY <1>9, ListTypes
      <4>2. CASE r < lfree
        BY <4>2, <2>1
      <4>3. CASE lfree <= r
        BY <4>3, <3>1, <3>3 DEF IsLowestFree
      <4> QED  BY <4>1, <4>2, <4>3, <2>0
    <3>4. 0 <= lfree'
      BY <3>1, <3>2, <2>0 DEF IsLowestFree
    <3> QED  BY <3>1, <3>2, <3>3, <3>4 DEF IsLowestFree
  <2> QED  BY <2>2, <2>3
<1>11. DOMAIN owned' \subseteq DOMAIN heap' \ {RamEnd}
  BY <1>8, <1>9
<1> QED  BY <1>9, <1>10, <1>11 DEF GoodHeap

\* A heap in which p has just been freed: it and its neighbours may be holes.
Plugged(h, l, o, p, S) ==
  /\ IsList(h) /\ IsLinked(h) /\ Holes(h, S) /\ IsLowestFree(h, 0, l)
  /\ DOMAIN o \subseteq DOMAIN h \ {RamEnd} /\ Owners(h, o, {})
  /\ p \in DOMAIN h /\ p # RamEnd /\ h[p].used = 0

\* Clearing used frees the block.
LEMMA FreedPlugged ==
  ASSUME GoodHeap(heap, lfree, owned), NEW p \in DOMAIN owned,
         NEW o, o = [q \in DOMAIN owned \ {p} |-> owned[q]]
  PROVE  Plugged(Freed(p).heap, Freed(p).lfree, o, p, {p, heap[p].prev})
         /\ Freed(p).heap[p].prev = heap[p].prev
<1> DEFINE h == Freed(p).heap
           l == Freed(p).lfree
<1>0. /\ IsList(heap) /\ IsLinked(heap) /\ Holes(heap, {}) /\ IsLowestFree(heap, 0, lfree)
      /\ DOMAIN owned \subseteq DOMAIN heap \ {RamEnd} /\ Owners(heap, owned, {})
  BY DEF GoodHeap
<1>1. p \in DOMAIN heap /\ p # RamEnd
  BY <1>0
<1>2. p \in Int /\ 0 <= p
  BY <1>0, <1>1, ListTypes
<1>3. h = [heap EXCEPT ![p].used = 0] /\ l = IF p < lfree THEN p ELSE lfree
  BY DEF Freed
<1> HIDE DEF h, l
<1>4. IsList(h) /\ IsLinked(h) /\ IsMarked(heap, p, 0, h)
  BY <1>0, <1>1, <1>3, MarkLinked
<1>5. Holes(h, {p, heap[p].prev})
  <2> SUFFICES ASSUME NEW q \in DOMAIN heap, q # RamEnd, q \notin {p, heap[p].prev}, h[q].used = 0
               PROVE  h[h[q].next].used = 1
    BY <1>4 DEF Holes, IsMarked
  <2>1. heap[q].used = 0 /\ h[q].next = heap[q].next /\ heap[q].next \in DOMAIN heap
    BY <1>0, <1>4, ListTypes DEF IsMarked
  <2>2. heap[heap[q].next].used = 1
    BY <2>1, <1>0 DEF Holes
  <2>3. heap[q].next # p
    BY <1>0, <1>1, LinkedAt
  <2> QED  BY <2>1, <2>2, <2>3, <1>4 DEF IsMarked
<1>6. DOMAIN o = DOMAIN owned \ {p} /\ \A q \in DOMAIN o : o[q] = owned[q]
  OBVIOUS
<1>7. Owners(h, o, {})
  <2> SUFFICES ASSUME NEW q \in DOMAIN heap, q # RamEnd
               PROVE  /\ h[q].used = 1 <=> q \in DOMAIN o
                      /\ q \in DOMAIN o => o[q] <= h[q].next - (q + SIZEOF_STRUCT_MEM)
    BY <1>4 DEF Owners, IsMarked
  <2>1. CASE q = p
    BY <2>1, <1>4, <1>6 DEF IsMarked
  <2>2. CASE q # p
    BY <2>2, <1>0, <1>4, <1>6 DEF IsMarked, Owners
  <2> QED  BY <2>1, <2>2
<1>8. IsLowestFree(h, 0, l)
  <2>1. lfree \in DOMAIN heap /\ lfree \in Int /\ 0 <= lfree
    BY <1>0, ListTypes DEF IsLowestFree
  <2>2. heap[p].used = 1
    BY <1>0, <1>1 DEF Owners
  <2>3. l \in DOMAIN h /\ l \in Int /\ 0 <= l /\ l <= p /\ l <= lfree
    BY <2>1, <1>1, <1>2, <1>3, <1>4 DEF IsMarked
  <2>4. l = RamEnd \/ h[l].used = 0
    <3>1. CASE l = p
      BY <3>1, <1>4 DEF IsMarked
    <3>2. CASE l # p
      <4>1. l = lfree
        BY <3>2, <1>3
      <4> QED  BY <3>2, <4>1, <2>1, <1>0, <1>4 DEF IsMarked, IsLowestFree
    <3> QED  BY <3>1, <3>2
  <2>5. ASSUME NEW r \in DOMAIN h, r < l PROVE h[r].used = 1
    <3>1. r \in DOMAIN heap /\ r \in Int /\ 0 <= r
      BY <1>4, ListTypes DEF IsMarked
    <3>2. r < lfree /\ r # p
      BY <3>1, <2>1, <2>3, <2>5, <1>2
    <3>3. heap[r].used = 1
      BY <3>1, <3>2, <1>0 DEF IsLowestFree
    <3> QED  BY <3>1, <3>2, <3>3, <1>4 DEF IsMarked
  <2> QED  BY <2>3, <2>4, <2>5 DEF IsLowestFree
<1>9. DOMAIN o \subseteq DOMAIN h \ {RamEnd} /\ p \in DOMAIN h /\ h[p].used = 0
      /\ h[p].prev = heap[p].prev
  BY <1>0, <1>1, <1>4, <1>6 DEF IsMarked
<1>10. Plugged(h, l, o, p, {p, heap[p].prev})
  BY <1>1, <1>4, <1>5, <1>7, <1>8, <1>9 DEF Plugged
<1> QED  BY <1>9, <1>10 DEF h, l

\* The forward half of plug_holes.
LEMMA PlugForwardKeeps ==
  ASSUME NEW h, NEW l, NEW o, NEW p, Plugged(h, l, o, p, {p, h[p].prev}),
         NEW m, m = PlugForward([heap |-> h, lfree |-> l], p)
  PROVE  Plugged(m.heap, m.lfree, o, p, {h[p].prev} \ {p}) /\ m.heap[p].prev = h[p].prev
<1> DEFINE n == h[p].next
<1>0. /\ IsList(h) /\ IsLinked(h) /\ Holes(h, {p, h[p].prev}) /\ IsLowestFree(h, 0, l)
      /\ DOMAIN o \subseteq DOMAIN h \ {RamEnd} /\ Owners(h, o, {})
      /\ p \in DOMAIN h /\ p # RamEnd /\ h[p].used = 0
  BY DEF Plugged
<1>1. p \in Int /\ n \in Int /\ n \in DOMAIN h /\ h[p].prev \in Int
  BY <1>0, ListTypes
<1>2. p < n
  <2>1. n >= p + SIZEOF_STRUCT_MEM + MIN_SIZE_ALIGNED
    BY <1>0, LinkedAt
  <2> QED  BY <2>1, <1>1, Sizes
<1>3. CASE h[n].used = 0 /\ n # RamEnd
  <2>1. m = [heap |-> Merge(h, p), lfree |-> IF l = n THEN p ELSE l]
    BY <1>1, <1>2, <1>3 DEF PlugForward
  <2> DEFINE S == {p, h[p].prev}
  <2>2. n \notin S
    <3>1. CASE p = 0
      <4>1. h[p].prev = 0
        BY <3>1, <1>0 DEF IsLinked
      <4> QED  BY <3>1, <4>1, <1>1, <1>2
    <3>2. CASE p # 0
      <4>1. h[p].prev < p
        BY <3>2, <1>0, LinkedAt
      <4> QED  BY <4>1, <1>1, <1>2
    <3> QED  BY <3>1, <3>2
  <2>3. DOMAIN o \subseteq DOMAIN h /\ Holes(h, S) /\ S \ {p} = {h[p].prev} \ {p}
    BY <1>0
  <2> HIDE DEF S
  <2>k. PICK k : k = Merge(h, p)
    OBVIOUS
  <2>4. /\ Holes(k, S \ {p}) /\ Owners(k, o, {}) /\ DOMAIN o \subseteq DOMAIN k
        /\ IsLowestFree(k, 0, l) /\ l # n
    BY <2>k, <2>2, <2>3, <1>0, <1>3, MergeKeeps
  <2>5. IsList(k) /\ IsLinked(k)
    BY <2>k, <1>0, <1>3, MergeLinked
  <2>6. p \in DOMAIN k /\ k[p].used = 0 /\ k[p].prev = h[p].prev
    <3>1. IsMerged(h, p, k)
      BY <2>k, <1>0, <1>3, MergeFacts
    <3>2. p # n
      BY <1>1, <1>2
    <3>3. p \in DOMAIN k
      BY <3>1, <3>2, <1>0 DEF IsMerged
    <3> QED  BY <3>1, <3>3 DEF IsMerged
  <2>8. DOMAIN o \subseteq DOMAIN k \ {RamEnd}
    BY <2>4, <1>0
  <2>9. Plugged(k, l, o, p, {h[p].prev} \ {p})
    BY <2>3, <2>4, <2>5, <2>6, <2>8, <1>0 DEF Plugged
  <2>10. m.heap = k /\ m.lfree = l
    <3> HIDE DEF n
    <3> QED  BY <2>k, <2>1, <2>4
  <2> QED  BY <2>6, <2>9, <2>10
<1>4. CASE ~ (h[n].used = 0 /\ n # RamEnd)
  <2>1. m.heap = h /\ m.lfree = l
    BY <1>4 DEF PlugForward
  <2>2. h[n].used = 1
    <3>1. CASE n = RamEnd
      BY <3>1, <1>0 DEF IsLinked, Mem
    <3>2. CASE n # RamEnd
      BY <3>2, <1>0, <1>1, <1>4, ListTypes
    <3> QED  BY <3>1, <3>2
  <2>3. Holes(h, {h[p].prev} \ {p})
    BY <2>2, <1>0 DEF Holes
  <2> QED  BY <2>1, <2>3, <1>0 DEF Plugged
<1> QED  BY <1>3, <1>4

\* The backward half of plug_holes.
LEMMA PlugBackwardKeeps ==
  ASSUME NEW h, NEW l, NEW o, NEW p, Plugged(h, l, o, p, {h[p].prev} \ {p}),
         NEW f, f.heap = h, f.lfree = l,
         NEW m, m = PlugBackward(f, p)
  PROVE  GoodHeap(m.heap, m.lfree, o)
<1> DEFINE b == h[p].prev
<1>0. /\ IsList(h) /\ IsLinked(h) /\ Holes(h, {b} \ {p}) /\ IsLowestFree(h, 0, l)
      /\ DOMAIN o \subseteq DOMAIN h \ {RamEnd} /\ Owners(h, o, {})
      /\ p \in DOMAIN h /\ p # RamEnd /\ h[p].used = 0
  BY DEF Plugged
<1>1. p \in Int /\ b \in Int /\ b \in DOMAIN h
  BY <1>0, ListTypes
<1>2. CASE b # p /\ h[b].used = 0
  <2>1. m = [heap |-> Merge(h, b), lfree |-> IF l = p THEN b ELSE l]
    BY <1>2 DEF PlugBackward
  <2>2. b # RamEnd
    BY <1>0, <1>2 DEF IsLinked, Mem
  <2>3. h[b].next = p
    <3>1. p # 0
      BY <1>0, <1>2 DEF IsLinked
    <3> QED  BY <3>1, <1>0, LinkedAt
  <2> DEFINE S == {b} \ {p}
  <2>4. DOMAIN o \subseteq DOMAIN h /\ Holes(h, S) /\ p \notin S
    BY <1>0
  <2> HIDE DEF S, b
  <2>k. PICK k : k = Merge(h, b)
    OBVIOUS
  <2>10. h[b].used = 0 /\ h[h[b].next].used = 0 /\ h[b].next # RamEnd /\ h[b].next \notin S
    BY <2>3, <2>4, <1>0, <1>2
  <2>5. /\ Holes(k, S \ {b}) /\ Owners(k, o, {}) /\ DOMAIN o \subseteq DOMAIN k
        /\ IsLowestFree(k, 0, l) /\ l # h[b].next
    <3>1. /\ IsList(h) /\ IsLinked(h) /\ Holes(h, S) /\ Owners(h, o, {}) /\ IsLowestFree(h, 0, l)
          /\ DOMAIN o \subseteq DOMAIN h
      BY <2>4, <1>0
    <3> QED  BY <3>1, <2>k, <2>10, <2>2, <1>1, MergeKeeps
  <2>7. S \ {b} = {}
    BY DEF S
  <2>6. IsList(k) /\ IsLinked(k)
    BY <2>k, <2>2, <2>3, <1>0, <1>1, MergeLinked
  <2>8. m.heap = k /\ m.lfree = l
    BY <2>k, <2>1, <2>3, <2>5
  <2>9. DOMAIN o \subseteq DOMAIN k \ {RamEnd}
    BY <2>5, <1>0
  <2> QED  BY <2>5, <2>6, <2>7, <2>8, <2>9 DEF GoodHeap
<1>3. CASE ~ (b # p /\ h[b].used = 0)
  <2>1. m.heap = h /\ m.lfree = l
    BY <1>3 DEF PlugBackward
  <2>2. Holes(h, {})
    <3>1. h[b].used \in {0, 1}
      BY <1>0, <1>1, ListTypes
    <3> QED  BY <3>1, <1>0, <1>3 DEF Holes
  <2> QED  BY <2>1, <2>2, <1>0 DEF GoodHeap
<1> QED  BY <1>2, <1>3

\* mem_free finds the block used and its links valid, and plugs the hole.
LEMMA FreeGood ==
  ASSUME GoodHeap(heap, lfree, owned), NEW p \in DOMAIN owned, MemFree(p)
  PROVE  GoodHeap(heap', lfree', owned')
<1>0. /\ IsList(heap) /\ IsLinked(heap) /\ Owners(heap, owned, {})
      /\ p \in DOMAIN heap /\ p # RamEnd
  BY DEF GoodHeap
<1>1. heap[p].used = 1
  BY <1>0 DEF Owners
<1>2. LinkValid(p)
  <2>1. heap[p].next # RamEnd => heap[heap[p].next].prev = p
    BY <1>0, LinkedAt
  <2>2. p # 0 => heap[heap[p].prev].next = p
    BY <1>0, LinkedAt
  <2>3. p = 0 => heap[p].prev = p
    BY <1>0 DEF IsLinked
  <2> QED  BY <2>1, <2>2, <2>3 DEF LinkValid
<1> DEFINE f == PlugForward(Freed(p), p)
           m == PlugBackward(f, p)
<1>3. heap' = m.heap /\ lfree' = m.lfree
  BY <1>1, <1>2 DEF MemFree
<1>4. owned' = [q \in DOMAIN owned \ {p} |-> owned[q]]
  BY DEF MemFree
<1>5. /\ Plugged(Freed(p).heap, Freed(p).lfree, owned', p, {p, heap[p].prev})
      /\ Freed(p).heap[p].prev = heap[p].prev
  BY <1>4, FreedPlugged
<1>6. Freed(p) = [heap |-> Freed(p).heap, lfree |-> Freed(p).lfree]
  BY DEF Freed
<1> HIDE DEF f, m
<1>7. /\ Plugged(f.heap, f.lfree, owned', p, {heap[p].prev} \ {p})
      /\ f.heap[p].prev = heap[p].prev
  BY <1>5, <1>6, PlugForwardKeeps DEF f
<1>8. GoodHeap(m.heap, m.lfree, owned')
  BY <1>7, PlugBackwardKeeps DEF m
<1> QED  BY <1>3, <1>8

\* The list that mem_trim leaves when it moves the free block behind p down to n is
\* the one of a merge and a split.
LEMMA MoveDownSplits ==
  ASSUME NEW h, IsList(h), IsLinked(h), NEW p \in DOMAIN h, p # RamEnd, h[p].next # RamEnd,
         NEW n \in Int, p < n, n < h[p].next, NEW g, g = Merge(h, p)
  PROVE  Split([q \in DOMAIN h \ {h[p].next} |-> h[q]], p, n, h[h[p].next].next, 1)
           = Split(g, p, n, g[p].next, 1)
<1> DEFINE m    == h[p].next
           next == h[m].next
           f    == [q \in DOMAIN h \ {m} |-> h[q]]
<1>1. p \in Int /\ m \in Int /\ m \in DOMAIN h
  BY ListTypes
<1>2. next \in Int /\ next \in DOMAIN h
  BY <1>1, ListTypes
<1>3. p < m /\ m < next
  <2>1. m >= p + SIZEOF_STRUCT_MEM + MIN_SIZE_ALIGNED
    BY LinkedAt
  <2>2. next >= m + SIZEOF_STRUCT_MEM + MIN_SIZE_ALIGNED
    BY <1>1, LinkedAt
  <2> QED  BY <2>1, <2>2, <1>1, <1>2, Sizes
<1>4. g[p] = Mem(next, h[p].prev, 0) /\ DOMAIN g = DOMAIN h \ {m}
  BY <1>1, <1>2, <1>3 DEF Merge
<1>5. g[p].next = next /\ g[p].prev = h[p].prev
  BY <1>4 DEF Mem
<1>6. next # RamEnd => g[next].next = h[next].next /\ g[next].used = h[next].used
  <2>1. next # RamEnd => g[next] = Mem(h[next].next, p, h[next].used)
    BY <1>1, <1>2, <1>3 DEF Merge
  <2> QED  BY <2>1 DEF Mem
<1>7. ASSUME NEW q \in DOMAIN h, q # p, q # m, q # next \/ next = RamEnd
      PROVE  g[q] = h[q]
  BY <1>7 DEF Merge
<1>8. /\ DOMAIN f = DOMAIN g /\ f[p].prev = g[p].prev
      /\ \A q \in DOMAIN f : f[q] = h[q]
  BY <1>1, <1>3, <1>4, <1>5
<1>9. ASSUME NEW q \in DOMAIN f \cup {n}
      PROVE  Split(f, p, n, next, 1)[q] = Split(g, p, n, next, 1)[q]
  <2>0. n # p /\ n # next /\ p # next
    BY <1>1, <1>2, <1>3
  <2>1. CASE q = n
    BY <2>0, <2>1 DEF Split
  <2>4. CASE q = p
    BY <2>0, <2>4, <1>1, <1>3, <1>4, <1>8 DEF Split
  <2>2. CASE q # n /\ q # p /\ q = next /\ next # RamEnd
    <3>1. f[q].next = g[q].next /\ f[q].used = g[q].used
      BY <2>2, <1>6, <1>8, <1>9
    <3> QED  BY <2>2, <3>1, <1>8, <1>9 DEF Split
  <2>3. CASE q # n /\ q # p /\ (q # next \/ next = RamEnd)
    <3>1. f[q] = g[q]
      BY <2>3, <1>7, <1>8, <1>9
    <3> QED  BY <2>3, <3>1, <1>8, <1>9 DEF Split
  <2> QED  BY <2>1, <2>2, <2>3, <2>4
<1> HIDE DEF f, next
<1>10. Split(f, p, n, next, 1) = Split(g, p, n, next, 1)
  <2>1. /\ Split(f, p, n, next, 1) = [q \in DOMAIN f \cup {n} |-> Split(f, p, n, next, 1)[q]]
        /\ Split(g, p, n, next, 1) = [q \in DOMAIN f \cup {n} |-> Split(g, p, n, next, 1)[q]]
    BY <1>8 DEF Split
  <2> QED  BY <2>1, <1>9
<1> QED  BY <1>5, <1>10 DEF f, next

\* mem_trim, in its three cases.
LEMMA TrimGood ==
  ASSUME GoodHeap(heap, lfree, owned), owned \in [DOMAIN owned -> Requests],
         NEW p \in DOMAIN owned, NEW n \in Requests, n <= owned[p], MemTrim(p, n)
  PROVE  GoodHeap(heap', lfree', owned')
<1> DEFINE size == AlignedSize(n)
           b    == p + SIZEOF_STRUCT_MEM + size
           m    == heap[p].next
<1>0. /\ IsList(heap) /\ IsLinked(heap) /\ Holes(heap, {}) /\ IsLowestFree(heap, 0, lfree)
      /\ DOMAIN owned \subseteq DOMAIN heap \ {RamEnd} /\ Owners(heap, owned, {})
      /\ p \in DOMAIN heap /\ p # RamEnd
  BY DEF GoodHeap
<1>1. n \in Int /\ size \in Int /\ size >= n /\ size >= MIN_SIZE_ALIGNED
  BY HeapAssumption, AlignedSizeEnough
<1>2. /\ p \in Int /\ 0 <= p /\ m \in Int /\ m \in DOMAIN heap /\ m <= RamEnd
      /\ heap[p].used = 1
  <2>1. heap[p].used = 1
    BY <1>0 DEF Owners
  <2> QED  BY <2>1, <1>0, ListTypes
<1>3. /\ DOMAIN owned' = DOMAIN owned /\ owned'[p] = n
      /\ \A q \in DOMAIN owned : q # p => owned'[q] = owned[q]
  BY DEF MemTrim
<1>4. /\ DOMAIN owned' \subseteq DOMAIN heap \ {RamEnd} /\ Owners(heap, owned', {p})
      /\ p \in DOMAIN owned' /\ Holes(heap, Around(heap, p))
  BY <1>0, <1>3 DEF Owners, Holes
<1>5. size <= Room(p) /\ Room(p) = m - (p + SIZEOF_STRUCT_MEM)
  BY DEF MemTrim, Room
<1>6. b \in Int /\ p < b /\ owned'[p] <= b - (p + SIZEOF_STRUCT_MEM) /\ b <= m
  BY <1>1, <1>2, <1>3, <1>5, Sizes
<1>7. lfree \in DOMAIN heap /\ lfree \in Int /\ 0 <= lfree /\ lfree <= RamEnd
      /\ (lfree = RamEnd \/ heap[lfree].used = 0)
      /\ \A r \in DOMAIN heap : r < lfree => heap[r].used = 1
  <2>1. lfree \in DOMAIN heap /\ (lfree = RamEnd \/ heap[lfree].used = 0)
    BY <1>0 DEF IsLowestFree
  <2>2. \A r \in DOMAIN heap : 0 <= r
    BY <1>0, ListTypes
  <2> QED  BY <2>1, <2>2, <1>0, ListTypes DEF IsLowestFree
<1>8. lfree # p
  BY <1>0, <1>2, <1>7
<1>9. CASE size < Room(p) /\ heap[m].used = 0 /\ MoveDown(p, size)
  <2>1. m # RamEnd
    BY <1>0, <1>9 DEF IsLinked, Mem
  <2>2. PICK g : g = Merge(heap, p)
    OBVIOUS
  <2>3. IsList(g) /\ IsLinked(g) /\ IsMerged(heap, p, g)
    BY <2>1, <2>2, <1>0, MergeLinked, MergeFacts
  <2>4. b < m
    BY <1>1, <1>2, <1>5, <1>9, Sizes
  <2>5. heap' = Split(g, p, b, g[p].next, 1) /\ lfree' = IF lfree = m THEN b ELSE lfree
    <3>1. heap' = Split([q \in DOMAIN heap \ {m} |-> heap[q]], p, b, heap[m].next, 1)
      BY <1>9 DEF MoveDown
    <3>2. lfree' = IF lfree = m THEN b ELSE lfree
      BY <1>9 DEF MoveDown
    <3> QED  BY <3>1, <3>2, <2>1, <2>2, <2>4, <1>0, <1>6, MoveDownSplits
  <2>6. /\ p \in DOMAIN g /\ g[p].next = heap[m].next /\ DOMAIN g = DOMAIN heap \ {m}
        /\ \A q \in DOMAIN g : q # p => g[q].next = heap[q].next /\ g[q].used = heap[q].used
        /\ \A q \in DOMAIN g : q # p /\ q # RamEnd => heap[q].next # m
    BY <2>3, <1>0, <1>2 DEF IsMerged
  <2>7. heap[m].next \in Int /\ heap[m].next >= m + SIZEOF_STRUCT_MEM + MIN_SIZE_ALIGNED
        /\ heap[m].next \in DOMAIN heap
    BY <2>1, <1>0, <1>2, ListTypes, LinkedAt
  <2>8. CanSplit(g, p, b)
    <3>1. b >= p + SIZEOF_STRUCT_MEM + MIN_SIZE_ALIGNED
      BY <1>1, <1>2, Sizes
    <3>2. g[p].next >= b + SIZEOF_STRUCT_MEM + MIN_SIZE_ALIGNED
      BY <2>4, <2>6, <2>7, <1>2, <1>6, Sizes
    <3> QED  BY <3>1, <3>2, <1>6 DEF CanSplit
  <2>9. heap[heap[m].next].used = 1
    BY <2>1, <1>0, <1>2, <1>9 DEF Holes
  <2>10. g[g[p].next].used = 1
    <3>1. heap[m].next # p /\ heap[m].next # m
      BY <2>4, <2>7, <1>2, <1>6, Sizes
    <3> QED  BY <3>1, <2>6, <2>7, <2>9
  <2>11. m \notin DOMAIN owned'
    BY <2>1, <1>0, <1>2, <1>3, <1>9 DEF Owners
  <2>12. DOMAIN owned' \subseteq DOMAIN g /\ Owners(g, owned', {p})
    <3>1. DOMAIN owned' \subseteq DOMAIN g
      BY <2>6, <2>11, <1>4
    <3>2. Owners(g, owned', {p})
      BY <2>6, <1>4 DEF Owners
    <3> QED  BY <3>1, <3>2
  <2>13. Holes(g, Around(g, p))
    <3> SUFFICES ASSUME NEW q \in DOMAIN g, q # RamEnd, q # p, g[q].next # p, g[q].used = 0
                 PROVE  g[g[q].next].used = 1
      BY DEF Holes, Around
    <3>1. heap[heap[q].next].used = 1 /\ heap[q].next \in DOMAIN heap /\ heap[q].next # m
      BY <2>6, <1>0, ListTypes DEF Holes
    <3> QED  BY <3>1, <2>6
  <2> HIDE DEF b, m
  <2>14. Holes(heap', {}) /\ Owners(heap', owned', {})
    BY <2>3, <2>5, <2>6, <2>8, <2>10, <2>12, <2>13, <1>0, <1>4, <1>6, SplitKeeps
  <2>15. IsList(heap') /\ IsLinked(heap')
    BY <2>3, <2>5, <2>6, <2>8, <1>0, SplitLinked
  <2>16. IsSplit(g, p, b, 1, heap')
    BY <2>3, <2>5, <2>6, <2>8, <1>0, SplitFacts
  <2>17. IsLowestFree(heap', 0, lfree')
    <3>0. \A r \in DOMAIN heap' : r \in Int
      BY <2>15, ListTypes
    <3>1. CASE lfree = m
      <4>1. lfree' = b /\ heap'[b].used = 0 /\ b \in DOMAIN heap' /\ 0 <= b
        BY <3>1, <2>5, <2>16, <1>2, <1>6 DEF IsSplit
      <4>2. ASSUME NEW r \in DOMAIN heap', r < b PROVE heap'[r].used = 1
        <5>1. r \in DOMAIN g /\ r < m
          BY <4>2, <3>0, <2>4, <2>16, <1>2, <1>6 DEF IsSplit
        <5>2. heap[r].used = 1
          BY <5>1, <3>1, <2>6, <1>7
        <5> QED  BY <5>1, <5>2, <2>6, <2>16 DEF IsSplit
      <4> QED  BY <4>1, <4>2 DEF IsLowestFree
    <3>2. CASE lfree # m
      <4>1. lfree' = lfree
        BY <3>2, <2>5
      <4>2. lfree < m
        BY <3>2, <1>2, <1>7, <1>9
      <4>3. lfree < p
        <5>1. lfree <= p \/ lfree >= m
          BY <1>0, <1>7, LinkedAt DEF m
        <5> QED  BY <4>2, <5>1, <1>2, <1>7, <1>8
      <4>4. lfree \in DOMAIN g /\ lfree # RamEnd
        BY <3>2, <4>2, <2>6, <1>2, <1>7, Sizes
      <4>5. lfree \in DOMAIN heap' /\ heap'[lfree].used = 0
        BY <4>4, <2>6, <2>16, <1>7, <1>8 DEF IsSplit
      <4>6. ASSUME NEW r \in DOMAIN heap', r < lfree PROVE heap'[r].used = 1
        <5>1. r \in DOMAIN g /\ r # p
          BY <4>3, <4>6, <3>0, <2>16, <1>2, <1>6, <1>7 DEF IsSplit
        <5>2. heap[r].used = 1
          BY <4>6, <5>1, <2>6, <1>7
        <5> QED  BY <5>1, <5>2, <2>6, <2>16 DEF IsSplit
      <4> QED  BY <4>1, <4>5, <4>6, <1>7 DEF IsLowestFree
    <3> QED  BY <3>1, <3>2
  <2>18. DOMAIN owned' \subseteq DOMAIN heap' \ {RamEnd}
    BY <2>12, <2>16, <1>4 DEF IsSplit
  <2> QED  BY <2>14, <2>15, <2>17, <2>18 DEF GoodHeap
<1>10. CASE /\ heap[m].used = 1
            /\ size + SIZEOF_STRUCT_MEM + MIN_SIZE_ALIGNED <= Room(p) /\ LeaveHole(p, size)
  <2>1. /\ heap' = Split(heap, p, b, m, 1)
        /\ lfree' = IF b < lfree THEN b ELSE lfree
    BY <1>10 DEF LeaveHole
  <2>2. CanSplit(heap, p, b)
    BY <1>1, <1>2, <1>5, <1>10, Sizes DEF CanSplit
  <2> HIDE DEF b
  <2>3. DOMAIN owned' \subseteq DOMAIN heap
    BY <1>4
  <2>4. Holes(heap', {}) /\ Owners(heap', owned', {})
    BY <2>1, <2>2, <2>3, <1>0, <1>4, <1>6, <1>10, SplitKeeps
  <2>5. IsList(heap') /\ IsLinked(heap')
    BY <2>1, <2>2, <1>0, SplitLinked
  <2>6. IsSplit(heap, p, b, 1, heap')
    BY <2>1, <2>2, <1>0, SplitFacts
  <2>7. IsLowestFree(heap', 0, lfree')
    <3>0. \A r \in DOMAIN heap' : r \in Int
      BY <2>5, ListTypes
    <3>1. CASE b < lfree
      <4>1. lfree' = b /\ heap'[b].used = 0 /\ b \in DOMAIN heap' /\ 0 <= b
        BY <3>1, <2>1, <2>6, <1>2, <1>6 DEF IsSplit
      <4>2. ASSUME NEW r \in DOMAIN heap', r < b PROVE heap'[r].used = 1
        <5>1. r \in DOMAIN heap /\ r < lfree
          BY <4>2, <3>0, <3>1, <2>6, <1>6, <1>7 DEF IsSplit
        <5> QED  BY <5>1, <2>6, <1>7 DEF IsSplit
      <4> QED  BY <4>1, <4>2 DEF IsLowestFree
    <3>2. CASE ~ (b < lfree)
      <4>1. lfree' = lfree /\ lfree \in DOMAIN heap'
        BY <3>2, <2>1, <2>6, <1>7 DEF IsSplit
      <4>2. lfree = RamEnd \/ heap'[lfree].used = 0
        BY <2>6, <1>7, <1>8 DEF IsSplit
      <4>3. ASSUME NEW r \in DOMAIN heap', r < lfree PROVE heap'[r].used = 1
        <5>1. r \in DOMAIN heap
          BY <4>3, <3>0, <3>2, <2>6, <1>6, <1>7 DEF IsSplit
        <5> QED  BY <4>3, <5>1, <2>6, <1>7 DEF IsSplit
      <4> QED  BY <4>1, <4>2, <4>3, <1>7 DEF IsLowestFree
    <3> QED  BY <3>1, <3>2
  <2>8. DOMAIN owned' \subseteq DOMAIN heap' \ {RamEnd}
    BY <2>6, <1>4 DEF IsSplit
  <2> QED  BY <2>4, <2>5, <2>7, <2>8 DEF GoodHeap
<1>11. CASE UNCHANGED <<heap, lfree>>
  <2>1. n <= m - (p + SIZEOF_STRUCT_MEM)
    BY <1>1, <1>2, <1>5, Sizes
  <2>2. Owners(heap, owned', {})
    BY <2>1, <1>0, <1>3, <1>4 DEF Owners
  <2> QED  BY <2>2, <1>0, <1>4, <1>11 DEF GoodHeap
<1> QED  BY <1>9, <1>10, <1>11 DEF MemTrim

-----------------------------------------------------------------------------
(* The theorems *)

\* Every step keeps HeapInv.
LEMMA StepKeeps ==
  ASSUME HeapInv, HeapNext
  PROVE  HeapInv'
<1>0. GoodHeap(heap, lfree, owned) /\ owned \in [DOMAIN owned -> Requests] /\ refused \in Nat
  BY InvIsGood DEF HeapInv, HeapTypeOK
<1>1. /\ GoodHeap(heap', lfree', owned')
      /\ owned' \in [DOMAIN owned' -> Requests] /\ refused' \in Nat
  <2>1. CASE \E n \in Requests : Malloc(n)
    <3>1. PICK n \in Requests : Malloc(n)
      BY <2>1
    <3>2. owned' \in [DOMAIN owned' -> Requests] /\ refused' = 0
      BY <3>1, <1>0 DEF Malloc
    <3> QED  BY <3>1, <3>2, <1>0, MallocGood
  <2>2. CASE \E n \in Requests : MallocFails(n)
    <3>1. PICK n \in Requests : MallocFails(n)
      BY <2>2
    <3>2. AlignedSize(n) \in Nat
      BY HeapAssumption, AlignedSizeEnough
    <3>3. heap' = heap /\ lfree' = lfree /\ owned' = owned /\ refused' = AlignedSize(n)
      BY <3>1 DEF MallocFails
    <3> QED  BY <3>2, <3>3, <1>0
  <2>3. CASE \E p \in DOMAIN owned : MemFree(p)
    <3>1. PICK p \in DOMAIN owned : MemFree(p)
      BY <2>3
    <3>2. owned' = [q \in DOMAIN owned \ {p} |-> owned[q]] /\ refused' = 0
      BY <3>1 DEF MemFree
    <3>3. owned' \in [DOMAIN owned' -> Requests]
      BY <3>2, <1>0
    <3> QED  BY <3>1, <3>2, <3>3, <1>0, FreeGood
  <2>4. CASE \E p \in DOMAIN owned, n \in Requests : n <= owned[p] /\ MemTrim(p, n)
    <3>1. PICK p \in DOMAIN owned, n \in Requests : n <= owned[p] /\ MemTrim(p, n)
      BY <2>4
    <3>2. owned' = [owned EXCEPT ![p] = n] /\ refused' = 0
      BY <3>1 DEF MemTrim
    <3>3. owned' \in [DOMAIN owned' -> Requests]
      BY <3>2, <1>0
    <3> QED  BY <3>1, <3>2, <3>3, <1>0, TrimGood
  <2> QED  BY <2>1, <2>2, <2>3, <2>4 DEF HeapNext
<1>2. /\ NoTwoHoles' <=> Holes(heap', {})
      /\ OwnersHaveRoom' <=> Owners(heap', owned', {})
      /\ IsLowestFree(heap', 0, lfree') => lfree' \in DOMAIN heap'
  BY DEF NoTwoHoles, Holes, OwnersHaveRoom, Owners, Room, IsLowestFree
<1> QED  BY <1>1, <1>2 DEF HeapInv, HeapTypeOK, ListIntact, LowestFree, GoodHeap, IsList, IsLinked,
                          IsLowestFree

\* The inductive invariant of the heap, for every size of heap and of request.
THEOREM HeapSafe == HeapSpec => []HeapInv
<1>1. HeapInv /\ [HeapNext]_heapVars => HeapInv'
  <2> SUFFICES ASSUME HeapInv, [HeapNext]_heapVars PROVE HeapInv'
    OBVIOUS
  <2>1. CASE HeapNext
    BY <2>1, StepKeeps
  <2>2. CASE UNCHANGED heapVars
    BY <2>2 DEF heapVars, HeapInv, HeapTypeOK, ListIntact, NoTwoHoles, LowestFree,
                OwnersHaveRoom, IsList, IsLinked, IsLowestFree, Room
  <2> QED  BY <2>1, <2>2
<1> QED  BY InitGood, <1>1, PTL DEF HeapSpec

\* mem_malloc refuses only what no free block can hold: its search from lfree, which
\* stops at MEM_SIZE_ALIGNED - size, passes over none that would do.
THEOREM HeapRefuses == HeapSpec => []RefusesOnlyWhenFull
<1>1. HeapInit => RefusesOnlyWhenFull
  BY DEF HeapInit, RefusesOnlyWhenFull
<1>2. HeapInv /\ RefusesOnlyWhenFull /\ [HeapNext]_heapVars => RefusesOnlyWhenFull'
  <2> SUFFICES ASSUME HeapInv, RefusesOnlyWhenFull, [HeapNext]_heapVars
               PROVE  RefusesOnlyWhenFull'
    OBVIOUS
  <2>1. CASE UNCHANGED heapVars
    BY <2>1 DEF heapVars, RefusesOnlyWhenFull, Room
  <2>2. CASE refused' = 0
    BY <2>2 DEF RefusesOnlyWhenFull
  <2>3. ASSUME NEW n \in Requests, MallocFails(n) PROVE RefusesOnlyWhenFull'
    <3> DEFINE size == AlignedSize(n)
    <3>1. heap' = heap /\ refused' = size /\ (size > MEM_SIZE_ALIGNED \/ Fits(size) = {})
      BY <2>3 DEF MallocFails
    <3>2. size \in Int
      BY HeapAssumption, AlignedSizeEnough
    <3> HIDE DEF size
    <3>3. ASSUME NEW p \in DOMAIN heap, p # RamEnd, heap[p].used = 0
          PROVE  Room(p) < size
      <4>1. IsList(heap) /\ IsLowestFree(heap, 0, lfree)
        BY DEF HeapInv, HeapTypeOK, LowestFree
      <4>2. /\ p \in Int /\ 0 <= p /\ heap[p].next \in Int /\ heap[p].next <= RamEnd
            /\ lfree \in Int
        BY <4>1, <3>3, ListTypes DEF IsLowestFree
      <4>3. lfree <= p
        <5>1. ~ (p < lfree)
          BY <4>1, <4>2, <3>3 DEF IsLowestFree
        <5> QED  BY <4>2, <5>1
      <4>4. CASE p < MEM_SIZE_ALIGNED - size
        <5>1. Fits(size) = {}
          BY <4>2, <4>4, <3>1, <3>2, HeapAssumption
        <5>2. ~ (Room(p) >= size)
          BY <4>3, <4>4, <5>1, <3>3 DEF Fits
        <5>3. Room(p) \in Int
          BY <4>2, Sizes DEF Room
        <5> QED  BY <5>2, <5>3, <3>2
      <4>5. CASE ~ (p < MEM_SIZE_ALIGNED - size)
        BY <4>2, <4>5, <3>2, Sizes DEF Room, RamEnd
      <4> QED  BY <4>4, <4>5
    <3>4. \A p \in DOMAIN heap : Room(p)' = Room(p)
      BY <3>1 DEF Room
    <3> QED  BY <3>1, <3>3, <3>4 DEF RefusesOnlyWhenFull
  <2>4. ASSUME HeapNext PROVE refused' = 0 \/ \E n \in Requests : MallocFails(n)
    BY <2>4 DEF HeapNext, Malloc, MemFree, MemTrim
  <2> QED  BY <2>1, <2>2, <2>3, <2>4
<1> QED  BY <1>1, <1>2, HeapSafe, PTL DEF HeapSpec

\* After any sequence of mem_malloc, mem_trim and mem_free the list is intact, no two free
\* blocks are neighbours, lfree passes none, owners have their room, and when all is freed
\* the heap is one free block again.
THEOREM HeapStaysWellFormed == HeapSpec => []HeapWellFormed
<1>1. HeapInv => AllComesBack
  <2> SUFFICES ASSUME HeapInv, DOMAIN owned = {}
               PROVE  DOMAIN heap = {0, RamEnd} /\ heap[0].used = 0 /\ lfree = 0
    BY DEF AllComesBack
  <2>1. /\ IsList(heap) /\ IsLinked(heap) /\ NoTwoHoles /\ IsLowestFree(heap, 0, lfree)
        /\ OwnersHaveRoom /\ 0 \in DOMAIN heap /\ RamEnd \in DOMAIN heap
    BY DEF HeapInv, HeapTypeOK, ListIntact, LowestFree, IsList
  <2>2. ASSUME NEW p \in DOMAIN heap, p # RamEnd PROVE heap[p].used = 0
    BY <2>1, <2>2, ListTypes DEF OwnersHaveRoom
  <2>3. 0 # RamEnd
    BY Sizes
  <2>4. heap[0].used = 0
    BY <2>1, <2>2, <2>3
  <2>5. heap[0].next = RamEnd
    <3>1. heap[heap[0].next].used = 1 /\ heap[0].next \in DOMAIN heap
      BY <2>1, <2>3, <2>4, ListTypes DEF NoTwoHoles
    <3> QED  BY <3>1, <2>2
  <2>6. DOMAIN heap = {0, RamEnd}
    <3>1. ASSUME NEW q \in DOMAIN heap PROVE q \in {0, RamEnd}
      <4>1. q \in Int /\ 0 <= q /\ q <= RamEnd
        BY <2>1, ListTypes
      <4>2. q <= 0 \/ q >= RamEnd
        BY <2>1, <2>3, <2>5, LinkedAt
      <4> QED  BY <4>1, <4>2, Sizes
    <3> QED  BY <3>1, <2>1
  <2>7. lfree = 0
    <3>1. lfree \in DOMAIN heap /\ lfree \in Int /\ 0 <= lfree
      BY <2>1, ListTypes DEF IsLowestFree
    <3>2. ~ (0 < lfree)
      BY <2>1, <2>4 DEF IsLowestFree
    <3> QED  BY <3>1, <3>2
  <2> QED  BY <2>4, <2>6, <2>7
<1>2. HeapInv => HeapWellFormed
  BY <1>1 DEF HeapInv, HeapWellFormed
<1> QED  BY <1>2, HeapSafe, PTL
=============================================================================
