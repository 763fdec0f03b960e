------------------------------ MODULE LwipReass ------------------------------
(***************************************************************************)
(* The reassembly of IPv4 datagrams (core/ipv4/ip4_frag.c): fragments wait *)
(* in a list of datagrams, newest first, until the datagram is whole, its  *)
(* time is up, or others need the pbufs.                                   *)
(*                                                                         *)
(* Fragments are lost, delayed, duplicated and reordered, and one datagram *)
(* may be cut in several ways (two copies that took two routes): any piece *)
(* start..end - 1 of a datagram may arrive at any time, the last one with  *)
(* end = Size[id].  A piece takes as many pbufs as it is long.             *)
(*                                                                         *)
(* Left out: lengths beyond 16 bits, the copies of the IP header, and the  *)
(* ICMP message that follows a timeout.                                    *)
(***************************************************************************)
EXTENDS Integers, Sequences

CONSTANTS
  Size,                \* a function: the length of each datagram, by its id
  MEMP_NUM_REASSDATA, IP_REASS_MAX_PBUFS, IP_REASS_MAXAGE

Ids == DOMAIN Size

\* The id 0 stands for no datagram.
ASSUME ReassAssumption ==
  /\ MEMP_NUM_REASSDATA \in Nat \ {0} /\ IP_REASS_MAX_PBUFS \in Nat /\ IP_REASS_MAXAGE \in Nat
  /\ 0 \notin Ids /\ \A i \in Ids : Size[i] \in Nat

VARIABLES
  reassdatagrams,      \* sequence of [id, timer, lastfrag, len, p]
  ip_reass_pbufcount,
  returned,            \* the datagram that ip4_reass returned in this step, or NoDatagram
  arrived,             \* the id of the fragment that came in this step, or 0
  reassParity          \* of the seconds that have passed

reassVars == <<reassdatagrams, ip_reass_pbufcount, returned, arrived, reassParity>>

NoDatagram == [id |-> 0, p |-> <<>>, len |-> 0]
Fragments == UNION {{[id |-> i, start |-> s, end |-> e] : s \in 0..(Size[i] - 1), e \in 1..Size[i]}
                       : i \in Ids}

Inserted(s, k, x) ==
  [i \in 1..(Len(s) + 1) |-> IF i < k THEN s[i] ELSE IF i = k THEN x ELSE s[i - 1]]

Removed(s, k) == [i \in 1..(Len(s) - 1) |-> IF i < k THEN s[i] ELSE s[i + 1]]

Sum(s) ==
  LET upto[n \in 0..Len(s)] == IF n = 0 THEN 0 ELSE upto[n - 1] + s[n]
  IN upto[Len(s)]

\* The pbufs of a queue of fragments, and of all the queues.
Clen(p)  == Sum([k \in 1..Len(p) |-> p[k].end - p[k].start])
Total(l) == Sum([k \in 1..Len(l) |-> Clen(l[k].p)])

ReassInit ==
  /\ reassdatagrams = <<>> /\ ip_reass_pbufcount = 0
  /\ returned = NoDatagram /\ arrived = 0 /\ reassParity = 0

-----------------------------------------------------------------------------
(* Making room *)

\* ip_reass_free_complete_datagram, of the datagram at k.
FreeUncounted(m, k) ==
  [m EXCEPT !.list = Removed(m.list, k), !.freed = @ + Clen(m.list[k].p)]

Free(m, k) ==
  [m EXCEPT !.list = Removed(m.list, k), !.freed = @ + Clen(m.list[k].p),
            !.count = @ - Clen(m.list[k].p)]

\* The datagrams of the list that the fragment does not belong to.
OthersAll(m, id) == 1..Len(m.list)

Others(m, id) == {k \in 1..Len(m.list) : m.list[k].id # id}

\* The last of those with the least time left.
Oldest(m, S) ==
  CHOOSE k \in S : \A j \in S : \/ m.list[k].timer < m.list[j].timer
                                \/ m.list[k].timer = m.list[j].timer /\ k >= j

\* ip_reass_remove_oldest_datagram: one datagram, and more while they are needed.
RemoveOldest(m, id, needed) ==
  LET after[i \in 0..MEMP_NUM_REASSDATA] ==
        IF i = 0 THEN [m EXCEPT !.freed = 0]
        ELSE LET n == after[i - 1]
             IN IF Others(n, id) = {} \/ (i > 1 /\ n.freed >= needed) THEN n
                ELSE Free(n, Oldest(n, Others(n, id)))
  IN after[MEMP_NUM_REASSDATA]

-----------------------------------------------------------------------------
(* A fragment *)

Overlap(f, g) == f.start = g.start \/ (f.start < g.end /\ g.start < f.end)

\* The fragments of a datagram with f in its place.
Chain(p, f) ==
  LET after == {k \in 1..Len(p) : f.start < p[k].start}
      place == IF after = {} THEN Len(p) + 1 ELSE CHOOSE k \in after : \A j \in after : k <= j
  IN Inserted(p, place, f)

\* No fragment is missing up to the last one in the queue.
Contiguous(p) ==
  p # <<>> /\ p[1].start = 0 /\ \A k \in 1..(Len(p) - 1) : p[k].end = p[k + 1].start

\* The rest of ip4_reass, once the fragment has the datagram k to go to:
\* ip_reass_chain_frag_into_datagram_and_validate and what follows it.
Enter(m, k, f) ==
  LET d       == m.list[k]
      piece   == [start |-> f.start, end |-> f.end]
      is_last == f.end = Size[f.id]
      p       == Chain(d.p, piece)
      len     == IF is_last THEN f.end ELSE d.len
      whole   == (is_last \/ d.lastfrag) /\ Contiguous(p)
  IN IF \E j \in 1..Len(d.p) : Overlap(piece, d.p[j]) THEN m
     ELSE IF whole THEN [m EXCEPT !.list = Removed(m.list, k), !.count = @ - Clen(d.p),
                                  !.returned = [id |-> f.id, p |-> p, len |-> len]]
     ELSE [m EXCEPT !.count = @ + (f.end - f.start),
                    !.list[k] = [d EXCEPT !.p = p, !.len = len,
                                          !.lastfrag = d.lastfrag \/ is_last]]

\* ip_reass_enqueue_new_datagram, and the fragment.
EnterNew(m, f) ==
  LET clen  == f.end - f.start
      full  == Len(m.list) = MEMP_NUM_REASSDATA
      n     == IF full THEN RemoveOldest(m, f.id, clen) ELSE m
      fresh == [id |-> f.id, timer |-> IP_REASS_MAXAGE, lastfrag |-> FALSE, len |-> 0, p |-> <<>>]
  IN IF full /\ n.freed < clen THEN n
     ELSE Enter([n EXCEPT !.list = Inserted(n.list, 1, fresh)], 1, f)

\* ip4_reass.
Reass(m, f) ==
  LET clen  == f.end - f.start
      tight == m.count + clen > IP_REASS_MAX_PBUFS
      n     == IF tight THEN RemoveOldest(m, f.id, clen) ELSE m
      own   == {k \in 1..Len(n.list) : n.list[k].id = f.id}
  IN IF tight /\ (n.freed = 0 \/ n.count + clen > IP_REASS_MAX_PBUFS) THEN n
     ELSE IF own # {} THEN Enter(n, CHOOSE k \in own : TRUE, f)
     ELSE EnterNew(n, f)

Queue == [list |-> reassdatagrams, count |-> ip_reass_pbufcount, freed |-> 0,
          returned |-> NoDatagram]

ReassBecomes(m) ==
  reassdatagrams' = m.list /\ ip_reass_pbufcount' = m.count /\ returned' = m.returned

FragmentArrives ==
  /\ \E f \in Fragments :
       /\ f.start < f.end /\ f.end - f.start < Size[f.id]
       /\ ReassBecomes(Reass(Queue, f))
       /\ arrived' = f.id
  /\ UNCHANGED reassParity

\* A second passes for the datagram d: if its time is up it goes, with its pbufs.
Tick(m, d) ==
  IF d.timer > 0 THEN [m EXCEPT !.list = Append(@, [d EXCEPT !.timer = @ - 1])]
  ELSE [m EXCEPT !.count = @ - Clen(d.p)]

\* ip_reass_tmr, once a second.
ReassTmr ==
  LET after[k \in 0..Len(reassdatagrams)] ==
        IF k = 0 THEN [Queue EXCEPT !.list = <<>>] ELSE Tick(after[k - 1], reassdatagrams[k])
  IN /\ ReassBecomes(after[Len(reassdatagrams)])
     /\ arrived' = 0 /\ reassParity' = 1 - reassParity

ReassNext == FragmentArrives \/ ReassTmr

ReassSpec == ReassInit /\ [][ReassNext]_reassVars

\* sys_check_timeouts calls ip_reass_tmr once a second, always.
ReassFairSpec == ReassSpec /\ []<>(reassParity = 0) /\ []<>(reassParity = 1)

-----------------------------------------------------------------------------
(* Properties *)

\* The fragments p hold each byte of 0 to n - 1 once, and in order.
Spells(p, n) ==
  /\ \A b \in 0..(n - 1) : \E k \in 1..Len(p) : p[k].start <= b /\ b < p[k].end
  /\ \A k \in 1..Len(p) : p[k].start < p[k].end /\ p[k].end <= n
  /\ \A j, k \in 1..Len(p) : j < k => p[j].end <= p[k].start

\* e has the fragments of d.
Keeps(e, d) == e.id = d.id /\ \A i \in 1..Len(d.p) : \E n \in 1..Len(e.p) : e.p[n] = d.p[i]

Waits(id) == \E k \in 1..Len(reassdatagrams) : reassdatagrams[k].id = id

\* The types, the limits of the pool and of the pbufs, and one entry of the list
\* for each datagram.
ReassTypeOK ==
  /\ Len(reassdatagrams) <= MEMP_NUM_REASSDATA
  /\ ip_reass_pbufcount \in 0..IP_REASS_MAX_PBUFS
  /\ \A k \in 1..Len(reassdatagrams) :
       /\ reassdatagrams[k].id \in Ids /\ reassdatagrams[k].timer \in 0..IP_REASS_MAXAGE
       /\ \A j \in 1..Len(reassdatagrams) : reassdatagrams[j].id = reassdatagrams[k].id => j = k

\* ip_reass_pbufcount is the number of pbufs in the queues, through duplicates,
\* timeouts, datagrams that were thrown out and datagrams that were returned: it
\* neither leaks, until nothing can be reassembled, nor wraps.
PbufsAddUp == ip_reass_pbufcount = Total(reassdatagrams)

\* What ip4_reass returns is the datagram from its first byte to its last, in
\* order and without overlaps, and its header has that length.
Whole ==
  returned # NoDatagram =>
    Spells(returned.p, Size[returned.id]) /\ returned.len = Size[returned.id]

\* A datagram that is whole is returned at once: none waits for its timeout
\* with all its fragments in the queue, and none waits with no fragment at all.
NoneOverlooked ==
  \A k \in 1..Len(reassdatagrams) :
    LET d == reassdatagrams[k]
    IN d.p # <<>> /\ ~Spells(d.p, Size[d.id])

\* The queues are in order, and what leaves them is whole, with fragments that are repeated,
\* overlap or come in any order, and with both limits reached.
ReassConsistent == ReassTypeOK /\ PbufsAddUp /\ NoneOverlooked /\ Whole

\* A fragment that arrives never costs its own datagram the fragments it has
\* (ip_reass_remove_oldest_datagram: "but don't free the datagram that 'fraghdr'
\* belongs to"); only the timer does.
OwnKept ==
  \A k \in 1..Len(reassdatagrams) :
    reassdatagrams[k].id = arrived' =>
      \/ Keeps(returned', reassdatagrams[k])
      \/ \E j \in 1..Len(reassdatagrams') : Keeps(reassdatagrams'[j], reassdatagrams[k])

OwnIsKept == [][OwnKept]_reassVars

\* No datagram holds its pbufs for good, however its fragments keep coming.
PbufsComeBack == \A id \in Ids : []<>(~Waits(id))

\* A datagram keeps what it has until it is whole or its time is up, and no longer, unless
\* another one needs the room.
KeptUntilDue == OwnIsKept /\ PbufsComeBack
=============================================================================
