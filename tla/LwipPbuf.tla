------------------------------ MODULE LwipPbuf ------------------------------
(***************************************************************************)
(* Packet buffers (lwip/core/pbuf.c) and what this program does with them: *)
(* chains of counted buffers, from the moment awg_netif_input copies a     *)
(* packet into the pool to the moment pump_down has given its last byte to *)
(* the application, and the segments that go the other way.                *)
(*                                                                         *)
(* A pbuf is known by a number: those of the pool first, then those of the *)
(* heap (LwipHeap), of which there are as many as it has room for.  Its    *)
(* bytes are mem; payload points off bytes into it.  A free one has ref 0. *)
(* The headers are one byte each.  tot_len does not wrap: a receive window *)
(* is 16 segments and a datagram 65535 bytes.                              *)
(*                                                                         *)
(* Left out: pbuf_chain, pbuf_dechain, pbuf_coalesce, pbuf_clone, custom   *)
(* pbufs and references to memory outside, which nothing here calls.       *)
(***************************************************************************)
EXTENDS Integers, Sequences, FiniteSets

CONSTANTS
  PBUF_POOL_SIZE,      \* 24
  PBUF_POOL_BUFSIZE,   \* 1500
  HeapPbufs,           \* pbufs the heap has room for
  Arriving,            \* packets of the tunnel, each a sequence of bytes
  Written,             \* what the application writes at a time
  Headers              \* the bytes of an IP and of a TCP header

VARIABLES
  pbufs,               \* number -> pbuf
  held,                \* who holds which pbuf: inseg.p, ooseq->p, rx_head, unsent->p
  rx_off,
  seg,                 \* of the segments: seg->len, and where seg->tcphdr points
  pbuf_free_ooseq_pending,
  output,              \* history: the bytes that left in this step
  refused              \* history: the pool was found empty and nothing came back since

pbufVars == <<pbufs, held, rx_off, seg, pbuf_free_ooseq_pending, output, refused>>

NULL == 0
IP_HLEN == 1
TCP_HLEN == 1
PBUF_LINK_HLEN == 1
PBUF_TRANSPORT == PBUF_LINK_HLEN + IP_HLEN + TCP_HLEN

PoolPbufs == 1..PBUF_POOL_SIZE
RamPbufs  == PBUF_POOL_SIZE + 1..PBUF_POOL_SIZE + HeapPbufs

Free == [ref |-> 0, mem |-> <<>>, off |-> 0, len |-> 0, tot_len |-> 0, next |-> NULL]

NoSeg == [len |-> 0, tcphdr |-> 0]

PbufInit ==
  /\ pbufs = [p \in PoolPbufs \cup RamPbufs |-> Free]
  /\ held = [h \in {"in", "oos", "rx", "out", "rest"} |-> NULL]
  /\ rx_off = 0 /\ seg = [h \in {"out", "rest"} |-> NoSeg]
  /\ pbuf_free_ooseq_pending = FALSE /\ output = <<>> /\ refused = FALSE

Lesser(a, b) == IF a < b THEN a ELSE b

Unused(s, ids) == {p \in ids : s[p].ref = 0}

\* memp_malloc and mem_malloc, which are free to return any of the unused ones.
Available(s, ids) == CHOOSE p \in Unused(s, ids) : \A q \in Unused(s, ids) : p <= q

Alloced(size, off, len, tot_len) ==
  [ref |-> 1, mem |-> [i \in 1..size |-> "?"], off |-> off, len |-> len,
   tot_len |-> tot_len, next |-> NULL]

-----------------------------------------------------------------------------
(* pbuf.c, on a store s. *)

Payload(b) == SubSeq(b.mem, b.off + 1, b.off + b.len)

RECURSIVE Chain(_, _)
Chain(s, p) == IF p = NULL THEN <<>> ELSE <<p>> \o Chain(s, s[p].next)

\* Frees from the head on, up to a pbuf that somebody else refers to.
RECURSIVE PbufFree(_, _)
PbufFree(s, p) ==
  IF p = NULL THEN s
  ELSE IF s[p].ref = 1 THEN PbufFree([s EXCEPT ![p] = Free], s[p].next)
                       ELSE [s EXCEPT ![p].ref = @ - 1]

Linked(s, last, q) == IF last = NULL THEN s ELSE [s EXCEPT ![last].next = q]

\* PBUF_RAW from the pool: the pbufs taken so far are given back if it runs dry.
RECURSIVE AllocPool(_, _, _, _)
AllocPool(s, head, last, rem_len) ==
  IF Unused(s, PoolPbufs) = {} THEN [s |-> PbufFree(s, head), p |-> NULL]
  ELSE LET q    == Available(s, PoolPbufs)
           qlen == Lesser(rem_len, PBUF_POOL_BUFSIZE)
           s1   == Linked([s EXCEPT ![q] = Alloced(PBUF_POOL_BUFSIZE, 0, qlen, rem_len)], last, q)
           p    == IF head = NULL THEN q ELSE head
       IN IF rem_len = qlen THEN [s |-> s1, p |-> p]
                            ELSE AllocPool(s1, p, q, rem_len - qlen)

\* PBUF_RAM, with room for the headers of its layer.
AllocRam(s, layer, length) ==
  IF Unused(s, RamPbufs) = {} THEN [s |-> s, p |-> NULL]
  ELSE LET q == Available(s, RamPbufs)
       IN [s |-> [s EXCEPT ![q] = Alloced(layer + length, layer, length, length)], p |-> q]

Stored(b, at, bytes) ==
  [b EXCEPT !.mem = [i \in DOMAIN @ |->
     IF i - b.off - at \in DOMAIN bytes THEN bytes[i - b.off - at] ELSE @[i]]]

RECURSIVE Take(_, _, _)
Take(s, p, bytes) ==
  IF bytes = <<>> THEN s
  ELSE LET n == Lesser(Len(bytes), s[p].len)
       IN Take([s EXCEPT ![p] = Stored(@, 0, SubSeq(bytes, 1, n))], s[p].next,
               SubSeq(bytes, n + 1, Len(bytes)))

RECURSIVE CopyPartial(_, _, _, _)
CopyPartial(s, p, len, offset) ==
  IF len = 0 \/ p = NULL THEN <<>>
  ELSE IF offset # 0 /\ offset >= s[p].len
       THEN CopyPartial(s, s[p].next, len, offset - s[p].len)
       ELSE LET n == Lesser(s[p].len - offset, len)
            IN SubSeq(Payload(s[p]), offset + 1, offset + n)
               \o CopyPartial(s, s[p].next, len - n, 0)

\* pbuf_copy: as much at a time as is left in the pbuf of either side.
RECURSIVE CopyLoop(_, _, _, _, _, _)
CopyLoop(s, to, offset_to, from, offset_from, copy_len) ==
  LET n  == Lesser(Lesser(s[to].len - offset_to, s[from].len - offset_from), copy_len)
      s1 == [s EXCEPT ![to] = Stored(@, offset_to,
                                     SubSeq(Payload(s[from]), offset_from + 1, offset_from + n))]
      fromDone == offset_from + n >= s[from].len
      toDone   == offset_to + n = s[to].len
  IN IF copy_len = n THEN s1
     ELSE CopyLoop(s1, IF toDone THEN s[to].next ELSE to, IF toDone THEN 0 ELSE offset_to + n,
                   IF fromDone THEN s[from].next ELSE from,
                   IF fromDone THEN 0 ELSE offset_from + n, copy_len - n)

\* pbuf_remove_header and pbuf_add_header leave alone what has no room for it.
RemoveHeader(s, p, n) ==
  IF n > s[p].len THEN s
  ELSE [s EXCEPT ![p].off = @ + n, ![p].len = @ - n, ![p].tot_len = @ - n]

AddHeader(s, p, n) ==
  IF n > s[p].off THEN s
  ELSE [s EXCEPT ![p].off = @ - n, ![p].len = @ + n, ![p].tot_len = @ + n]

\* The caller's reference to t becomes that of the last pbuf of h.
Cat(s, h, t) ==
  LET chain == Chain(s, h)
  IN [p \in DOMAIN s |->
        IF \E i \in DOMAIN chain : chain[i] = p
        THEN [s[p] EXCEPT !.tot_len = @ + s[t].tot_len,
                          !.next = IF p = chain[Len(chain)] THEN t ELSE @]
        ELSE s[p]]

\* mem_trim gives back what a pbuf of the heap no longer needs.
Trimmed(b, p, n) == IF p \in RamPbufs THEN [b EXCEPT !.mem = SubSeq(@, 1, b.off + n)] ELSE b

RECURSIVE ReallocAt(_, _, _, _)
ReallocAt(s, q, rem_len, shrink) ==
  IF rem_len > s[q].len
  THEN ReallocAt([s EXCEPT ![q].tot_len = @ - shrink], s[q].next, rem_len - s[q].len, shrink)
  ELSE PbufFree([s EXCEPT ![q] = [Trimmed(@, q, rem_len) EXCEPT
                                    !.len = rem_len, !.tot_len = rem_len, !.next = NULL]],
                s[q].next)

Realloc(s, p, new_len) ==
  IF new_len >= s[p].tot_len THEN s ELSE ReallocAt(s, p, new_len, s[p].tot_len - new_len)

-----------------------------------------------------------------------------
(* The packet on its way in. *)

Holding(h) == held[h] # NULL

Quiet == UNCHANGED <<rx_off, seg, pbuf_free_ooseq_pending>> /\ output' = <<>>

\* Has a pbuf of the pool come back?
Relief == refused' = (refused /\ Unused(pbufs', PoolPbufs) = {})

\* awg_netif_input and ip4_input: the copy, the cut to the length of the header and the
\* step over it.  A packet that claims to be longer than it is goes no further.
Input(bytes, iphdr_len) ==
  LET got == AllocPool(pbufs, NULL, NULL, Len(bytes))
  IN /\ ~ Holding("in")
     /\ UNCHANGED <<rx_off, seg>> /\ output' = <<>>
     /\ IF got.p = NULL
        THEN /\ pbufs' = got.s /\ pbuf_free_ooseq_pending' = TRUE /\ UNCHANGED held
             /\ refused' = (Unused(pbufs', PoolPbufs) = {})
        ELSE /\ UNCHANGED pbuf_free_ooseq_pending /\ Relief
             /\ LET s == Take(got.s, got.p, bytes)
                IN IF iphdr_len > Len(bytes)
                   THEN pbufs' = PbufFree(s, got.p) /\ UNCHANGED held
                   ELSE /\ pbufs' = RemoveHeader(Realloc(s, got.p, iphdr_len), got.p, IP_HLEN)
                        /\ held' = [held EXCEPT !["in"] = got.p]

\* tcp_input steps over its header.
StripHeader(n) ==
  /\ Holding("in") /\ n <= pbufs[held["in"]].len
  /\ pbufs' = RemoveHeader(pbufs, held["in"], n)
  /\ UNCHANGED <<held, refused>> /\ Quiet

\* tcp_receive: what was received before is taken off the front, pbuf by pbuf.
RECURSIVE CutFront(_, _, _, _)
CutFront(s, p, off, new_tot_len) ==
  IF s[p].len < off
  THEN CutFront([s EXCEPT ![p].tot_len = new_tot_len, ![p].len = 0], s[p].next,
                off - s[p].len, new_tot_len)
  ELSE RemoveHeader(s, p, off)

TrimFront(off) ==
  LET p == held["in"]
  IN /\ Holding("in") /\ off <= pbufs[p].tot_len
     /\ pbufs' = CutFront(pbufs, p, off, pbufs[p].tot_len - off)
     /\ UNCHANGED <<held, refused>> /\ Quiet

\* tcp_receive: what lies beyond the window or in the next segment is cut off.
TrimBack(h, n) ==
  /\ Holding(h) /\ n < pbufs[held[h]].tot_len
  /\ pbufs' = Realloc(pbufs, held[h], n)
  /\ UNCHANGED held /\ Quiet /\ Relief

DropIn ==
  /\ Holding("in")
  /\ pbufs' = PbufFree(pbufs, held["in"]) /\ held' = [held EXCEPT !["in"] = NULL]
  /\ Quiet /\ Relief

\* tcp_seg_copy refers to the pbuf again, the overlap is cut off, and tcp_input gives up
\* its own reference when it is done.
Keep(n) ==
  LET p == held["in"]
  IN /\ Holding("in") /\ ~ Holding("oos") /\ n <= pbufs[p].tot_len
     /\ pbufs' = PbufFree(Realloc([pbufs EXCEPT ![p].ref = @ + 1], p, n), p)
     /\ held' = [held EXCEPT !["oos"] = p, !["in"] = NULL]
     /\ Quiet /\ Relief

\* on_recv.
OnRecv(s, p) ==
  /\ pbufs' = IF Holding("rx") THEN Cat(s, held["rx"], p) ELSE s
  /\ held' = [held EXCEPT !["rx"] = IF Holding("rx") THEN @ ELSE p, !["in"] = NULL]

\* tcp_input hands over what came in order.
Deliver ==
  /\ Holding("in") /\ pbufs[held["in"]].tot_len > 0
  /\ OnRecv(pbufs, held["in"])
  /\ UNCHANGED refused /\ Quiet

\* The same when it closes the gap before the segment that was kept.
DeliverBoth ==
  LET s == Cat(pbufs, held["in"], held["oos"])
      p == held["in"]
  IN /\ Holding("in") /\ Holding("oos")
     /\ pbufs[held["in"]].tot_len > 0 /\ pbufs[held["oos"]].tot_len > 0
     /\ pbufs' = IF Holding("rx") THEN Cat(s, held["rx"], p) ELSE s
     /\ held' = [held EXCEPT !["rx"] = IF Holding("rx") THEN @ ELSE p,
                             !["in"] = NULL, !["oos"] = NULL]
     /\ UNCHANGED refused /\ Quiet

\* icmp_input answers from a copy of its own, the packet having no room in front.
Echo ==
  LET p   == held["in"]
      got == AllocRam(pbufs, PBUF_LINK_HLEN, pbufs[p].tot_len + IP_HLEN)
      s1  == RemoveHeader([got.s EXCEPT ![got.p] = Stored(@, 0, SubSeq(pbufs[p].mem, 1, IP_HLEN))],
                          got.p, IP_HLEN)
      s2  == AddHeader(PbufFree(CopyLoop(s1, got.p, 0, p, 0, pbufs[p].tot_len), p),
                       got.p, IP_HLEN)
  IN /\ Holding("in") /\ pbufs[p].off = IP_HLEN /\ pbufs[p].tot_len > 0
     /\ held' = [held EXCEPT !["in"] = NULL]
     /\ IF got.p = NULL
        THEN pbufs' = PbufFree(pbufs, p) /\ output' = <<>>
        ELSE /\ output' = CopyPartial(s2, got.p, s2[got.p].tot_len, 0)
             /\ pbufs' = PbufFree(s2, got.p)
     /\ UNCHANGED <<rx_off, seg, pbuf_free_ooseq_pending>> /\ Relief

-----------------------------------------------------------------------------
(* The application's side, and lwIP's timers. *)

RECURSIVE PumpDownExtraRef(_, _, _, _)
PumpDownExtraRef(s, p, off, n) ==
  IF p = NULL THEN [s |-> s, p |-> NULL, off |-> 0, got |-> <<>>]
  ELSE IF off >= s[p].len
  THEN PumpDownExtraRef(PbufFree([q \in DOMAIN s |->
                                    IF q = p THEN [s[q] EXCEPT !.next = NULL]
                                    ELSE IF q = s[p].next THEN [s[q] EXCEPT !.ref = @ + 1]
                                    ELSE s[q]], p), s[p].next, 0, n)
  ELSE LET k    == Lesser(s[p].len - off, n)
           rest == PumpDownExtraRef(s, p, off + k, n - k)
       IN IF k = 0 THEN [s |-> s, p |-> p, off |-> off, got |-> <<>>]
          ELSE [rest EXCEPT !.got = SubSeq(Payload(s[p]), off + 1, off + k) \o @]

\* pump_down: a link that is spent is detached and freed.
RECURSIVE PumpDown(_, _, _, _)
PumpDown(s, p, off, n) ==
  IF p = NULL THEN [s |-> s, p |-> NULL, off |-> 0, got |-> <<>>]
  ELSE IF off >= s[p].len
  THEN PumpDown(PbufFree([s EXCEPT ![p].next = NULL], p), s[p].next, 0, n)
  ELSE LET k    == Lesser(s[p].len - off, n)
           rest == PumpDown(s, p, off + k, n - k)
       IN IF k = 0 THEN [s |-> s, p |-> p, off |-> off, got |-> <<>>]
          ELSE [rest EXCEPT !.got = SubSeq(Payload(s[p]), off + 1, off + k) \o @]

\* The socket takes n bytes, or all there is.
Pump(n) ==
  LET r == PumpDown(pbufs, held["rx"], rx_off, n)
  IN /\ Holding("rx")
     /\ pbufs' = r.s /\ held' = [held EXCEPT !["rx"] = r.p]
     /\ rx_off' = r.off /\ output' = r.got
     /\ UNCHANGED <<seg, pbuf_free_ooseq_pending>> /\ Relief

\* conn_close and tcp_abort: the connection goes, with what it holds.
Close ==
  /\ pbufs' = PbufFree(PbufFree(pbufs, held["rx"]), held["oos"])
  /\ held' = [held EXCEPT !["rx"] = NULL, !["oos"] = NULL]
  /\ rx_off' = 0 /\ output' = <<>>
  /\ UNCHANGED <<seg, pbuf_free_ooseq_pending>> /\ Relief

CheckFreeOoseqOnlyClears ==
  /\ pbuf_free_ooseq_pending /\ pbuf_free_ooseq_pending' = FALSE
  /\ UNCHANGED <<pbufs, held, rx_off, seg, refused>> /\ output' = <<>>

\* sys_check_timeouts: PBUF_CHECK_FREE_OOSEQ.
CheckFreeOoseq ==
  /\ pbuf_free_ooseq_pending /\ pbuf_free_ooseq_pending' = FALSE
  /\ pbufs' = PbufFree(pbufs, held["oos"]) /\ held' = [held EXCEPT !["oos"] = NULL]
  /\ UNCHANGED <<rx_off, seg>> /\ output' = <<>> /\ Relief

\* tcp_create_segment puts a header in front of s[p].
Segment(s, p, len) ==
  LET t == AddHeader(s, p, TCP_HLEN)
  IN [s |-> [t EXCEPT ![p] = Stored(@, 0, SubSeq(Headers, 2, 2))],
      seg |-> [len |-> len, tcphdr |-> t[p].off]]

\* tcp_write.
WriteOut(bytes) ==
  LET got == AllocRam(pbufs, PBUF_TRANSPORT, Len(bytes))
      new == Segment(Take(got.s, got.p, bytes), got.p, Len(bytes))
  IN /\ ~ Holding("out") /\ got.p # NULL
     /\ pbufs' = new.s /\ seg' = [seg EXCEPT !["out"] = new.seg]
     /\ held' = [held EXCEPT !["out"] = got.p]
     /\ UNCHANGED <<rx_off, pbuf_free_ooseq_pending, refused>> /\ output' = <<>>

\* ip4_output_if puts a header in front, if there is room, and tunnel_output flattens the
\* packet.
IpOutput(s, p) ==
  LET t == [AddHeader(s, p, IP_HLEN) EXCEPT ![p] = Stored(@, 0, SubSeq(Headers, 1, 1))]
  IN /\ IF s[p].off < IP_HLEN
        THEN pbufs' = s /\ output' = <<>>
        ELSE pbufs' = t /\ output' = CopyPartial(t, p, t[p].tot_len, 0)
     /\ UNCHANGED <<held, rx_off, seg, pbuf_free_ooseq_pending, refused>>

SendWhereItIs(h) == Holding(h) /\ IpOutput(pbufs, held[h])

\* tcp_output_segment goes back to the TCP header, which the last transmission left behind
\* that of IP.
Send(h) ==
  /\ Holding(h)
  /\ IpOutput(RemoveHeader(pbufs, held[h], seg[h].tcphdr - pbufs[held[h]].off), held[h])

\* tcp_split_unsent_seg: the rest is copied from behind whatever headers there are.
SplitOut(split) ==
  LET p         == held["out"]
      remainder == seg["out"].len - split
      offset    == pbufs[p].tot_len - seg["out"].len + split
      got       == AllocRam(pbufs, PBUF_TRANSPORT, remainder)
      s         == Take(got.s, got.p, CopyPartial(got.s, p, remainder, offset))
      new       == Segment(s, got.p, remainder)
  IN /\ Holding("out") /\ ~ Holding("rest") /\ split > 0 /\ split < seg["out"].len
     /\ got.p # NULL
     /\ pbufs' = Realloc(new.s, p, new.s[p].tot_len - remainder)
     /\ seg' = [seg EXCEPT !["out"].len = split, !["rest"] = new.seg]
     /\ held' = [held EXCEPT !["rest"] = got.p]
     /\ UNCHANGED <<rx_off, pbuf_free_ooseq_pending, refused>> /\ output' = <<>>

\* tcp_seg_free.
Acked(h) ==
  /\ Holding(h)
  /\ pbufs' = PbufFree(pbufs, held[h]) /\ held' = [held EXCEPT ![h] = NULL]
  /\ seg' = [seg EXCEPT ![h] = NoSeg]
  /\ UNCHANGED <<rx_off, pbuf_free_ooseq_pending, refused>> /\ output' = <<>>

PbufNext ==
  \/ \E bytes \in Arriving, n \in {IP_HLEN, 3, 5} : Input(bytes, n)
  \/ StripHeader(TCP_HLEN)
  \/ \E n \in 1..3 : TrimFront(n) \/ Keep(n) \/ Pump(n) \/ SplitOut(n)
  \/ \E h \in {"in", "oos"}, n \in 1..2 : TrimBack(h, n)
  \/ DropIn \/ Deliver \/ DeliverBoth \/ Echo \/ Close \/ CheckFreeOoseq
  \/ \E bytes \in Written : WriteOut(bytes)
  \/ \E h \in {"out", "rest"} : Send(h) \/ Acked(h)

PbufSpec == PbufInit /\ [][PbufNext]_pbufVars

\* sys_check_timeouts runs with every pass.  Nothing is assumed of the application: one that
\* goes on writing is not swept out (awg_proxy.c:461), whether it reads or not.
PbufFairSpec == PbufSpec /\ []<>(~ pbuf_free_ooseq_pending)

-----------------------------------------------------------------------------
\* Every pbuf and everything that is held is in its range.
PbufTypeOK ==
  /\ \A p \in PoolPbufs \cup RamPbufs :
       /\ pbufs[p].ref \in 0..2 /\ pbufs[p].next \in {NULL} \cup PoolPbufs \cup RamPbufs
       /\ pbufs[p].off >= 0 /\ pbufs[p].len >= 0
       /\ pbufs[p].off + pbufs[p].len <= Len(pbufs[p].mem)
  /\ \A h \in DOMAIN held : held[h] \in {NULL} \cup PoolPbufs \cup RamPbufs
  /\ rx_off \in 0..PBUF_POOL_BUFSIZE

\* tot_len of a pbuf is its own len and the tot_len of the next, whatever was cut, joined,
\* stripped or detached before (the invariant at the head of struct pbuf).
ChainsAddUp ==
  \A p \in PoolPbufs \cup RamPbufs :
    pbufs[p].ref > 0 =>
      pbufs[p].tot_len =
        pbufs[p].len + (IF pbufs[p].next = NULL THEN 0 ELSE pbufs[pbufs[p].next].tot_len)

\* A pbuf is counted once for everyone who holds it and for every pbuf that points to it:
\* none is lost, and none is freed under somebody's hands.
RefsAgree ==
  \A p \in PoolPbufs \cup RamPbufs :
    pbufs[p].ref = Cardinality({h \in DOMAIN held : held[h] = p})
                   + Cardinality({q \in PoolPbufs \cup RamPbufs :
                                    pbufs[q].ref > 0 /\ pbufs[q].next = p})

\* The pbufs are in order: whatever order packets are joined, cut, sent and freed in, lengths
\* add up along every chain, and every pbuf is counted once for each who can reach it.
BuffersConsistent == PbufTypeOK /\ ChainsAddUp /\ RefsAgree

RECURSIVE Flat(_)
Flat(chain) == IF chain = <<>> THEN <<>> ELSE Payload(pbufs[Head(chain)]) \o Flat(Tail(chain))

\* The bytes somebody holds.
BytesOf(h) ==
  LET all == Flat(Chain(pbufs, held[h]))
      skip == CASE h = "rx" -> rx_off
                [] h \in {"out", "rest"} -> Len(all) - seg[h].len
                [] OTHER -> 0
  IN SubSeq(all, skip + 1, Len(all))

Store == INSTANCE PacketStore WITH
  packet <- [h \in DOMAIN held |-> IF Holding(h) THEN BytesOf(h) ELSE <<"nothing">>],
  gave <- output

\* The chains implement the store of packets: what is received is given to the application
\* byte for byte and in order, what is sent and sent again is what was written, and no
\* operation on one packet is seen in another.
KeepsPackets == Store!StoreSpec

\* Is every pbuf of the pool one the application has not read yet?
AllUnread == \A p \in PoolPbufs : \E i \in DOMAIN Chain(pbufs, held["rx"]) : Chain(pbufs, held["rx"])[i] = p

\* A pool that was found empty has a pbuf again later, unless all it has are bytes for an
\* application that does not read them: what lwIP keeps itself, of segments that came out of
\* order, is given up (PBUF_CHECK_FREE_OOSEQ).
OutOfOrderYields == refused ~> (~ refused \/ AllUnread)
=============================================================================
