-------------------------- MODULE AwgProxy_proofs --------------------------
(***************************************************************************)
(* What the proxy guarantees for any number of slots, pcbs and hosts, any  *)
(* buffer, clock and time limits: pcbs are never left behind, the deny     *)
(* list holds, and every connection is counted.                            *)
(*                                                                         *)
(* The handlers are functions of worlds, and so is the invariant: each     *)
(* lemma says of one of them that it keeps a good world good and its books *)
(* in order, or what is needed of it by those that call it.                *)
(***************************************************************************)
EXTENDS AwgProxy, FiniteSetTheorems, TLAPS

-----------------------------------------------------------------------------
(* The invariant, of worlds *)

ConnType ==
  [st : {"free", "sniff", "resolving", "connecting", "relay"},
   pcb : Pcbs \cup {NoPcb}, host : Hosts \cup {NoHost},
   last_ms : 0 .. ClockWrap - 1, up_len : 0 .. BUF_SIZE,
   rx : 0 .. RxMax, peer_closed : BOOLEAN, client : {"live", "done", "lost"}]

PcbType ==
  [state : {"free", "syn_sent", "established", "close_wait", "fin_wait", "last_ack",
            "time_wait"},
   arg : 0 .. MAX_CONN, dest : Hosts \cup {NoHost}]

StatsType == [accepted : Nat, completed : Nat, failed : Nat, closed : Nat]

Worlds ==
  [conn : [Slots -> ConnType], pcbs : [Pcbs -> PcbType],
   dns : [Slots -> [Hosts -> 0 .. DnsTable]], stats : StatsType, bad : BOOLEAN]

\* NoPcbLeftBehind and ConnectingAgrees.
Linked(conns, pool) ==
  \A p \in Pcbs : pool[p].state # "free" =>
    /\ pool[p].arg \in Slots
    /\ conns[pool[p].arg].st \in {"connecting", "relay"}
    /\ conns[pool[p].arg].pcb = p
    /\ conns[pool[p].arg].st = "connecting" <=> pool[p].state = "syn_sent"

\* DeniedNeverLeaves.
Blocked(lookups, pool) ==
  /\ \A s \in Slots, h \in Denied : lookups[s][h] = 0
  /\ \A p \in Pcbs : pool[p].dest \notin Denied

Good(w) == w \in Worlds /\ Linked(w.conn, w.pcbs) /\ Blocked(w.dns, w.pcbs)

\* NoEndUncounted.
LiveIn(conns)  == {s \in Slots : conns[s].st # "free"}
Counts(st)     == st.completed + st.failed + st.closed
Ended(conns, st) == st.accepted - Cardinality(LiveIn(conns))

InOrder(conns, st) == Ended(conns, st) <= Counts(st)

Kept(w) == Good(w) /\ InOrder(w.conn, w.stats)

Control ==
  /\ listening \in BOOLEAN /\ clock \in 0 .. ClockWrap - 1
  /\ phase \in {"wait", "events", "sweep", "pump"} /\ cursor \in Slots
  /\ owner \subseteq Slots

\* The inductive invariant.  While the proxy is down nothing of it is in use.
ProxyInv ==
  /\ Good(World) /\ Control
  /\ listening => InOrder(conn, stats)
  /\ ~listening => phase = "wait" /\ LiveIn(conn) = {}

-----------------------------------------------------------------------------
(* Lemmas on worlds *)

\* What the constants say of the numbers.
LEMMA Numbers ==
  /\ MAX_CONN \in Nat /\ MAX_CONN > 0 /\ BUF_SIZE \in Nat /\ BUF_SIZE > 0
  /\ SNIFF_LIMIT \in Nat /\ RxMax \in Nat /\ RxMax > 0 /\ DnsTable \in Nat
  /\ ClockWrap \in Nat /\ ClockWrap > 0 /\ SNIFF_TIMEOUT \in Nat /\ IDLE_TIMEOUT \in Nat
  /\ MaxAccepted \in Nat
BY ProxyAssumption

\* An empty slot and an unused pcb have their types; nobody is denied the null host.
LEMMA Fresh ==
  FreeConn \in ConnType /\ FreePcb \in PcbType /\ FreePcb.dest \notin Denied
BY Numbers, ProxyAssumption DEF FreeConn, FreePcb, ConnType, PcbType

\* The live slots are finite in number, and one fewer or one more when a slot is
\* emptied or taken.
LEMMA LiveFinite ==
  ASSUME NEW conns
  PROVE  IsFiniteSet(LiveIn(conns)) /\ Cardinality(LiveIn(conns)) \in Nat
<1>1. IsFiniteSet(Slots)
  BY FS_Interval, Numbers DEF Slots
<1>2. LiveIn(conns) \in SUBSET Slots
  BY DEF LiveIn
<1> QED  BY <1>1, <1>2, FS_Subset, FS_CardinalityType

\* When a connection ends and is counted once or twice, the books stay in order.
LEMMA EndCounted ==
  ASSUME NEW cs, NEW ds, NEW s \in LiveIn(cs), LiveIn(ds) = LiveIn(cs) \ {s},
         NEW st \in StatsType, NEW su \in StatsType, InOrder(cs, st),
         su.accepted = st.accepted, Counts(su) \in {Counts(st) + 1, Counts(st) + 2}
  PROVE  InOrder(ds, su)
<1>1. Cardinality(LiveIn(ds)) = Cardinality(LiveIn(cs)) - 1
  BY LiveFinite, FS_RemoveElement
<1>2. Cardinality(LiveIn(cs)) \in Nat /\ Counts(st) \in Nat /\ Counts(su) \in Nat
  BY LiveFinite DEF StatsType, Counts
<1>3. st.accepted \in Nat
  BY DEF StatsType
<1> QED  BY <1>1, <1>2, <1>3 DEF InOrder, Ended

\* What lwIP frees leaves a good world good.
LEMMA FreeUpGood ==
  ASSUME NEW w, Good(w), NEW p \in Pcbs
  PROVE  /\ Good(FreeUp(w, p)) /\ FreeUp(w, p).conn = w.conn
         /\ FreeUp(w, p).stats = w.stats /\ FreeUp(w, p).dns = w.dns
         /\ FreeUp(w, p).pcbs = [w.pcbs EXCEPT ![p] = FreePcb]
         /\ FreeUp(w, p).bad = w.bad
<1>1. w \in Worlds
  BY DEF Good
<1>2. /\ FreeUp(w, p).conn = w.conn /\ FreeUp(w, p).stats = w.stats
      /\ FreeUp(w, p).dns = w.dns /\ FreeUp(w, p).bad = w.bad
      /\ FreeUp(w, p).pcbs = [w.pcbs EXCEPT ![p] = FreePcb]
  BY <1>1 DEF FreeUp, Worlds
<1>3. FreeUp(w, p) \in Worlds
  BY <1>1, Fresh DEF FreeUp, Worlds
<1>4. Linked(w.conn, FreeUp(w, p).pcbs)
  BY <1>1, <1>2 DEF Good, Linked, Worlds, FreePcb
<1>5. Blocked(w.dns, FreeUp(w, p).pcbs)
  BY <1>1, <1>2, Fresh DEF Good, Blocked, Worlds
<1> QED  BY <1>2, <1>3, <1>4, <1>5 DEF Good

\* A call on a pcb changes nothing, or shows that it was freed.
LEMMA TouchGood ==
  ASSUME NEW w, Good(w), NEW p \in Pcbs \cup {NoPcb}
  PROVE  /\ Good(Touch(w, p)) /\ Touch(w, p).conn = w.conn /\ Touch(w, p).pcbs = w.pcbs
         /\ Touch(w, p).dns = w.dns /\ Touch(w, p).stats = w.stats
<1>1. w \in Worlds
  BY DEF Good
<1>2. /\ Touch(w, p).conn = w.conn /\ Touch(w, p).pcbs = w.pcbs
      /\ Touch(w, p).dns = w.dns /\ Touch(w, p).stats = w.stats
  BY <1>1 DEF Touch, Worlds
<1>3. Touch(w, p) \in Worlds
  BY <1>1 DEF Touch, Worlds
<1> QED  BY <1>2, <1>3 DEF Good

\* A slot and a pcb that name each other, and no other pcb names the slot.
LEMMA PairLinked ==
  ASSUME NEW conns \in [Slots -> ConnType], NEW pool \in [Pcbs -> PcbType],
         Linked(conns, pool), NEW s \in Slots, NEW p \in Pcbs,
         NEW c \in ConnType, c.st \in {"connecting", "relay"}, c.pcb = p,
         NEW q \in PcbType, q.state # "free", q.arg = s,
         c.st = "connecting" <=> q.state = "syn_sent",
         \A r \in Pcbs \ {p} : pool[r].state # "free" => pool[r].arg # s
  PROVE  Linked([conns EXCEPT ![s] = c], [pool EXCEPT ![p] = q])
<1> DEFINE cs == [conns EXCEPT ![s] = c]
           ps == [pool EXCEPT ![p] = q]
<1>1. cs[s] = c /\ ps[p] = q
  OBVIOUS
<1>2. \A r \in Pcbs \ {p} : ps[r] = pool[r]
  OBVIOUS
<1>3. \A t \in Slots \ {s} : cs[t] = conns[t]
  OBVIOUS
<1> HIDE DEF cs, ps
<1> SUFFICES ASSUME NEW r \in Pcbs, ps[r].state # "free"
             PROVE  /\ ps[r].arg \in Slots
                    /\ cs[ps[r].arg].st \in {"connecting", "relay"}
                    /\ cs[ps[r].arg].pcb = r
                    /\ cs[ps[r].arg].st = "connecting" <=> ps[r].state = "syn_sent"
  BY DEF Linked, cs, ps
<1>4. CASE r = p
  BY <1>1, <1>4
<1>5. CASE r # p
  <2>1. ps[r] = pool[r] /\ pool[r].arg # s
    BY <1>2, <1>5
  <2>2. /\ pool[r].arg \in Slots /\ conns[pool[r].arg].st \in {"connecting", "relay"}
        /\ conns[pool[r].arg].pcb = r
        /\ conns[pool[r].arg].st = "connecting" <=> pool[r].state = "syn_sent"
    BY <2>1 DEF Linked
  <2>3. cs[pool[r].arg] = conns[pool[r].arg]
    BY <1>3, <2>1, <2>2
  <2> QED  BY <2>1, <2>2, <2>3
<1> QED  BY <1>4, <1>5

\* A pcb moves on, and neither is freed nor reaches its peer by it.
LEMMA PoolLinked ==
  ASSUME NEW conns, NEW pool \in [Pcbs -> PcbType], Linked(conns, pool), NEW p \in Pcbs,
         NEW q \in PcbType, q.arg = pool[p].arg,
         q.state = "free" <=> pool[p].state = "free",
         q.state = "syn_sent" <=> pool[p].state = "syn_sent"
  PROVE  Linked(conns, [pool EXCEPT ![p] = q])
<1> DEFINE ps == [pool EXCEPT ![p] = q]
<1>1. \A r \in Pcbs : /\ ps[r].arg = pool[r].arg
                      /\ ps[r].state = "free" <=> pool[r].state = "free"
                      /\ ps[r].state = "syn_sent" <=> pool[r].state = "syn_sent"
  OBVIOUS
<1> HIDE DEF ps
<1>2. Linked(conns, ps)
  BY <1>1 DEF Linked
<1> QED  BY <1>2 DEF ps


\* A failure is only a number.
LEMMA FailGood ==
  ASSUME NEW w, Good(w)
  PROVE  /\ Good(Fail(w)) /\ Fail(w).conn = w.conn /\ Fail(w).pcbs = w.pcbs
         /\ Fail(w).dns = w.dns /\ Fail(w).stats.accepted = w.stats.accepted
         /\ Counts(Fail(w).stats) = Counts(w.stats) + 1
<1>1. w \in Worlds
  BY DEF Good
<1>2. /\ Fail(w).conn = w.conn /\ Fail(w).pcbs = w.pcbs /\ Fail(w).dns = w.dns
      /\ Fail(w).stats = [w.stats EXCEPT !.failed = @ + 1]
  BY <1>1 DEF Fail, Worlds
<1>3. w.stats \in StatsType
  BY <1>1 DEF Worlds
<1>4. Fail(w).stats \in StatsType /\ Counts(Fail(w).stats) = Counts(w.stats) + 1
      /\ Fail(w).stats.accepted = w.stats.accepted
  BY <1>2, <1>3 DEF StatsType, Counts
<1>5. Fail(w) \in Worlds
  BY <1>1, <1>4 DEF Fail, Worlds
<1> QED  BY <1>2, <1>4, <1>5 DEF Good

\* So is an orderly end.
LEMMA CompleteGood ==
  ASSUME NEW w, Good(w)
  PROVE  /\ Good(Complete(w)) /\ Complete(w).conn = w.conn /\ Complete(w).pcbs = w.pcbs
         /\ Complete(w).dns = w.dns /\ Complete(w).stats.accepted = w.stats.accepted
         /\ Counts(Complete(w).stats) = Counts(w.stats) + 1
<1>1. w \in Worlds
  BY DEF Good
<1>2. /\ Complete(w).conn = w.conn /\ Complete(w).pcbs = w.pcbs /\ Complete(w).dns = w.dns
      /\ Complete(w).stats = [w.stats EXCEPT !.completed = @ + 1]
  BY <1>1 DEF Complete, Worlds
<1>3. w.stats \in StatsType
  BY <1>1 DEF Worlds
<1>4. Complete(w).stats \in StatsType /\ Counts(Complete(w).stats) = Counts(w.stats) + 1
      /\ Complete(w).stats.accepted = w.stats.accepted
  BY <1>2, <1>3 DEF StatsType, Counts
<1>5. Complete(w) \in Worlds
  BY <1>1, <1>4 DEF Complete, Worlds
<1> QED  BY <1>2, <1>4, <1>5 DEF Good

\* conn_close() empties the slot, aborts its pcb and leaves everything else.
LEMMA CloseGood ==
  ASSUME NEW w, Good(w), NEW s \in Slots, NEW counted \in BOOLEAN
  PROVE  LET v == ConnClose(w, s, counted)
         IN  /\ Good(v) /\ v.dns = w.dns
             /\ s \in LiveIn(w.conn) => v.conn = [w.conn EXCEPT ![s] = FreeConn]
             /\ LiveIn(v.conn) = LiveIn(w.conn) \ {s}
             /\ v.stats.accepted = w.stats.accepted
             /\ s \in LiveIn(w.conn) /\ counted = TRUE => Counts(v.stats) = Counts(w.stats) + 1
             /\ s \in LiveIn(w.conn) /\ counted = FALSE => Counts(v.stats) = Counts(w.stats)
             /\ s \notin LiveIn(w.conn) => v = w
<1> DEFINE v == ConnClose(w, s, counted)
<1>1. w \in Worlds
  BY DEF Good
<1>2. CASE w.conn[s].st = "free"
  BY <1>1, <1>2 DEF ConnClose, LiveIn, Worlds
<1>3. CASE w.conn[s].st # "free"
  <2> DEFINE p == w.conn[s].pcb
             u == IF p = NoPcb THEN w ELSE FreeUp(Touch(w, p), p)
  <2>1. p \in Pcbs \cup {NoPcb}
    BY <1>1 DEF Worlds, ConnType
  <2>2. /\ Good(u) /\ u.conn = w.conn /\ u.dns = w.dns /\ u.stats = w.stats
        /\ p \in Pcbs => u.pcbs[p] = FreePcb
    <3>1. CASE p = NoPcb
      BY <3>1, ProxyAssumption
    <3>2. CASE p # NoPcb
      <4>1. /\ Good(Touch(w, p)) /\ Touch(w, p).conn = w.conn
            /\ Touch(w, p).dns = w.dns /\ Touch(w, p).stats = w.stats
        BY <2>1, TouchGood
      <4>2. Touch(w, p).pcbs \in [Pcbs -> PcbType]
        BY <4>1 DEF Good, Worlds
      <4> QED  BY <2>1, <3>2, <4>1, <4>2, FreeUpGood
    <3> QED  BY <3>1, <3>2
  <2> HIDE DEF u
  <2>3. u \in Worlds
    BY <2>2 DEF Good
  <2>4. v = [u EXCEPT !.conn[s] = FreeConn,
                      !.stats.closed = IF counted THEN @ + 1 ELSE @]
    BY <1>3 DEF ConnClose, u
  <2>5. /\ v.conn = [w.conn EXCEPT ![s] = FreeConn] /\ v.dns = w.dns /\ v.pcbs = u.pcbs
        /\ v.stats = [w.stats EXCEPT !.closed = IF counted THEN @ + 1 ELSE @]
    BY <2>2, <2>3, <2>4 DEF Worlds
  <2>6. w.stats \in StatsType /\ w.conn \in [Slots -> ConnType]
    BY <1>1 DEF Worlds
  <2>7. /\ v.stats \in StatsType /\ v.stats.accepted = w.stats.accepted
        /\ Counts(v.stats) = IF counted THEN Counts(w.stats) + 1 ELSE Counts(w.stats)
    BY <2>5, <2>6 DEF StatsType, Counts
  <2>8. v \in Worlds
    <3>1. v.conn \in [Slots -> ConnType]
      BY <2>5, <2>6, Fresh
    <3>2. v = [u EXCEPT !.conn = v.conn, !.stats = v.stats]
      BY <2>2, <2>3, <2>4, <2>5 DEF Worlds
    <3> HIDE DEF v
    <3> QED  BY <2>3, <2>7, <3>1, <3>2 DEF Worlds
  <2>9. LiveIn(v.conn) = LiveIn(w.conn) \ {s}
    BY <2>5, <2>6 DEF LiveIn, FreeConn
  <2>10. Linked(v.conn, v.pcbs)
    <3>1. Linked(w.conn, u.pcbs) /\ u.pcbs \in [Pcbs -> PcbType]
      BY <2>2, <2>3 DEF Good, Worlds
    <3>2. ASSUME NEW q \in Pcbs, u.pcbs[q].state # "free"
          PROVE  u.pcbs[q].arg # s
      BY <2>2, <3>1, <3>2 DEF Linked, FreePcb
    <3> QED  BY <2>5, <2>6, <3>1, <3>2 DEF Linked
  <2>11. Good(v)
    BY <2>2, <2>5, <2>8, <2>10 DEF Good
  <2>12. s \in LiveIn(w.conn)
    BY <1>3 DEF LiveIn
  <2> QED  BY <2>5, <2>6, <2>7, <2>9, <2>11, <2>12
<1> QED  BY <1>2, <1>3

\* conn_close() with a reason, and without.
Closed(w, s) == ConnClose(w, s, TRUE)
Quietly(w, s) == ConnClose(w, s, FALSE)

\* A connection is closed for a reason, perhaps after a failure was counted.
LEMMA CountedKept ==
  ASSUME NEW w, Kept(w), NEW v, Good(v), NEW s \in LiveIn(w.conn),
         LiveIn(v.conn) = LiveIn(w.conn), v.stats.accepted = w.stats.accepted,
         Counts(v.stats) \in {Counts(w.stats), Counts(w.stats) + 1}
  PROVE  LET u == Closed(v, s)
         IN  Kept(u) /\ u.dns = v.dns /\ u.conn = [v.conn EXCEPT ![s] = FreeConn]
<1> DEFINE yes == TRUE
           u == ConnClose(v, s, yes)
<1>0. yes \in BOOLEAN /\ yes = TRUE /\ u = Closed(v, s)
  BY DEF Closed
<1> HIDE DEF yes
<1>1. s \in Slots /\ s \in LiveIn(v.conn)
  BY DEF LiveIn
<1>2. /\ Good(u) /\ u.dns = v.dns /\ LiveIn(u.conn) = LiveIn(v.conn) \ {s}
      /\ u.stats.accepted = v.stats.accepted
      /\ Counts(u.stats) = Counts(v.stats) + 1
      /\ u.conn = [v.conn EXCEPT ![s] = FreeConn]
  BY <1>0, <1>1, CloseGood
<1> HIDE DEF u
<1>3. w.stats \in StatsType /\ u.stats \in StatsType
  BY <1>2 DEF Kept, Good, Worlds
<1>4. Counts(w.stats) \in Nat
  BY <1>3 DEF StatsType, Counts
<1>5. Counts(u.stats) \in {Counts(w.stats) + 1, Counts(w.stats) + 2}
  BY <1>2, <1>4
<1>6. InOrder(u.conn, u.stats)
  BY <1>2, <1>3, <1>5, EndCounted DEF Kept
<1> QED  BY <1>0, <1>2, <1>6 DEF Kept

\* A connection is closed after it was counted.
LEMMA UncountedKept ==
  ASSUME NEW w, Kept(w), NEW v, Good(v), NEW s \in LiveIn(w.conn),
         LiveIn(v.conn) = LiveIn(w.conn), v.stats.accepted = w.stats.accepted,
         Counts(v.stats) \in {Counts(w.stats) + 1, Counts(w.stats) + 2}
  PROVE  LET u == Quietly(v, s)
         IN  Kept(u) /\ u.dns = v.dns /\ u.conn = [v.conn EXCEPT ![s] = FreeConn]
<1> DEFINE no == FALSE
           u == ConnClose(v, s, no)
<1>0. no \in BOOLEAN /\ no = FALSE /\ u = Quietly(v, s)
  BY DEF Quietly
<1> HIDE DEF no
<1>1. s \in Slots /\ s \in LiveIn(v.conn)
  BY DEF LiveIn
<1>2. /\ Good(u) /\ u.dns = v.dns /\ LiveIn(u.conn) = LiveIn(v.conn) \ {s}
      /\ u.stats.accepted = v.stats.accepted
      /\ Counts(u.stats) = Counts(v.stats)
      /\ u.conn = [v.conn EXCEPT ![s] = FreeConn]
  BY <1>0, <1>1, CloseGood
<1> HIDE DEF u
<1>3. w.stats \in StatsType /\ u.stats \in StatsType
  BY <1>2 DEF Kept, Good, Worlds
<1>4. Counts(w.stats) \in Nat
  BY <1>3 DEF StatsType, Counts
<1>5. Counts(u.stats) \in {Counts(w.stats) + 1, Counts(w.stats) + 2}
  BY <1>2, <1>4
<1>6. InOrder(u.conn, u.stats)
  BY <1>2, <1>3, <1>5, EndCounted DEF Kept
<1> QED  BY <1>0, <1>2, <1>6 DEF Kept

\* A change of one slot, which leaves it joined to its pcb or was to none.
LEMMA SlotKept ==
  ASSUME NEW w, Kept(w), NEW s \in Slots, NEW c \in ConnType,
         c.st = "free" <=> w.conn[s].st = "free",
         \/ c.st = w.conn[s].st /\ c.pcb = w.conn[s].pcb
         \/ \A p \in Pcbs : w.pcbs[p].state # "free" => w.pcbs[p].arg # s,
         NEW v, v = [w EXCEPT !.conn = [w.conn EXCEPT ![s] = c]]
  PROVE  Kept(v)
<1>1. /\ w \in Worlds /\ w.conn \in [Slots -> ConnType] /\ w.pcbs \in [Pcbs -> PcbType]
      /\ Linked(w.conn, w.pcbs)
  BY DEF Kept, Good, Worlds
<1>2. /\ v.conn = [w.conn EXCEPT ![s] = c] /\ v.pcbs = w.pcbs /\ v.dns = w.dns
      /\ v.stats = w.stats
  BY <1>1 DEF Worlds
<1>3. v \in Worlds
  BY <1>1 DEF Worlds
<1>4. Linked(v.conn, v.pcbs)
  <2> SUFFICES ASSUME NEW p \in Pcbs, w.pcbs[p].state # "free"
               PROVE  /\ w.pcbs[p].arg \in Slots
                      /\ v.conn[w.pcbs[p].arg].st \in {"connecting", "relay"}
                      /\ v.conn[w.pcbs[p].arg].pcb = p
                      /\ v.conn[w.pcbs[p].arg].st = "connecting" <=> w.pcbs[p].state = "syn_sent"
    BY <1>2 DEF Linked
  <2>1. /\ w.pcbs[p].arg \in Slots
        /\ w.conn[w.pcbs[p].arg].st \in {"connecting", "relay"}
        /\ w.conn[w.pcbs[p].arg].pcb = p
        /\ w.conn[w.pcbs[p].arg].st = "connecting" <=> w.pcbs[p].state = "syn_sent"
    BY <1>1 DEF Linked
  <2>2. w.pcbs[p].arg # s => v.conn[w.pcbs[p].arg] = w.conn[w.pcbs[p].arg]
    BY <1>1, <1>2, <2>1
  <2>3. v.conn[s] = c
    BY <1>1, <1>2
  <2> QED  BY <2>1, <2>2, <2>3
<1>5. LiveIn(v.conn) = LiveIn(w.conn)
  BY <1>1, <1>2 DEF LiveIn
<1> QED  BY <1>2, <1>3, <1>4, <1>5 DEF Kept, Good, InOrder, Ended

\* Slots that connect or relay are the only ones a pcb in use belongs to.
LEMMA Unjoined ==
  ASSUME NEW w, Good(w), NEW s \in Slots, w.conn[s].st \notin {"connecting", "relay"}
  PROVE  \A p \in Pcbs : w.pcbs[p].state # "free" => w.pcbs[p].arg # s
BY DEF Good, Linked

\* on_err(): the slot of a pcb that was freed is closed, and a failure counted.
LEMMA OnErrKept ==
  ASSUME NEW w, Kept(w), NEW s \in LiveIn(w.conn),
         \A p \in Pcbs : w.pcbs[p].state # "free" => w.pcbs[p].arg # s
  PROVE  /\ Kept(OnErr(w, s)) /\ OnErr(w, s).dns = w.dns
         /\ OnErr(w, s).conn = [w.conn EXCEPT ![s] = FreeConn]
         /\ OnErr(w, s).pcbs = w.pcbs
<1> DEFINE v == [Fail(w) EXCEPT !.conn[s].pcb = NoPcb]
           c == [w.conn[s] EXCEPT !.pcb = NoPcb]
           u == [w EXCEPT !.conn = [w.conn EXCEPT ![s] = c]]
<1>1. s \in Slots /\ Good(w) /\ w \in Worlds /\ w.conn \in [Slots -> ConnType]
  BY DEF Kept, Good, LiveIn, Worlds
<1>2. c \in ConnType /\ c.st = w.conn[s].st /\ c.st # "free" /\ c.pcb = NoPcb
  BY <1>1 DEF ConnType, LiveIn
<1>3. Kept(u)
  BY <1>1, <1>2, SlotKept
<1>4. v = Fail(u)
  BY <1>1 DEF Fail, Worlds
<1>5. u.conn = [w.conn EXCEPT ![s] = c] /\ u.dns = w.dns /\ u.stats = w.stats
      /\ u.pcbs = w.pcbs
  BY <1>1 DEF Worlds
<1>6. LiveIn(u.conn) = LiveIn(w.conn)
  BY <1>1, <1>2, <1>5 DEF LiveIn
<1> HIDE DEF u, c
<1>7. /\ Good(v) /\ v.conn = u.conn /\ v.dns = w.dns /\ v.pcbs = w.pcbs
      /\ v.stats.accepted = u.stats.accepted /\ Counts(v.stats) = Counts(u.stats) + 1
  <2>1. Good(u)
    BY <1>3 DEF Kept
  <2> HIDE DEF v
  <2> QED  BY <1>4, <1>5, <2>1, FailGood
<1>8. w.stats \in StatsType
  BY <1>1 DEF Worlds
<1>9. Counts(u.stats) \in Nat
  BY <1>5, <1>8 DEF StatsType, Counts
<1> HIDE DEF v
<1>10. /\ Kept(Quietly(v, s)) /\ Quietly(v, s).dns = v.dns
       /\ Quietly(v, s).conn = [v.conn EXCEPT ![s] = FreeConn]
  <2>1. /\ s \in LiveIn(u.conn) /\ LiveIn(v.conn) = LiveIn(u.conn)
        /\ Counts(v.stats) \in {Counts(u.stats) + 1, Counts(u.stats) + 2}
    BY <1>6, <1>7, <1>9
  <2> QED  BY <1>3, <1>7, <2>1, UncountedKept
<1>11. OnErr(w, s) = Quietly(v, s)
  BY DEF OnErr, Quietly, v
<1>13. Quietly(v, s).pcbs = v.pcbs
  <2>1. v.conn[s].st # "free" /\ v.conn[s].pcb = NoPcb
    BY <1>1, <1>2, <1>5, <1>7
  <2> QED  BY <1>7, <2>1 DEF Quietly, ConnClose, Good, Worlds
<1>14. v.conn = [w.conn EXCEPT ![s] = v.conn[s]]
  BY <1>1, <1>5, <1>7
<1> QED  BY <1>7, <1>10, <1>11, <1>13, <1>14

\* lwIP gives up a pcb that is in use: it and its slot are free, the rest is as before.
LEMMA DropKept ==
  ASSUME NEW w, Kept(w), NEW p \in Pcbs, w.pcbs[p].state # "free"
  PROVE  /\ Kept(DropPcb(w, p)) /\ DropPcb(w, p).dns = w.dns
         /\ DropPcb(w, p).pcbs[p].state = "free"
         /\ \A t \in Slots : w.conn[t].st \notin {"connecting", "relay"} =>
               DropPcb(w, p).conn[t] = w.conn[t]
<1> DEFINE s == w.pcbs[p].arg
           v == FreeUp(w, p)
<1>1. /\ Good(w) /\ w \in Worlds /\ w.pcbs \in [Pcbs -> PcbType]
      /\ Linked(w.conn, w.pcbs)
  BY DEF Kept, Good, Worlds
<1>2. s \in Slots /\ w.conn[s].st \in {"connecting", "relay"} /\ w.conn[s].pcb = p
  BY <1>1 DEF Linked
<1>3. /\ Good(v) /\ v.conn = w.conn /\ v.stats = w.stats /\ v.dns = w.dns
      /\ v.pcbs = [w.pcbs EXCEPT ![p] = FreePcb]
  BY <1>1, FreeUpGood
<1>4. Kept(v) /\ s \in LiveIn(v.conn)
  BY <1>2, <1>3 DEF Kept, LiveIn
<1>5. \A q \in Pcbs : v.pcbs[q].state # "free" => v.pcbs[q].arg # s
  <2> HIDE DEF s, v
  <2>1. v.pcbs[p].state = "free" /\ \A q \in Pcbs \ {p} : v.pcbs[q] = w.pcbs[q]
    BY <1>1, <1>3 DEF FreePcb
  <2>2. \A q \in Pcbs \ {p} : w.pcbs[q].state # "free" => w.pcbs[q].arg # s
    BY <1>1, <1>2 DEF Linked
  <2> QED  BY <2>1, <2>2
<1>6. v.pcbs[p].state = "free"
  BY <1>1, <1>3 DEF FreePcb
<1>7. DropPcb(w, p) = OnErr(v, s)
  BY <1>2, Numbers DEF DropPcb, Slots
<1> HIDE DEF v, s
<1>8. /\ Kept(OnErr(v, s)) /\ OnErr(v, s).dns = v.dns
      /\ OnErr(v, s).conn = [v.conn EXCEPT ![s] = FreeConn]
      /\ OnErr(v, s).pcbs = v.pcbs
  BY <1>4, <1>5, OnErrKept
<1>9. w.conn \in [Slots -> ConnType]
  BY <1>1 DEF Worlds
<1> QED  BY <1>2, <1>3, <1>6, <1>7, <1>8, <1>9

\* tcp_new(): the pcb that comes back is free, and no slot that has none was touched.
LEMMA TcpNewKept ==
  ASSUME NEW w, Kept(w), NEW r \in TcpNew(w)
  PROVE  /\ Kept(r.w) /\ r.w.dns = w.dns
         /\ r.p # NoPcb => r.p \in Pcbs /\ r.w.pcbs[r.p].state = "free"
         /\ \A t \in Slots : w.conn[t].st \notin {"connecting", "relay"} =>
               r.w.conn[t] = w.conn[t]
<1>1. Good(w) /\ w.pcbs \in [Pcbs -> PcbType]
  BY DEF Kept, Good, Worlds
<1>2. \/ \E p \in Pcbs : w.pcbs[p].state = "free" /\ r = [w |-> w, p |-> p]
      \/ \E p \in Pcbs : w.pcbs[p].state = "time_wait" /\ r = [w |-> FreeUp(w, p), p |-> p]
      \/ \E p \in Pcbs : w.pcbs[p].state = "last_ack" /\ r = [w |-> DropPcb(w, p), p |-> p]
      \/ r = [w |-> w, p |-> NoPcb]
  BY DEF TcpNew, InState
<1>3. ASSUME NEW p \in Pcbs, w.pcbs[p].state = "time_wait", r = [w |-> FreeUp(w, p), p |-> p]
      PROVE  /\ Kept(r.w) /\ r.w.dns = w.dns /\ r.p \in Pcbs /\ r.w.conn = w.conn
             /\ r.w.pcbs[r.p].state = "free"
  <2> DEFINE v == FreeUp(w, p)
  <2>1. /\ Good(v) /\ v.conn = w.conn /\ v.stats = w.stats /\ v.dns = w.dns
        /\ v.pcbs = [w.pcbs EXCEPT ![p] = FreePcb]
    BY <1>1, FreeUpGood
  <2>2. v.pcbs[p].state = "free" /\ r.w = v /\ r.p = p
    BY <1>1, <1>3, <2>1 DEF FreePcb
  <2> HIDE DEF v
  <2> QED  BY <2>1, <2>2 DEF Kept
<1>4. ASSUME NEW p \in Pcbs, w.pcbs[p].state = "last_ack", r = [w |-> DropPcb(w, p), p |-> p]
      PROVE  /\ Kept(r.w) /\ r.w.dns = w.dns /\ r.p \in Pcbs
             /\ r.w.pcbs[r.p].state = "free"
             /\ \A t \in Slots : w.conn[t].st \notin {"connecting", "relay"} =>
                   r.w.conn[t] = w.conn[t]
  BY <1>4, DropKept
<1> QED  BY <1>2, <1>3, <1>4

\* A live connection is closed with a reason, or with a reason after a failure.
LEMMA CloseKept ==
  ASSUME NEW w, Kept(w), NEW s \in LiveIn(w.conn)
  PROVE  /\ Kept(Closed(w, s)) /\ Closed(w, s).dns = w.dns
         /\ Closed(w, s).conn = [w.conn EXCEPT ![s] = FreeConn]
BY CountedKept DEF Kept

\* A connection that fails is counted once and closed, and the books stay in order.
LEMMA FailCloseKept ==
  ASSUME NEW w, Kept(w), NEW s \in LiveIn(w.conn)
  PROVE  /\ Kept(Closed(Fail(w), s)) /\ Closed(Fail(w), s).dns = w.dns
         /\ Closed(Fail(w), s).conn = [w.conn EXCEPT ![s] = FreeConn]
<1>1. Good(w)
  BY DEF Kept
<1>2. /\ Good(Fail(w)) /\ Fail(w).conn = w.conn /\ Fail(w).dns = w.dns
      /\ Fail(w).stats.accepted = w.stats.accepted
      /\ Counts(Fail(w).stats) = Counts(w.stats) + 1
  BY <1>1, FailGood
<1> QED  BY <1>2, CountedKept

\* A slot that waits for its name is joined to a pcb that is free.
LEMMA JoinKept ==
  ASSUME NEW w, Kept(w), NEW s \in Slots, w.conn[s].st = "resolving",
         NEW p \in Pcbs, w.pcbs[p].state = "free", NEW h \in Hosts \ Denied,
         NEW v, v = [w EXCEPT !.conn[s].pcb = p, !.conn[s].st = "connecting",
                              !.pcbs[p] = [state |-> "syn_sent", arg |-> s, dest |-> h]]
  PROVE  Kept(v) /\ s \in LiveIn(v.conn) /\ v.dns = w.dns
<1> DEFINE c == [w.conn[s] EXCEPT !.pcb = p, !.st = "connecting"]
           q == [state |-> "syn_sent", arg |-> s, dest |-> h]
<1>1. /\ Good(w) /\ w \in Worlds /\ w.conn \in [Slots -> ConnType]
      /\ w.pcbs \in [Pcbs -> PcbType] /\ Linked(w.conn, w.pcbs) /\ Blocked(w.dns, w.pcbs)
  BY DEF Kept, Good, Worlds
<1>2. c \in ConnType /\ c.st = "connecting" /\ c.pcb = p
  BY <1>1 DEF ConnType
<1>3. q \in PcbType /\ q.state = "syn_sent" /\ q.arg = s /\ q.dest = h
  BY Numbers DEF PcbType, Slots
<1>4. /\ v.conn = [w.conn EXCEPT ![s] = c] /\ v.pcbs = [w.pcbs EXCEPT ![p] = q]
      /\ v.dns = w.dns /\ v.stats = w.stats /\ v.bad = w.bad
  BY <1>1 DEF Worlds
<1>5. v = [w EXCEPT !.conn = v.conn, !.pcbs = v.pcbs]
  BY <1>1, <1>4 DEF Worlds
<1> HIDE DEF c, q
<1>6. v.conn \in [Slots -> ConnType] /\ v.pcbs \in [Pcbs -> PcbType]
  BY <1>1, <1>2, <1>3, <1>4
<1>7. v \in Worlds
  BY <1>1, <1>5, <1>6 DEF Worlds
<1>8. \A r \in Pcbs : w.pcbs[r].state # "free" => w.pcbs[r].arg # s
  BY <1>1, Unjoined
<1>9. Linked(v.conn, v.pcbs)
  <2>1. c.st \in {"connecting", "relay"} /\ (c.st = "connecting" <=> q.state = "syn_sent")
    BY <1>2, <1>3
  <2>2. q.state # "free" /\ \A r \in Pcbs \ {p} : w.pcbs[r].state # "free" => w.pcbs[r].arg # s
    BY <1>3, <1>8
  <2>3. Linked([w.conn EXCEPT ![s] = c], [w.pcbs EXCEPT ![p] = q])
    BY <1>1, <1>2, <1>3, <2>1, <2>2, PairLinked
  <2> QED  BY <1>4, <2>3
<1>10. Blocked(v.dns, v.pcbs)
  BY <1>1, <1>3, <1>4 DEF Blocked
<1>11. LiveIn(v.conn) = LiveIn(w.conn) /\ s \in LiveIn(v.conn)
  BY <1>1, <1>2, <1>4 DEF LiveIn
<1> QED  BY <1>4, <1>7, <1>9, <1>10, <1>11 DEF Kept, Good, InOrder, Ended

\* on_resolved() for a host that is not denied.
LEMMA OnResolvedKept ==
  ASSUME NEW w, Kept(w), NEW s \in Slots, NEW h \in Hosts \ Denied,
         NEW found \in BOOLEAN, NEW v \in OnResolved(w, s, h, found)
  PROVE  Kept(v)
<1>1. CASE w.conn[s].st # "resolving"
  BY <1>1 DEF OnResolved
<1>2. CASE w.conn[s].st = "resolving"
  <2>1. s \in LiveIn(w.conn)
    BY <1>2 DEF LiveIn
  <2>2. \/ v = Closed(Fail(w), s)
        \/ \E r \in TcpNew(w) : r.p = NoPcb /\ v = Closed(Fail(r.w), s)
        \/ \E r \in TcpNew(w) :
             /\ r.p # NoPcb
             /\ LET u == [r.w EXCEPT !.conn[s].pcb = r.p, !.conn[s].st = "connecting",
                                     !.pcbs[r.p] = [state |-> "syn_sent", arg |-> s, dest |-> h]]
                IN  v = u \/ v = Closed(Fail(u), s)
    BY <1>2 DEF OnResolved, Closed
  <2>3. ASSUME NEW r \in TcpNew(w)
        PROVE  /\ Kept(r.w) /\ r.w.conn[s] = w.conn[s] /\ s \in LiveIn(r.w.conn)
               /\ r.p # NoPcb => r.p \in Pcbs /\ r.w.pcbs[r.p].state = "free"
    <3>1. /\ Kept(r.w) /\ r.w.conn[s] = w.conn[s]
          /\ r.p # NoPcb => r.p \in Pcbs /\ r.w.pcbs[r.p].state = "free"
      BY <1>2, TcpNewKept
    <3> QED  BY <1>2, <3>1 DEF LiveIn
  <2>4. CASE v = Closed(Fail(w), s)
    BY <2>1, <2>4, FailCloseKept
  <2>5. ASSUME NEW r \in TcpNew(w), v = Closed(Fail(r.w), s)
        PROVE  Kept(v)
    <3>1. Kept(r.w) /\ s \in LiveIn(r.w.conn)
      BY <2>3
    <3> QED  BY <2>5, <3>1, FailCloseKept
  <2>6. ASSUME NEW r \in TcpNew(w), r.p # NoPcb,
               LET u == [r.w EXCEPT !.conn[s].pcb = r.p, !.conn[s].st = "connecting",
                                    !.pcbs[r.p] = [state |-> "syn_sent", arg |-> s, dest |-> h]]
               IN  v = u \/ v = Closed(Fail(u), s)
        PROVE  Kept(v)
    <3> DEFINE u == [r.w EXCEPT !.conn[s].pcb = r.p, !.conn[s].st = "connecting",
                                !.pcbs[r.p] = [state |-> "syn_sent", arg |-> s, dest |-> h]]
    <3>1. v = u \/ v = Closed(Fail(u), s)
      BY <2>6
    <3>2. u = [r.w EXCEPT !.conn[s].pcb = r.p, !.conn[s].st = "connecting",
                          !.pcbs[r.p] = [state |-> "syn_sent", arg |-> s, dest |-> h]]
      OBVIOUS
    <3>3. Kept(r.w) /\ r.w.conn[s].st = "resolving"
          /\ r.p \in Pcbs /\ r.w.pcbs[r.p].state = "free"
      BY <1>2, <2>3, <2>6
    <3> HIDE DEF u
    <3>4. Kept(u) /\ s \in LiveIn(u.conn)
      BY <3>2, <3>3, JoinKept
    <3>5. Kept(Closed(Fail(u), s))
      BY <3>4, FailCloseKept
    <3> QED  BY <3>1, <3>4, <3>5
  <2> QED  BY <2>2, <2>4, <2>5, <2>6, Zenon
<1> QED  BY <1>1, <1>2

\* As long as the table of lookups has room, no count of it is at its limit.
LEMMA LookupRoom ==
  ASSUME NEW w \in Worlds, Lookups(w) < DnsTable, NEW s \in Slots, NEW h \in Hosts
  PROVE  w.dns[s][h] < DnsTable
<1> DEFINE D == 1 .. DnsTable
           T == Slots \X Hosts \X D
           P == (Slots \X Hosts) \X D
           L == {l \in T : l[3] <= w.dns[l[1]][l[2]]}
           f == [k \in D |-> <<s, h, k>>]
           g == [l \in T |-> <<<<l[1], l[2]>>, l[3]>>]
<1>1. w.dns[s][h] \in 0 .. DnsTable /\ DnsTable \in Nat
  BY Numbers DEF Worlds
<1>2. IsFiniteSet(D) /\ Cardinality(D) = DnsTable /\ IsFiniteSet(Slots)
  <2>1. IsFiniteSet(D) /\ Cardinality(D) = IF 1 > DnsTable THEN 0 ELSE DnsTable - 1 + 1
    BY <1>1, FS_Interval
  <2>2. IsFiniteSet(Slots)
    BY Numbers, FS_Interval DEF Slots
  <2> HIDE DEF D
  <2> QED  BY <1>1, <2>1, <2>2
<1>3. IsFiniteSet(P)
  <2>1. IsFiniteSet(Slots \X Hosts)
    BY <1>2, FS_Product, ProxyAssumption
  <2> QED  BY <1>2, <2>1, FS_Product
<1>4. IsFiniteSet(T)
  <2>1. g \in Injection(T, P)
    BY DEF Injection, IsInjective
  <2> QED  BY <1>3, <2>1, FS_Injection
<1>5. IsFiniteSet(L) /\ L \subseteq T
  BY <1>4, FS_Subset
<1>6. SUFFICES ASSUME ~(w.dns[s][h] < DnsTable)  PROVE FALSE
  OBVIOUS
<1>7. w.dns[s][h] = DnsTable
  BY <1>1, <1>6
<1>8. f \in Injection(D, L)
  <2>1. \A k \in D : <<s, h, k>> \in L
    BY <1>1, <1>7
  <2> QED  BY <2>1 DEF Injection, IsInjective
<1>9. Cardinality(D) <= Cardinality(L) /\ Cardinality(L) \in Nat
  BY <1>5, <1>8, FS_Injection, FS_CardinalityType
<1>10. Lookups(w) = Cardinality(L)
  BY DEF Lookups
<1> QED  BY <1>1, <1>2, <1>9, <1>10

\* A count of lookups for a host that is not denied changes.
LEMMA DnsKept ==
  ASSUME NEW w, Good(w), NEW s \in Slots, NEW h \in Hosts \ Denied, NEW n \in 0 .. DnsTable,
         NEW v, v = [w EXCEPT !.dns[s][h] = n]
  PROVE  Good(v) /\ v.conn = w.conn /\ v.stats = w.stats /\ (Kept(w) => Kept(v))
<1>1. /\ w \in Worlds /\ w.dns \in [Slots -> [Hosts -> 0 .. DnsTable]]
      /\ Linked(w.conn, w.pcbs) /\ Blocked(w.dns, w.pcbs)
  BY DEF Kept, Good, Worlds
<1>2. /\ v.dns = [w.dns EXCEPT ![s] = [w.dns[s] EXCEPT ![h] = n]] /\ v.conn = w.conn
      /\ v.pcbs = w.pcbs /\ v.stats = w.stats
  BY <1>1 DEF Worlds
<1>3. v.dns \in [Slots -> [Hosts -> 0 .. DnsTable]]
  BY <1>1, <1>2
<1>4. v = [w EXCEPT !.dns = v.dns]
  BY <1>1, <1>2 DEF Worlds
<1>5. v \in Worlds
  BY <1>1, <1>3, <1>4 DEF Worlds
<1>6. Blocked(v.dns, v.pcbs)
  BY <1>1, <1>2 DEF Blocked
<1> QED  BY <1>1, <1>2, <1>5, <1>6 DEF Kept, Good

\* dns_gethostbyname() for a host that is not denied.
LEMMA ResolveKept ==
  ASSUME NEW w, Kept(w), NEW s \in Slots, w.conn[s].st = "sniff",
         NEW h \in Hosts \ Denied, NEW v \in Resolve(w, s, h)
  PROVE  Kept(v)
<1> DEFINE c == [w.conn[s] EXCEPT !.st = "resolving", !.host = h]
           u == [w EXCEPT !.conn[s].st = "resolving", !.conn[s].host = h]
<1>1. Good(w) /\ w \in Worlds /\ w.conn \in [Slots -> ConnType]
  BY DEF Kept, Good, Worlds
<1>2. c \in ConnType /\ c.st = "resolving"
  BY <1>1 DEF ConnType
<1>3. u = [w EXCEPT !.conn = [w.conn EXCEPT ![s] = c]]
  BY <1>1 DEF Worlds
<1>4. u.conn[s].st = "resolving" /\ u.dns = w.dns
  BY <1>1, <1>2, <1>3 DEF Worlds
<1>5. \/ \E yes \in BOOLEAN : v \in OnResolved(u, s, h, yes)
      \/ Lookups(w) < DnsTable /\ v = [u EXCEPT !.dns[s][h] = u.dns[s][h] + 1]
      \/ v = Closed(Fail(u), s)
  BY DEF Resolve, Closed
<1> HIDE DEF c, u
<1>6. \A p \in Pcbs : w.pcbs[p].state # "free" => w.pcbs[p].arg # s
  BY <1>1, Unjoined
<1>7. Kept(u) /\ s \in LiveIn(u.conn)
  <2>1. c.st = "free" <=> w.conn[s].st = "free"
    BY <1>2
  <2>2. Kept(u)
    BY <1>2, <1>3, <1>6, <2>1, SlotKept
  <2> QED  BY <1>4, <2>2 DEF LiveIn
<1>8. CASE \E yes \in BOOLEAN : v \in OnResolved(u, s, h, yes)
  BY <1>7, <1>8, OnResolvedKept
<1>9. CASE Lookups(w) < DnsTable /\ v = [u EXCEPT !.dns[s][h] = u.dns[s][h] + 1]
  <2>1. w.dns[s][h] < DnsTable /\ w.dns[s][h] \in 0 .. DnsTable
    BY <1>1, <1>9, LookupRoom DEF Worlds
  <2>2. u.dns[s][h] + 1 \in 0 .. DnsTable
    BY <1>4, <2>1, Numbers
  <2> QED  BY <1>7, <1>9, <2>2, DnsKept DEF Kept
<1>10. CASE v = Closed(Fail(u), s)
  BY <1>7, <1>10, FailCloseKept
<1> QED  BY <1>5, <1>8, <1>9, <1>10

\* The name of a hello: its dots are gone before it is compared, so what is looked up
\* is not denied.
LEMMA SniffNameKept ==
  ASSUME NEW w, Kept(w), NEW s \in Slots, w.conn[s].st = "sniff", NEW name \in Names,
         NEW v \in SniffName(w, s, name)
  PROVE  Kept(v)
<1>1. s \in LiveIn(w.conn)
  BY DEF LiveIn
<1>2. CASE v = Closed(w, s)
  BY <1>1, <1>2, CloseKept
<1>3. CASE \E h \in Hosts \ Denied : v \in Resolve(w, s, h)
  BY <1>3, ResolveKept
<1> DEFINE n == HostNormalise(name)
<1>4. n.host \in Hosts /\ ~n.dot
  BY DEF HostNormalise, Names
<1>5. v = Closed(w, s) \/ (~HostDenied(n) /\ v \in Resolve(w, s, n.host))
  BY DEF SniffName, Closed
<1> QED  BY <1>2, <1>3, <1>4, <1>5 DEF HostDenied

\* A slot keeps its state and its pcb, and its buffers and its clock move.
Moved(w, s, c) == [w EXCEPT !.conn = [w.conn EXCEPT ![s] = c]]

\* A slot whose state and pcb stay the same may change in all the rest.
LEMMA MovedKept ==
  ASSUME NEW w, Kept(w), NEW s \in Slots, NEW c \in ConnType, c.st = w.conn[s].st,
         c.pcb = w.conn[s].pcb
  PROVE  /\ Kept(Moved(w, s, c)) /\ LiveIn(Moved(w, s, c).conn) = LiveIn(w.conn)
         /\ Moved(w, s, c).conn[s] = c
<1> DEFINE v == Moved(w, s, c)
<1>1. w \in Worlds /\ w.conn \in [Slots -> ConnType]
  BY DEF Kept, Good, Worlds
<1>2. v.conn = [w.conn EXCEPT ![s] = c]
  BY <1>1 DEF Worlds, Moved
<1>3. LiveIn(v.conn) = LiveIn(w.conn) /\ v.conn[s] = c
  BY <1>1, <1>2 DEF LiveIn
<1>4. Kept(v)
  BY SlotKept DEF Moved
<1> QED  BY <1>3, <1>4

\* Bytes were read from a live application.
LEMMA GotBytesKept ==
  ASSUME NEW w, Kept(w), NEW s \in LiveIn(w.conn), clock \in 0 .. ClockWrap - 1,
         NEW n \in 1 .. BUF_SIZE - w.conn[s].up_len, NEW v \in GotBytes(w, s, n)
  PROVE  Kept(v)
<1> DEFINE c == [w.conn[s] EXCEPT !.up_len = @ + n, !.last_ms = clock]
           u == [w EXCEPT !.conn[s].up_len = @ + n, !.conn[s].last_ms = clock]
<1>1. s \in Slots /\ w \in Worlds /\ w.conn[s] \in ConnType /\ w.conn \in [Slots -> ConnType]
  BY DEF Kept, Good, Worlds, LiveIn
<1>2. w.conn[s].up_len \in 0 .. BUF_SIZE
  BY <1>1 DEF ConnType
<1>3. w.conn[s].up_len + n \in 0 .. BUF_SIZE
  BY <1>2, Numbers
<1>4. c \in ConnType /\ c.st = w.conn[s].st /\ c.pcb = w.conn[s].pcb
  BY <1>1, <1>3 DEF ConnType
<1>5. u = Moved(w, s, c)
  BY <1>1 DEF Worlds, Moved
<1>6. v = u \/ (u.conn[s].st = "sniff" /\ v \in Sniff(u, s))
  BY DEF GotBytes
<1> HIDE DEF c, u
<1>7. Kept(u) /\ LiveIn(u.conn) = LiveIn(w.conn)
  BY <1>1, <1>4, <1>5, MovedKept
<1>8. v \in Sniff(u, s) => v = NoName(u, s) \/ \E name \in Names : v \in SniffName(u, s, name)
  BY DEF Sniff
<1>9. Kept(NoName(u, s))
  <2>1. Kept(Closed(u, s))
    BY <1>7, CloseKept
  <2>2. NoName(u, s) = u \/ NoName(u, s) = Closed(u, s)
    BY DEF NoName, Closed
  <2> QED  BY <1>7, <2>1, <2>2
<1>10. ASSUME u.conn[s].st = "sniff", NEW name \in Names, v \in SniffName(u, s, name)
       PROVE  Kept(v)
  BY <1>1, <1>7, <1>10, SniffNameKept
<1> QED  BY <1>6, <1>7, <1>8, <1>9, <1>10

\* tcp_shutdown() moves a pcb between two states of a connection that is up.
LEMMA ShutdownKept ==
  ASSUME NEW w, Kept(w), NEW p \in Pcbs
  PROVE  Kept(Shutdown(w, p))
<1> DEFINE u == Touch(w, p)
           x == CASE u.pcbs[p].state = "established" -> "fin_wait"
                  [] u.pcbs[p].state = "close_wait"  -> "last_ack"
                  [] OTHER                           -> u.pcbs[p].state
           q == [u.pcbs[p] EXCEPT !.state = x]
           v == Shutdown(w, p)
<1>1. /\ Good(u) /\ u.conn = w.conn /\ u.pcbs = w.pcbs /\ u.dns = w.dns
      /\ u.stats = w.stats
  BY TouchGood DEF Kept
<1>2. v = [u EXCEPT !.pcbs[p].state = x]
  BY DEF Shutdown
<1> HIDE DEF u
<1>3. u \in Worlds /\ u.pcbs \in [Pcbs -> PcbType]
  BY <1>1 DEF Good, Worlds
<1>4. /\ x \in {"free", "syn_sent", "established", "close_wait", "fin_wait", "last_ack",
                "time_wait"}
      /\ x = "free" <=> u.pcbs[p].state = "free"
      /\ x = "syn_sent" <=> u.pcbs[p].state = "syn_sent"
  BY <1>3 DEF PcbType
<1> HIDE DEF x
<1>5. /\ q \in PcbType /\ q.state = x /\ q.arg = u.pcbs[p].arg /\ q.dest = u.pcbs[p].dest
  BY <1>3, <1>4 DEF PcbType
<1>6. v = [u EXCEPT !.pcbs = [u.pcbs EXCEPT ![p] = q]]
  BY <1>2, <1>3 DEF Worlds
<1> HIDE DEF q, v
<1>7. /\ v.conn = u.conn /\ v.pcbs = [u.pcbs EXCEPT ![p] = q] /\ v.dns = u.dns
      /\ v.stats = u.stats
  BY <1>3, <1>6 DEF Worlds
<1>8. v \in Worlds
  BY <1>3, <1>5, <1>6 DEF Worlds
<1>9. Linked(v.conn, v.pcbs)
  <2>1. Linked(u.conn, u.pcbs)
    BY <1>1 DEF Good
  <2>2. Linked(u.conn, [u.pcbs EXCEPT ![p] = q])
    BY <1>3, <1>4, <1>5, <2>1, PoolLinked
  <2> QED  BY <1>7, <2>2
<1>10. Blocked(v.dns, v.pcbs)
  BY <1>1, <1>3, <1>5, <1>7 DEF Good, Blocked
<1>11. Kept(v)
  BY <1>1, <1>7, <1>8, <1>9, <1>10 DEF Kept, Good
<1> QED  BY <1>11 DEF v

\* A call on a slot's pcb keeps the books as well.
LEMMA TouchKept ==
  ASSUME NEW w, Kept(w), NEW s \in Slots
  PROVE  LET v == Touch(w, w.conn[s].pcb)
         IN  Kept(v) /\ v.conn = w.conn /\ v.pcbs = w.pcbs
<1>1. Good(w) /\ w.conn[s].pcb \in Pcbs \cup {NoPcb}
  BY DEF Kept, Good, Worlds, ConnType
<1> DEFINE p == w.conn[s].pcb
<1>2. /\ Good(Touch(w, p)) /\ Touch(w, p).conn = w.conn /\ Touch(w, p).pcbs = w.pcbs
      /\ Touch(w, p).stats = w.stats
  BY <1>1, TouchGood
<1> QED  BY <1>2 DEF Kept

\* handle_client_readable()
LEMMA ReadableKept ==
  ASSUME NEW w, Kept(w), NEW s \in LiveIn(w.conn), clock \in 0 .. ClockWrap - 1,
         NEW v \in HandleClientReadable(w, s)
  PROVE  Kept(v)
<1>1. s \in Slots /\ w.conn[s].pcb \in Pcbs \cup {NoPcb}
  BY DEF Kept, Good, Worlds, LiveIn, ConnType
<1>2. \/ v = w \/ v = Closed(w, s)
      \/ w.conn[s].pcb # NoPcb /\ v = Shutdown(w, w.conn[s].pcb)
      \/ \E n \in 1 .. BUF_SIZE - w.conn[s].up_len : v \in GotBytes(w, s, n)
  BY DEF HandleClientReadable, Closed
<1>3. Kept(Closed(w, s))
  BY CloseKept
<1>4. w.conn[s].pcb # NoPcb => Kept(Shutdown(w, w.conn[s].pcb))
  BY <1>1, ShutdownKept
<1>5. ASSUME NEW n \in 1 .. BUF_SIZE - w.conn[s].up_len, v \in GotBytes(w, s, n)
      PROVE  Kept(v)
  BY <1>5, GotBytesKept
<1> QED  BY <1>2, <1>3, <1>4, <1>5

\* pump_up()
LEMMA PumpUpKept ==
  ASSUME NEW w, Kept(w), NEW s \in LiveIn(w.conn), clock \in 0 .. ClockWrap - 1,
         NEW v \in PumpUp(w, s)
  PROVE  Kept(v) /\ s \in LiveIn(v.conn)
<1> DEFINE t == Touch(w, w.conn[s].pcb)
<1>1. s \in Slots /\ w.conn[s] \in ConnType
  BY DEF Kept, Good, Worlds, LiveIn
<1>2. Kept(t) /\ t.conn = w.conn
  BY <1>1, TouchKept
<1>3. \/ v = w \/ v = t
      \/ \E n \in 1 .. w.conn[s].up_len :
            v = [t EXCEPT !.conn[s].up_len = @ - n, !.conn[s].last_ms = clock]
  BY DEF PumpUp
<1> HIDE DEF t
<1>4. t \in Worlds /\ t.conn \in [Slots -> ConnType] /\ t.conn[s].up_len \in 0 .. BUF_SIZE
  BY <1>1, <1>2 DEF Kept, Good, Worlds, ConnType
<1>5. ASSUME NEW n \in 1 .. w.conn[s].up_len,
             v = [t EXCEPT !.conn[s].up_len = @ - n, !.conn[s].last_ms = clock]
      PROVE  Kept(v) /\ s \in LiveIn(v.conn)
  <2> DEFINE c == [t.conn[s] EXCEPT !.up_len = @ - n, !.last_ms = clock]
  <2>1. t.conn[s].up_len - n \in 0 .. BUF_SIZE
    BY <1>2, <1>4, Numbers
  <2>2. c \in ConnType /\ c.st = t.conn[s].st /\ c.pcb = t.conn[s].pcb
    BY <1>1, <1>4, <2>1 DEF ConnType
  <2>3. v = Moved(t, s, c)
    BY <1>1, <1>4, <1>5 DEF Worlds, Moved
  <2> HIDE DEF c
  <2>4. Kept(v) /\ LiveIn(v.conn) = LiveIn(t.conn)
    BY <1>1, <1>2, <2>2, <2>3, MovedKept
  <2> QED  BY <1>2, <2>4
<1> QED  BY <1>2, <1>3, <1>5

\* Bytes reach the application.
LEMMA SentKept ==
  ASSUME NEW w, Kept(w), NEW s \in LiveIn(w.conn), clock \in 0 .. ClockWrap - 1,
         NEW n \in 0 .. w.conn[s].rx
  PROVE  Kept(Sent(w, s, n)) /\ s \in LiveIn(Sent(w, s, n).conn)
<1> DEFINE t == Touch(w, w.conn[s].pcb)
           v == Sent(w, s, n)
           c == [t.conn[s] EXCEPT !.rx = @ - n, !.last_ms = clock]
<1>1. s \in Slots /\ w.conn[s] \in ConnType
  BY DEF Kept, Good, Worlds, LiveIn
<1>2. Kept(t) /\ t.conn = w.conn
  BY <1>1, TouchKept
<1>3. v = w \/ v = [t EXCEPT !.conn[s].rx = @ - n, !.conn[s].last_ms = clock]
  BY DEF Sent
<1> SUFFICES Kept(v) /\ s \in LiveIn(v.conn)
  OBVIOUS
<1> HIDE DEF t, v
<1>4. t \in Worlds /\ t.conn \in [Slots -> ConnType] /\ t.conn[s].rx \in 0 .. RxMax
  BY <1>1, <1>2 DEF Kept, Good, Worlds, ConnType
<1>5. CASE v = [t EXCEPT !.conn[s].rx = @ - n, !.conn[s].last_ms = clock]
  <2>1. t.conn[s].rx - n \in 0 .. RxMax
    BY <1>2, <1>4, Numbers
  <2>2. c \in ConnType /\ c.st = t.conn[s].st /\ c.pcb = t.conn[s].pcb
    BY <1>1, <1>4, <2>1 DEF ConnType
  <2>3. v = Moved(t, s, c)
    BY <1>1, <1>4, <1>5 DEF Worlds, Moved
  <2> HIDE DEF c
  <2>4. Kept(v) /\ LiveIn(v.conn) = LiveIn(t.conn)
    BY <1>1, <1>2, <2>2, <2>3, MovedKept
  <2> QED  BY <1>2, <2>4
<1> QED  BY <1>3, <1>5

\* pump_down(): the connection lives on, or its slot is empty.
LEMMA PumpDownKept ==
  ASSUME NEW w, Kept(w), NEW s \in LiveIn(w.conn), clock \in 0 .. ClockWrap - 1,
         NEW v \in PumpDown(w, s)
  PROVE  Kept(v) /\ (s \in LiveIn(v.conn) \/ v.conn[s] = FreeConn)
<1>1. s \in Slots /\ w.conn[s].rx \in 0 .. RxMax
  BY DEF Kept, Good, Worlds, LiveIn, ConnType
<1>2. \/ v = w
      \/ \E n \in 0 .. w.conn[s].rx : v = Sent(w, s, n) \/ v = Closed(Sent(w, s, n), s)
  <2>1. \A n \in 0 .. w.conn[s].rx - 1 : n \in 0 .. w.conn[s].rx
    BY <1>1, Numbers
  <2> QED  BY <2>1 DEF PumpDown, Closed
<1>3. ASSUME NEW n \in 0 .. w.conn[s].rx, v = Sent(w, s, n) \/ v = Closed(Sent(w, s, n), s)
      PROVE  Kept(v) /\ (s \in LiveIn(v.conn) \/ v.conn[s] = FreeConn)
  <2> DEFINE u == Sent(w, s, n)
  <2>1. Kept(u) /\ s \in LiveIn(u.conn)
    BY SentKept
  <2>2. v = u \/ v = Closed(u, s)
    BY <1>3
  <2> HIDE DEF u
  <2>3. Kept(Closed(u, s)) /\ Closed(u, s).conn = [u.conn EXCEPT ![s] = FreeConn]
    BY <2>1, CloseKept
  <2>4. u.conn \in [Slots -> ConnType]
    BY <2>1 DEF Kept, Good, Worlds
  <2> QED  BY <1>1, <2>1, <2>2, <2>3, <2>4
<1> QED  BY <1>2, <1>3

\* What poll() reported is served.
LEMMA ServedKept ==
  ASSUME NEW w, Kept(w), NEW s \in LiveIn(w.conn), clock \in 0 .. ClockWrap - 1,
         NEW v \in Served(w, s)
  PROVE  Kept(v)
<1>1. \/ v = Closed(w, s) \/ v = w \/ v \in PumpDown(w, s)
      \/ v \in HandleClientReadable(w, s)
      \/ \E u \in PumpDown(w, s) : u.conn[s].st # "free" /\ v \in HandleClientReadable(u, s)
  BY DEF Served, Closed
<1>2. Kept(Closed(w, s))
  BY CloseKept
<1>3. ASSUME NEW u \in PumpDown(w, s), u.conn[s].st # "free", v \in HandleClientReadable(u, s)
      PROVE  Kept(v)
  <2>1. Kept(u)
    BY PumpDownKept
  <2>2. s \in LiveIn(u.conn)
    BY <1>3 DEF LiveIn
  <2> QED  BY <1>3, <2>1, <2>2, ReadableKept
<1>4. v \in PumpDown(w, s) => Kept(v)
  BY PumpDownKept
<1>5. v \in HandleClientReadable(w, s) => Kept(v)
  BY ReadableKept
<1> QED  BY <1>1, <1>2, <1>3, <1>4, <1>5

\* An orderly end is counted once, and only that of a live connection.
LEMMA DoneKept ==
  ASSUME NEW w, Kept(w), NEW s \in Slots, s \in LiveIn(w.conn) \/ w.conn[s] = FreeConn
  PROVE  Kept(Done(w, s))
<1>1. CASE w.conn[s].peer_closed /\ w.conn[s].rx = 0
  <2>1. s \in LiveIn(w.conn)
    BY <1>1 DEF FreeConn
  <2> DEFINE v == Complete(w)
  <2>2. /\ Good(v) /\ v.conn = w.conn /\ v.stats.accepted = w.stats.accepted
        /\ Counts(v.stats) = Counts(w.stats) + 1
    BY CompleteGood DEF Kept
  <2>3. Done(w, s) = Quietly(v, s)
    BY <1>1 DEF Done, Quietly
  <2> HIDE DEF v
  <2>4. LiveIn(v.conn) = LiveIn(w.conn)
        /\ Counts(v.stats) \in {Counts(w.stats) + 1, Counts(w.stats) + 2}
    BY <2>2
  <2>5. Kept(Quietly(v, s))
    BY <2>1, <2>2, <2>4, UncountedKept
  <2> QED  BY <2>3, <2>5
<1>2. CASE ~(w.conn[s].peer_closed /\ w.conn[s].rx = 0)
  BY <1>2 DEF Done
<1> QED  BY <1>1, <1>2

\* The last loop of a pass.
LEMMA PumpedKept ==
  ASSUME NEW w, Kept(w), NEW s \in LiveIn(w.conn), clock \in 0 .. ClockWrap - 1,
         NEW v \in Pumped(w, s)
  PROVE  Kept(v)
<1> DEFINE Up(u) == u = w \/ u \in PumpUp(w, s)
<1>1. \E u, x : Up(u) /\ (x = u \/ x \in PumpDown(u, s)) /\ v = Done(x, s)
  BY DEF Pumped
<1>2. PICK u, x : Up(u) /\ (x = u \/ x \in PumpDown(u, s)) /\ v = Done(x, s)
  BY <1>1
<1>3. Kept(u) /\ s \in LiveIn(u.conn)
  BY <1>2, PumpUpKept
<1>4. Kept(x) /\ (s \in LiveIn(x.conn) \/ x.conn[s] = FreeConn)
  BY <1>2, <1>3, PumpDownKept
<1>5. s \in Slots
  BY DEF LiveIn
<1> QED  BY <1>2, <1>4, <1>5, DoneKept

\* awg_proxy_stop() leaves nothing in use.
LEMMA ClosedAllGood ==
  ASSUME NEW w, Good(w)
  PROVE  Good(ClosedAll(w)) /\ LiveIn(ClosedAll(w).conn) = {}
<1> DEFINE open == {s \in Slots : w.conn[s].st # "free" /\ w.conn[s].pcb # NoPcb}
           aborted == {w.conn[s].pcb : s \in open}
           v == ClosedAll(w)
<1>1. /\ w \in Worlds /\ w.conn \in [Slots -> ConnType] /\ w.pcbs \in [Pcbs -> PcbType]
      /\ Linked(w.conn, w.pcbs) /\ Blocked(w.dns, w.pcbs) /\ w.bad \in BOOLEAN
  BY DEF Good, Worlds
<1>2. /\ v.conn = [s \in Slots |-> IF w.conn[s].st = "free" THEN w.conn[s] ELSE FreeConn]
      /\ v.pcbs = [p \in Pcbs |-> IF p \in aborted THEN FreePcb ELSE w.pcbs[p]]
      /\ v.dns = w.dns /\ v.stats = w.stats /\ v.bad \in BOOLEAN
  BY <1>1 DEF ClosedAll, Worlds
<1>3. v = [w EXCEPT !.conn = v.conn, !.pcbs = v.pcbs, !.bad = v.bad]
  BY <1>1 DEF ClosedAll, Worlds
<1> HIDE DEF v
<1>4. v.conn \in [Slots -> ConnType] /\ \A s \in Slots : v.conn[s].st = "free"
  <2>1. FreeConn \in ConnType /\ FreeConn.st = "free"
    BY Fresh DEF FreeConn
  <2>2. v.conn = [s \in Slots |-> IF w.conn[s].st = "free" THEN w.conn[s] ELSE FreeConn]
    BY <1>2
  <2> QED  BY <1>1, <2>1, <2>2
<1>5. v.pcbs \in [Pcbs -> PcbType]
  <2>1. FreePcb \in PcbType
    BY Fresh
  <2> HIDE DEF aborted
  <2>2. v.pcbs = [p \in Pcbs |-> IF p \in aborted THEN FreePcb ELSE w.pcbs[p]]
    BY <1>2
  <2> QED  BY <1>1, <2>1, <2>2
<1>6. v \in Worlds
  BY <1>1, <1>2, <1>3, <1>4, <1>5 DEF Worlds
<1>7. \A p \in Pcbs : w.pcbs[p].state # "free" => p \in aborted
  <2>1. SUFFICES ASSUME NEW p \in Pcbs, w.pcbs[p].state # "free"
                 PROVE  \E s \in open : p = w.conn[s].pcb
    OBVIOUS
  <2>2. w.pcbs[p].arg \in open /\ w.conn[w.pcbs[p].arg].pcb = p
    BY <1>1, <2>1, ProxyAssumption DEF Linked
  <2> QED  BY <2>2
<1>8. \A p \in Pcbs : v.pcbs[p].state = "free"
  <2> HIDE DEF aborted
  <2>1. SUFFICES ASSUME NEW p \in Pcbs  PROVE  v.pcbs[p].state = "free"
    OBVIOUS
  <2>2. v.pcbs[p] = IF p \in aborted THEN FreePcb ELSE w.pcbs[p]
    BY <1>2
  <2> QED  BY <1>7, <2>2 DEF FreePcb
<1>9. Linked(v.conn, v.pcbs)
  BY <1>8 DEF Linked
<1>10. Blocked(v.dns, v.pcbs)
  BY <1>1, <1>2, Fresh DEF Blocked
<1>11. Good(v)
  BY <1>6, <1>9, <1>10 DEF Good
<1> QED  BY <1>4, <1>11 DEF v, LiveIn

-----------------------------------------------------------------------------
(* The steps *)

\* The state as a world, before and after a step.
LEMMA Now ==
  /\ World.conn = conn /\ World.pcbs = pcbs /\ World.dns = dns /\ World.stats = stats
  /\ World.bad = undefined
BY DEF World

\* The variables are the world that a handler leaves.
LEMMA BecomeWorld ==
  ASSUME NEW w \in Worlds, Become(w)
  PROVE  World' = w /\ conn' = w.conn /\ pcbs' = w.pcbs /\ dns' = w.dns /\ stats' = w.stats
BY DEF Become, World, Worlds

\* A step that leaves a world with its books in order while the proxy is up.
LEMMA KeptStep ==
  ASSUME ProxyInv, listening, NEW w, Kept(w), Become(w), listening' = listening, Control'
  PROVE  ProxyInv'
<1>1. Good(w) /\ w \in Worlds /\ InOrder(w.conn, w.stats)
  BY DEF Kept, Good
<1>2. World' = w /\ conn' = w.conn /\ stats' = w.stats
  BY <1>1, BecomeWorld
<1>3. Good(World')
  BY <1>1, <1>2
<1>4. InOrder(conn', stats')
  BY <1>1, <1>2
<1> QED  BY <1>3, <1>4 DEF ProxyInv

\* Where the pass is, after the next slot and between two passes.
LEMMA AdvanceControl ==
  ASSUME Control, NEW next \in {"wait", "sweep", "pump"}, Advance(next)
  PROVE  Control' /\ listening' = listening
BY Numbers DEF Control, Advance, Slots

\* What lwIP does between two calls leaves the loop where it is.
LEMMA BetweenControl ==
  ASSUME Control, Between
  PROVE  Control' /\ listening' = listening /\ phase' = phase
BY DEF Control, Between

\* Nothing happens to the slots and pcbs.
LEMMA IdleStep ==
  ASSUME ProxyInv, UNCHANGED <<conn, pcbs, dns, stats, undefined>>,
         listening' = listening, phase' = phase \/ listening, Control'
  PROVE  ProxyInv'
<1>1. World' = World
  BY DEF World
<1>2. Good(World')
  BY <1>1 DEF ProxyInv
<1>3. listening => InOrder(conn', stats')
  BY DEF ProxyInv
<1>4. ~listening => phase' = "wait" /\ LiveIn(conn') = {}
  BY DEF ProxyInv
<1> QED  BY <1>2, <1>3, <1>4 DEF ProxyInv

\* The lowest free slot is a free slot.
LEMMA AllocFree ==
  ASSUME NEW w, NEW s \in ConnAlloc(w)
  PROVE  s \in Slots /\ w.conn[s].st = "free"
<1> DEFINE free == {t \in Slots : w.conn[t].st = "free"}
<1>1. free # {} /\ s = Min(free)
  BY DEF ConnAlloc
<1>2. free \subseteq Nat
  BY Numbers DEF Slots
<1> DEFINE R == {p \in Nat \X Nat : p[1] < p[2]}
<1>3. IsWellFoundedOn(R, Nat)
  BY NatLessThanWellFounded, Zenon DEF OpToRel
<1> HIDE DEF free
<1>4. \E x \in free : \A y \in free : x <= y
  <2>1. \E x \in free : \A y \in free : ~(<<y, x>> \in R)
    <3> HIDE DEF R
    <3> QED  BY <1>1, <1>2, <1>3, WFMin
  <2>2. PICK x \in free : \A y \in free : ~(<<y, x>> \in R)
    BY <2>1
  <2>3. \A y \in free : x <= y
    <3> SUFFICES ASSUME NEW y \in free PROVE x <= y
      OBVIOUS
    <3>1. x \in Nat /\ y \in Nat
      BY <1>2, <2>2
    <3>2. ~(y < x)
      BY <2>2, <3>1
    <3> QED  BY <3>1, <3>2
  <2> QED  BY <2>3
<1>5. Min(free) \in free
  BY <1>4 DEF Min
<1> QED  BY <1>1, <1>5 DEF free

\* A connection is accepted into a free slot.
LEMMA AcceptKept ==
  ASSUME NEW w, Kept(w), NEW s \in Slots, w.conn[s].st = "free",
         NEW c \in ConnType, c.st = "sniff", NEW v,
         v = [w EXCEPT !.conn = [w.conn EXCEPT ![s] = c],
                       !.stats = [w.stats EXCEPT !.accepted = @ + 1]]
  PROVE  Kept(v)
<1>1. /\ Good(w) /\ w \in Worlds /\ w.conn \in [Slots -> ConnType] /\ w.stats \in StatsType
      /\ Linked(w.conn, w.pcbs) /\ w.pcbs \in [Pcbs -> PcbType]
  BY DEF Kept, Good, Worlds
<1>2. /\ v.conn = [w.conn EXCEPT ![s] = c] /\ v.pcbs = w.pcbs /\ v.dns = w.dns
      /\ v.stats = [w.stats EXCEPT !.accepted = @ + 1]
  BY <1>1 DEF Worlds
<1>3. /\ v.stats \in StatsType /\ v.stats.accepted = w.stats.accepted + 1
      /\ Counts(v.stats) = Counts(w.stats) /\ Counts(w.stats) \in Nat
      /\ w.stats.accepted \in Nat
  BY <1>1, <1>2 DEF StatsType, Counts
<1>4. v.conn \in [Slots -> ConnType]
  BY <1>1, <1>2
<1>5. v \in Worlds
  <2>1. v = [w EXCEPT !.conn = v.conn, !.stats = v.stats]
    BY <1>1, <1>2 DEF Worlds
  <2> QED  BY <1>1, <1>3, <1>4, <2>1 DEF Worlds
<1>6. \A p \in Pcbs : w.pcbs[p].state # "free" => w.pcbs[p].arg # s
  BY <1>1, Unjoined
<1>7. Linked(v.conn, v.pcbs)
  <2>1. \A t \in Slots \ {s} : v.conn[t] = w.conn[t]
    BY <1>1, <1>2
  <2>2. SUFFICES Linked(v.conn, w.pcbs)
    BY <1>2
  <2>3. \A p \in Pcbs : w.pcbs[p].state # "free" =>
          w.pcbs[p].arg \in Slots /\ v.conn[w.pcbs[p].arg] = w.conn[w.pcbs[p].arg]
    BY <1>1, <1>6, <2>1 DEF Linked
  <2> QED  BY <1>1, <2>3 DEF Linked
<1>8. LiveIn(v.conn) = LiveIn(w.conn) \cup {s} /\ s \notin LiveIn(w.conn)
  BY <1>1, <1>2 DEF LiveIn
<1>9. /\ Cardinality(LiveIn(v.conn)) = Cardinality(LiveIn(w.conn)) + 1
      /\ Cardinality(LiveIn(w.conn)) \in Nat
  BY <1>8, LiveFinite, FS_AddElement
<1>10. InOrder(v.conn, v.stats)
  BY <1>3, <1>9 DEF Kept, InOrder, Ended
<1> QED  BY <1>1, <1>2, <1>5, <1>7, <1>10 DEF Kept, Good

\* The clock moves on and a client may be accepted (awg_proxy_poll).
LEMMA PollStep ==
  ASSUME ProxyInv, NEW elapsed \in {0, 1}, NEW arrives \in BOOLEAN, Poll(elapsed, arrives)
  PROVE  ProxyInv'
<1>1. listening /\ listening' = listening /\ Control /\ Kept(World)
  BY Now DEF Poll, ProxyInv, Kept
<1>2. clock' \in 0 .. ClockWrap - 1
  <2>1. clock + elapsed \in Int /\ clock' = (clock + elapsed) % ClockWrap
    BY <1>1 DEF Poll, Control
  <2> QED  BY <2>1, Numbers
<1>3. Control'
  BY <1>1, <1>2, Numbers DEF Control, Poll, Slots
<1>4. CASE UNCHANGED <<conn, stats>>
  BY <1>1, <1>3, <1>4, IdleStep DEF Poll
<1>5. ASSUME NEW s \in ConnAlloc(World),
             conn' = [conn EXCEPT ![s] = [FreeConn EXCEPT !.st = "sniff", !.last_ms = clock']],
             stats' = [stats EXCEPT !.accepted = @ + 1]
      PROVE  ProxyInv'
  <2> DEFINE c == [FreeConn EXCEPT !.st = "sniff", !.last_ms = clock']
             v == [World EXCEPT !.conn = [World.conn EXCEPT ![s] = c],
                                !.stats = [World.stats EXCEPT !.accepted = @ + 1]]
  <2>1. s \in Slots /\ World.conn[s].st = "free"
    BY AllocFree
  <2>2. c \in ConnType /\ c.st = "sniff"
    BY <1>2, Fresh DEF ConnType, FreeConn
  <2>3. Become(v)
    BY <1>5, Now DEF Become, Poll, World
  <2> HIDE DEF c
  <2>4. Kept(v)
    <3> DEFINE x == v
    <3>1. x = [World EXCEPT !.conn = [World.conn EXCEPT ![s] = c],
                            !.stats = [World.stats EXCEPT !.accepted = @ + 1]]
      OBVIOUS
    <3> HIDE DEF x
    <3>2. Kept(x)
      BY <1>1, <2>1, <2>2, <3>1, AcceptKept
    <3> QED  BY <3>2 DEF x
  <2> HIDE DEF v
  <2> QED  BY <1>1, <1>3, <2>3, <2>4, KeptStep
<1> QED  BY <1>4, <1>5 DEF Poll

\* A slot that is in use means that the proxy is up.
LEMMA Up ==
  ASSUME ProxyInv, LiveIn(conn) # {} \/ phase # "wait"
  PROVE  listening /\ Kept(World)
BY Now DEF ProxyInv, Kept

\* A pcb in use belongs to the slot that points to it, and the proxy is up.
LEMMA PcbUp ==
  ASSUME ProxyInv, NEW p \in Pcbs, pcbs[p].state # "free"
  PROVE  /\ listening /\ Kept(World) /\ pcbs[p].arg \in Slots
         /\ conn[pcbs[p].arg] \in ConnType /\ conn[pcbs[p].arg].pcb = p
         /\ conn[pcbs[p].arg].st \in {"connecting", "relay"}
         /\ conn[pcbs[p].arg].st = "connecting" <=> pcbs[p].state = "syn_sent"
<1>1. Linked(conn, pcbs) /\ conn \in [Slots -> ConnType]
  BY Now DEF ProxyInv, Good, Worlds
<1>2. /\ pcbs[p].arg \in Slots
      /\ conn[pcbs[p].arg] \in ConnType /\ conn[pcbs[p].arg].pcb = p
      /\ conn[pcbs[p].arg].st \in {"connecting", "relay"}
      /\ conn[pcbs[p].arg].st = "connecting" <=> pcbs[p].state = "syn_sent"
  BY <1>1 DEF Linked
<1>3. pcbs[p].arg \in LiveIn(conn)
  BY <1>2 DEF LiveIn
<1> QED  BY <1>2, <1>3, Up

\* The events of one slot are handled.
LEMMA EventsStep ==
  ASSUME ProxyInv, Events
  PROVE  ProxyInv'
<1>1. listening /\ Kept(World) /\ Control
  BY Up DEF Events, ProxyInv
<1>2. Control' /\ listening' = listening
  BY <1>1, AdvanceControl DEF Events
<1>3. CASE UNCHANGED <<conn, pcbs, dns, stats, undefined>>
  BY <1>1, <1>2, <1>3, IdleStep
<1>4. CASE conn[cursor].st # "free" /\ \E w \in Served(World, cursor) : Become(w)
  <2>1. PICK w \in Served(World, cursor) : Become(w)
    BY <1>4
  <2>2. cursor \in LiveIn(World.conn) /\ clock \in 0 .. ClockWrap - 1
    BY <1>1, <1>4, Now DEF Control, LiveIn
  <2>3. Kept(w)
    BY <1>1, <2>2, ServedKept
  <2> QED  BY <1>1, <1>2, <2>1, <2>3, KeptStep
<1> QED  BY <1>3, <1>4 DEF Events

\* A slot that was idle for too long, or is done, is closed.
LEMMA SweepStep ==
  ASSUME ProxyInv, Sweep
  PROVE  ProxyInv'
<1>1. listening /\ Kept(World) /\ Control
  BY Up DEF Sweep, ProxyInv
<1>2. Control' /\ listening' = listening
  BY <1>1, AdvanceControl DEF Sweep
<1>3. CASE UNCHANGED <<conn, pcbs, dns, stats, undefined>>
  BY <1>1, <1>2, <1>3, IdleStep
<1>4. CASE conn[cursor].st # "free" /\ Become(Closed(World, cursor))
  <2>1. cursor \in LiveIn(World.conn)
    BY <1>1, <1>4, Now DEF Control, LiveIn
  <2>2. Kept(Closed(World, cursor))
    BY <1>1, <2>1, CloseKept
  <2> QED  BY <1>1, <1>2, <1>4, <2>2, KeptStep
<1> QED  BY <1>3, <1>4 DEF Sweep, Closed

\* A slot passes on what it holds.
LEMMA PumpStep ==
  ASSUME ProxyInv, Pump
  PROVE  ProxyInv'
<1>1. listening /\ Kept(World) /\ Control
  BY Up DEF Pump, ProxyInv
<1>2. Control' /\ listening' = listening
  BY <1>1, AdvanceControl DEF Pump
<1>3. CASE UNCHANGED <<conn, pcbs, dns, stats, undefined>>
  BY <1>1, <1>2, <1>3, IdleStep
<1>4. CASE conn[cursor].st # "free" /\ \E w \in Pumped(World, cursor) : Become(w)
  <2>1. PICK w \in Pumped(World, cursor) : Become(w)
    BY <1>4
  <2>2. cursor \in LiveIn(World.conn) /\ clock \in 0 .. ClockWrap - 1
    BY <1>1, <1>4, Now DEF Control, LiveIn
  <2>3. Kept(w)
    BY <1>1, <2>2, PumpedKept
  <2> QED  BY <1>1, <1>2, <2>1, <2>3, KeptStep
<1> QED  BY <1>3, <1>4 DEF Pump

\* The resolver may also answer for a slot of a proxy that is down: it is ignored.
LEMMA DnsAnswerStep ==
  ASSUME ProxyInv, DnsAnswer
  PROVE  ProxyInv'
<1>1. Good(World) /\ Control /\ World \in Worlds
  BY DEF ProxyInv, Good
<1>2. Control' /\ listening' = listening /\ phase' = phase
  BY <1>1, BetweenControl DEF DnsAnswer
<1>3. PICK s \in Slots, h \in Hosts, found \in BOOLEAN :
        /\ dns[s][h] > 0
        /\ \E w \in OnResolved([World EXCEPT !.dns[s][h] = @ - 1], s, h, found) : Become(w)
  BY DEF DnsAnswer
<1> DEFINE v == [World EXCEPT !.dns[s][h] = @ - 1]
<1>4. v = [World EXCEPT !.dns[s][h] = World.dns[s][h] - 1]
  OBVIOUS
<1>5. PICK w \in OnResolved(v, s, h, found) : Become(w)
  BY <1>3
<1> HIDE DEF v
<1>6. World.dns[s][h] - 1 \in 0 .. DnsTable
  <2>1. World.dns[s][h] \in 0 .. DnsTable
    BY <1>1 DEF Worlds
  <2> QED  BY <1>3, <2>1, Now, Numbers
<1>7. h \in Hosts \ Denied
  BY <1>1, <1>3, Now DEF Good, Blocked
<1>8. Good(v) /\ v.conn = conn /\ v.stats = stats /\ (Kept(World) => Kept(v))
  BY <1>1, <1>4, <1>6, <1>7, DnsKept, Now
<1>9. CASE listening
  <2>1. Kept(v)
    BY <1>8, <1>9, Now DEF ProxyInv, Kept
  <2>2. Kept(w)
    BY <1>5, <1>7, <2>1, OnResolvedKept
  <2> QED  BY <1>2, <1>5, <1>9, <2>2, KeptStep
<1>10. CASE ~listening
  <2>1. conn[s].st = "free"
    BY <1>10 DEF ProxyInv, LiveIn
  <2>2. w = v
    BY <1>5, <1>8, <2>1 DEF OnResolved
  <2>3. World' = v /\ conn' = conn
    BY <1>5, <1>8, <2>2, BecomeWorld DEF Good
  <2>4. Good(World') /\ LiveIn(conn') = {} /\ phase' = "wait"
    BY <1>2, <1>8, <1>10, <2>3 DEF ProxyInv
  <2> QED  BY <1>2, <1>10, <2>4 DEF ProxyInv
<1> QED  BY <1>9, <1>10

\* A slot and its pcb change together.
Paired(w, c, p, q) ==
  [w EXCEPT !.conn = [w.conn EXCEPT ![w.pcbs[p].arg] = c], !.pcbs = [w.pcbs EXCEPT ![p] = q]]

\* A slot and its pcb change together, and still agree.
LEMMA PairedKept ==
  ASSUME NEW w, Kept(w), NEW p \in Pcbs, w.pcbs[p].state # "free",
         NEW c \in ConnType, c.st \in {"connecting", "relay"}, c.pcb = p,
         NEW q \in PcbType, q.state # "free", q.arg = w.pcbs[p].arg, q.dest = w.pcbs[p].dest,
         c.st = "connecting" <=> q.state = "syn_sent"
  PROVE  Kept(Paired(w, c, p, q))
<1> DEFINE s == w.pcbs[p].arg
           v == Paired(w, c, p, q)
<1>1. /\ w \in Worlds /\ w.conn \in [Slots -> ConnType] /\ w.pcbs \in [Pcbs -> PcbType]
      /\ Linked(w.conn, w.pcbs) /\ Blocked(w.dns, w.pcbs)
  BY DEF Kept, Good, Worlds
<1>2. s \in Slots /\ w.conn[s].st # "free" /\ w.conn[s].pcb = p
  BY <1>1 DEF Linked
<1>3. v = [w EXCEPT !.conn = [w.conn EXCEPT ![s] = c], !.pcbs = [w.pcbs EXCEPT ![p] = q]]
  BY DEF Paired
<1>4. q.arg = s
  OBVIOUS
<1> HIDE DEF s, v
<1>5. /\ v.conn = [w.conn EXCEPT ![s] = c] /\ v.pcbs = [w.pcbs EXCEPT ![p] = q]
      /\ v.dns = w.dns /\ v.stats = w.stats
  BY <1>1, <1>3 DEF Worlds
<1>6. v.conn \in [Slots -> ConnType] /\ v.pcbs \in [Pcbs -> PcbType]
  BY <1>1, <1>5
<1>7. v \in Worlds
  <2>1. v = [w EXCEPT !.conn = v.conn, !.pcbs = v.pcbs]
    BY <1>3, <1>5
  <2> QED  BY <1>1, <1>6, <2>1 DEF Worlds
<1>8. Linked(v.conn, v.pcbs)
  <2>1. \A r \in Pcbs \ {p} : w.pcbs[r].state # "free" => w.pcbs[r].arg # s
    BY <1>1, <1>2 DEF Linked
  <2>2. Linked([w.conn EXCEPT ![s] = c], [w.pcbs EXCEPT ![p] = q])
    BY <1>1, <1>2, <1>4, <2>1, PairLinked
  <2> QED  BY <1>5, <2>2
<1>9. Blocked(v.dns, v.pcbs)
  BY <1>1, <1>5 DEF Blocked
<1>10. LiveIn(v.conn) = LiveIn(w.conn)
  BY <1>1, <1>2, <1>5 DEF LiveIn
<1>11. Kept(v)
  BY <1>5, <1>7, <1>8, <1>9, <1>10 DEF Kept, Good, InOrder, Ended
<1> QED  BY <1>11 DEF v

\* As a step, between two passes.
LEMMA PairedStep ==
  ASSUME ProxyInv, Between, NEW p \in Pcbs, pcbs[p].state # "free",
         NEW c \in ConnType, c.st \in {"connecting", "relay"}, c.pcb = p,
         NEW q \in PcbType, q.state # "free", q.arg = pcbs[p].arg, q.dest = pcbs[p].dest,
         c.st = "connecting" <=> q.state = "syn_sent",
         conn' = [conn EXCEPT ![pcbs[p].arg] = c], pcbs' = [pcbs EXCEPT ![p] = q],
         UNCHANGED <<dns, stats, undefined>>
  PROVE  ProxyInv'
<1> DEFINE v == Paired(World, c, p, q)
<1>1. listening /\ Kept(World)
  BY PcbUp
<1>2. Control' /\ listening' = listening
  BY BetweenControl DEF ProxyInv
<1>3. Kept(v)
  BY <1>1, PairedKept, Now
<1>4. Become(v)
  BY Now DEF Become, Paired, World
<1> HIDE DEF v
<1> QED  BY <1>1, <1>2, <1>3, <1>4, KeptStep

\* The callback on_connected.
LEMMA ConnectedStep ==
  ASSUME ProxyInv, NEW p \in Pcbs, Connected(p)
  PROVE  ProxyInv'
<1> DEFINE s == pcbs[p].arg
           c == [conn[s] EXCEPT !.st = "relay"]
           q == [pcbs[p] EXCEPT !.state = "established"]
<1>1. /\ Between /\ pcbs[p].state = "syn_sent" /\ UNCHANGED <<dns, stats, undefined>>
      /\ conn' = [conn EXCEPT ![s] = c] /\ pcbs' = [pcbs EXCEPT ![p] = q]
  BY DEF Connected
<1>2. s \in Slots /\ conn[s] \in ConnType /\ conn[s].pcb = p
  BY <1>1, PcbUp
<1>3. pcbs[p] \in PcbType
  BY Now DEF ProxyInv, Good, Worlds
<1>4. c \in ConnType /\ c.st = "relay" /\ c.pcb = p
  BY <1>2 DEF ConnType
<1>5. q \in PcbType /\ q.state = "established" /\ q.arg = s /\ q.dest = pcbs[p].dest
  BY <1>3 DEF PcbType
<1> HIDE DEF c, q
<1> QED  BY <1>1, <1>4, <1>5, PairedStep

\* The callback on_recv, with data.
LEMMA ReceivedStep ==
  ASSUME ProxyInv, NEW p \in Pcbs, Received(p)
  PROVE  ProxyInv'
<1> DEFINE s == pcbs[p].arg
           c == [conn[s] EXCEPT !.rx = @ + 1]
<1>1. /\ Between /\ pcbs[p].state \in {"established", "fin_wait"} /\ conn[s].rx < RxMax
      /\ UNCHANGED <<pcbs, dns, stats, undefined>> /\ conn' = [conn EXCEPT ![s] = c]
  BY DEF Received
<1>2. s \in Slots /\ conn[s] \in ConnType /\ conn[s].pcb = p /\ conn[s].st = "relay"
  BY <1>1, PcbUp
<1>3. pcbs[p] \in PcbType /\ pcbs \in [Pcbs -> PcbType]
  BY Now DEF ProxyInv, Good, Worlds
<1>4. conn[s].rx \in 0 .. RxMax
  BY <1>2 DEF ConnType
<1>5. conn[s].rx + 1 \in 0 .. RxMax
  BY <1>1, <1>4, Numbers
<1>6. c \in ConnType /\ c.st = "relay" /\ c.pcb = p
  BY <1>2, <1>5 DEF ConnType
<1>7. pcbs' = [pcbs EXCEPT ![p] = pcbs[p]]
  BY <1>1, <1>3
<1> HIDE DEF c
<1> QED  BY <1>1, <1>3, <1>6, <1>7, PairedStep

\* The callback on_recv, at the end of the stream.
LEMMA FinishedStep ==
  ASSUME ProxyInv, NEW p \in Pcbs, Finished(p)
  PROVE  ProxyInv'
<1> DEFINE s == pcbs[p].arg
           c == [conn[s] EXCEPT !.peer_closed = TRUE]
           x == IF pcbs[p].state = "established" THEN "close_wait" ELSE "time_wait"
           q == [pcbs[p] EXCEPT !.state = x]
<1>1. /\ Between /\ pcbs[p].state \in {"established", "fin_wait"}
      /\ UNCHANGED <<dns, stats, undefined>>
      /\ conn' = [conn EXCEPT ![s] = c] /\ pcbs' = [pcbs EXCEPT ![p] = q]
  BY DEF Finished
<1>2. s \in Slots /\ conn[s] \in ConnType /\ conn[s].pcb = p /\ conn[s].st = "relay"
  BY <1>1, PcbUp
<1>3. pcbs[p] \in PcbType
  BY Now DEF ProxyInv, Good, Worlds
<1>4. c \in ConnType /\ c.st = "relay" /\ c.pcb = p
  BY <1>2 DEF ConnType
<1>5. x \in {"close_wait", "time_wait"}
  OBVIOUS
<1> HIDE DEF x
<1>6. q \in PcbType /\ q.state = x /\ q.arg = s /\ q.dest = pcbs[p].dest
  BY <1>3, <1>5 DEF PcbType
<1> HIDE DEF c, q
<1> QED  BY <1>1, <1>4, <1>5, <1>6, PairedStep

\* lwIP gives a pcb up and says so: a reset, or the last acknowledgement.
LEMMA DropStep ==
  ASSUME ProxyInv, Between, NEW p \in Pcbs, pcbs[p].state # "free",
         Become(DropPcb(World, p))
  PROVE  ProxyInv'
<1>1. listening /\ Kept(World)
  BY PcbUp
<1>2. Control' /\ listening' = listening
  BY BetweenControl DEF ProxyInv
<1>3. Kept(DropPcb(World, p))
  BY <1>1, DropKept, Now
<1> QED  BY <1>1, <1>2, <1>3, KeptStep

\* A pcb leaves TIME_WAIT.
LEMMA TimeWaitStep ==
  ASSUME ProxyInv, NEW p \in Pcbs, TimeWaitOver(p)
  PROVE  ProxyInv'
<1>1. listening /\ Kept(World) /\ Between
  BY PcbUp DEF TimeWaitOver
<1>2. Control' /\ listening' = listening
  BY <1>1, BetweenControl DEF ProxyInv
<1> DEFINE v == FreeUp(World, p)
<1>3. Good(v) /\ v.conn = World.conn /\ v.stats = World.stats /\ Become(v)
  BY <1>1, FreeUpGood DEF Kept, TimeWaitOver
<1> HIDE DEF v
<1>4. Kept(v)
  BY <1>1, <1>3 DEF Kept
<1> QED  BY <1>1, <1>2, <1>3, <1>4, KeptStep

\* The client ends or loses its connection.
LEMMA ClientStep ==
  ASSUME ProxyInv, NEW s \in Slots, ClientChanges(s)
  PROVE  ProxyInv'
<1>1. /\ Between /\ conn[s].st # "free" /\ UNCHANGED <<pcbs, dns, stats, undefined>>
  BY DEF ClientChanges
<1>2. PICK x \in {"done", "lost"} : conn' = [conn EXCEPT ![s].client = x]
  BY DEF ClientChanges
<1> DEFINE c == [conn[s] EXCEPT !.client = x]
           v == Moved(World, s, c)
<1>3. s \in LiveIn(conn)
  BY <1>1 DEF LiveIn
<1>4. listening /\ Kept(World)
  BY <1>3, Up
<1>5. Control' /\ listening' = listening
  BY <1>1, BetweenControl DEF ProxyInv
<1>6. c \in ConnType /\ c.st = World.conn[s].st /\ c.pcb = World.conn[s].pcb
  <2>1. conn[s] \in ConnType
    BY <1>4, Now DEF Kept, Good, Worlds
  <2> QED  BY <2>1, Now DEF ConnType
<1>7. Become(v)
  BY <1>1, <1>2, Now DEF Become, Moved, World
<1> HIDE DEF c
<1>8. Kept(v)
  BY <1>4, <1>6, MovedKept
<1> HIDE DEF v
<1> QED  BY <1>4, <1>5, <1>7, <1>8, KeptStep

\* awg_proxy_stop closes every slot, so that none is live while the proxy is down.
LEMMA StopStep ==
  ASSUME ProxyInv, Stop
  PROVE  ProxyInv'
<1> DEFINE v == ClosedAll(World)
<1>1. Good(v) /\ LiveIn(v.conn) = {}
  BY ClosedAllGood DEF ProxyInv
<1>2. Become(v) /\ listening' = FALSE /\ phase' = "wait" /\ Control'
  BY DEF Stop, ProxyInv, Control
<1> HIDE DEF v
<1>3. World' = v /\ conn' = v.conn
  BY <1>1, <1>2, BecomeWorld DEF Good
<1>4. Good(World') /\ LiveIn(conn') = {}
  BY <1>1, <1>3
<1> QED  BY <1>2, <1>4 DEF ProxyInv

\* awg_proxy_start finds no live slot, so that the books start balanced.
LEMMA StartStep ==
  ASSUME ProxyInv, Start
  PROVE  ProxyInv'
<1>1. /\ Good(World) /\ conn \in [Slots -> ConnType] /\ LiveIn(conn) = {} /\ Control
      /\ phase = "wait" /\ World \in Worlds
  BY Now DEF ProxyInv, Start, Good, Worlds
<1>2. conn' = conn
  <2>1. \A s \in Slots : [conn[s] EXCEPT !.st = "free"] = conn[s]
    BY <1>1 DEF LiveIn, ConnType
  <2> QED  BY <1>1, <2>1 DEF Start
<1>3. World' = [World EXCEPT !.stats = NoStats]
  BY <1>2 DEF World, Start
<1>4. NoStats \in StatsType /\ NoStats.accepted = 0 /\ Counts(NoStats) = 0
  BY DEF NoStats, StatsType, Counts
<1>5. Good(World')
  <2>1. World' \in Worlds
    BY <1>1, <1>3, <1>4 DEF Worlds
  <2>2. World'.conn = World.conn /\ World'.pcbs = World.pcbs /\ World'.dns = World.dns
    BY <1>1, <1>3 DEF Worlds
  <2> QED  BY <1>1, <2>1, <2>2 DEF Good
<1>6. InOrder(conn', stats')
  <2>1. Cardinality(LiveIn(conn')) = 0 /\ stats' = NoStats
    BY <1>1, <1>2, FS_EmptySet DEF Start
  <2> QED  BY <1>4, <2>1 DEF InOrder, Ended
<1>7. Control' /\ phase' = "wait" /\ LiveIn(conn') = {}
  BY <1>1, <1>2 DEF Start, Control
<1> QED  BY <1>5, <1>6, <1>7 DEF ProxyInv

-----------------------------------------------------------------------------
(* The results *)

\* The invariant holds before the first start.
LEMMA ProxyInit ==
  ASSUME Init
  PROVE  ProxyInv
<1>1. NoStats \in StatsType /\ NoStats.accepted = 0 /\ Counts(NoStats) = 0
  BY DEF NoStats, StatsType, Counts
<1>2. World \in Worlds
  <2>1. conn \in [Slots -> ConnType] /\ pcbs \in [Pcbs -> PcbType]
    BY Fresh DEF Init
  <2>2. dns \in [Slots -> [Hosts -> 0 .. DnsTable]]
    BY Numbers DEF Init
  <2>3. stats \in StatsType /\ undefined \in BOOLEAN
    BY <1>1 DEF Init
  <2> QED  BY <2>1, <2>2, <2>3 DEF World, Worlds
<1>3. LiveIn(conn) = {}
  BY DEF Init, LiveIn, FreeConn
<1>4. Linked(conn, pcbs)
  BY DEF Init, Linked, FreePcb
<1>5. Blocked(dns, pcbs)
  BY Fresh, ProxyAssumption DEF Init, Blocked
<1>6. InOrder(conn, stats)
  <2>1. Cardinality(LiveIn(conn)) = 0 /\ stats = NoStats
    BY <1>3, FS_EmptySet DEF Init
  <2> QED  BY <1>1, <2>1 DEF InOrder, Ended
<1>7. Control /\ listening
  BY Numbers DEF Init, Control, Slots
<1>8. Good(World)
  BY <1>2, <1>4, <1>5, Now DEF Good
<1> QED  BY <1>6, <1>7, <1>8 DEF ProxyInv

\* Every step keeps the invariant, action by action.
LEMMA ProxyNext ==
  ASSUME ProxyInv, [Next]_vars
  PROVE  ProxyInv'
<1>1. CASE UNCHANGED vars
  <2>1. World' = World
    BY <1>1 DEF World, vars
  <2>2. Good(World')
    BY <2>1 DEF ProxyInv
  <2> QED  BY <1>1, <2>2 DEF ProxyInv, vars, Control
<1>2. CASE PollAny
  BY <1>2, PollStep DEF PollAny
<1>3. CASE Events
  BY <1>3, EventsStep
<1>4. CASE Sweep
  BY <1>4, SweepStep
<1>5. CASE Pump
  BY <1>5, PumpStep
<1>6. CASE DnsAnswer
  BY <1>6, DnsAnswerStep
<1>7. ASSUME NEW p \in Pcbs, Connected(p)  PROVE ProxyInv'
  BY <1>7, ConnectedStep
<1>8. ASSUME NEW p \in Pcbs, Received(p)  PROVE ProxyInv'
  BY <1>8, ReceivedStep
<1>9. ASSUME NEW p \in Pcbs, Finished(p)  PROVE ProxyInv'
  BY <1>9, FinishedStep
<1>10. ASSUME NEW p \in Pcbs, Reset(p)  PROVE ProxyInv'
  BY <1>10, DropStep DEF Reset
<1>11. ASSUME NEW p \in Pcbs, LastAck(p)  PROVE ProxyInv'
  BY <1>11, DropStep DEF LastAck
<1>12. ASSUME NEW p \in Pcbs, TimeWaitOver(p)  PROVE ProxyInv'
  BY <1>12, TimeWaitStep
<1>13. ASSUME NEW s \in Slots, ClientChanges(s)  PROVE ProxyInv'
  BY <1>13, ClientStep
<1>14. CASE Stop
  BY <1>14, StopStep
<1>15. CASE Start
  BY <1>15, StartStep
<1> QED  BY <1>1, <1>2, <1>3, <1>4, <1>5, <1>6, <1>7, <1>8, <1>9, <1>10, <1>11, <1>12,
            <1>13, <1>14, <1>15 DEF Next, Callback

\* What follows of the invariant.
LEMMA ProxyInvShows ==
  ASSUME ProxyInv
  PROVE  SlotsConsistent /\ NoPcbLeftBehind /\ DeniedNeverLeaves /\ NoEndUncounted
<1>1. /\ conn \in [Slots -> ConnType] /\ pcbs \in [Pcbs -> PcbType]
      /\ dns \in [Slots -> [Hosts -> 0 .. DnsTable]] /\ stats \in StatsType
      /\ undefined \in BOOLEAN /\ Linked(conn, pcbs) /\ Blocked(dns, pcbs) /\ Control
  BY Now DEF ProxyInv, Good, Worlds
<1>2. TypeOK
  BY <1>1 DEF TypeOK, ConnType, PcbType, StatsType, Control
<1>3. NoPcbLeftBehind /\ ConnectingAgrees
  BY <1>1 DEF NoPcbLeftBehind, ConnectingAgrees, Linked
<1>4. DeniedNeverLeaves
  BY <1>1 DEF DeniedNeverLeaves, Blocked
<1>5. NoEndUncounted
  <2>1. stats.accepted \in Nat /\ Counts(stats) \in Nat
    BY <1>1 DEF StatsType, Counts
  <2>2. Live = Cardinality(LiveIn(conn)) /\ Live \in Nat
    BY LiveFinite DEF Live, LiveIn
  <2>3. listening => stats.accepted - Live <= Counts(stats)
    BY <2>2 DEF ProxyInv, InOrder, Ended
  <2>4. listening => stats.accepted <= Counts(stats) + Live
    BY <2>1, <2>2, <2>3
  <2> QED  BY <2>4 DEF NoEndUncounted, Counts
<1> QED  BY <1>2, <1>3, <1>4, <1>5 DEF SlotsConsistent

\* The inductive invariant: in every reachable state slots, pcbs, lookups and
\* counters agree (conn_alloc, conn_close, the callbacks, awg_proxy_start and
\* awg_proxy_stop).
THEOREM ProxyInvariant == Spec => []ProxyInv
<1>1. Init => ProxyInv
  BY ProxyInit
<1>2. ProxyInv /\ [Next]_vars => ProxyInv'
  BY ProxyNext
<1> QED  BY <1>1, <1>2, PTL DEF Spec

\* Slots and pcbs agree and every count stays in its range, at every step of a pass and of
\* every callback in between: a pcb waits for its handshake exactly when its slot connects.
THEOREM SlotsAlwaysConsistent == Spec => []SlotsConsistent
<1>1. ProxyInv => SlotsConsistent
  BY ProxyInvShows
<1> QED  BY <1>1, ProxyInvariant, PTL

\* conn_close() and the callbacks of lwIP leave no pcb behind, whatever ends a connection.
THEOREM NeverLeftBehind == Spec => []NoPcbLeftBehind
<1>1. ProxyInv => NoPcbLeftBehind
  BY ProxyInvShows
<1> QED  BY <1>1, ProxyInvariant, PTL

\* No name under the deny list is looked up or connected to, however it is spelt and whatever
\* slot a late answer finds: host_normalise() comes before host_denied().
THEOREM DeniedStaysIn == Spec => []DeniedNeverLeaves
<1>1. ProxyInv => DeniedNeverLeaves
  BY ProxyInvShows
<1> QED  BY <1>1, ProxyInvariant, PTL

\* While the proxy is up every connection that was accepted is live or in g_stats: no way a
\* connection can end, in conn_close() or in a callback, goes uncounted.
THEOREM NoEndGoesUncounted == Spec => []NoEndUncounted
<1>1. ProxyInv => NoEndUncounted
  BY ProxyInvShows
<1> QED  BY <1>1, ProxyInvariant, PTL
=============================================================================
