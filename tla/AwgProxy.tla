------------------------------ MODULE AwgProxy ------------------------------
(***************************************************************************)
(* The transparent proxy, awg_proxy.c: a fixed table of slots, each        *)
(* joining an application's socket to a connection lwIP opens through the  *)
(* tunnel.                                                                 *)
(*                                                                         *)
(* One thread runs everything.  awg_proxy_poll() sleeps, accepts, serves   *)
(* the slots poll() reported, sweeps the idle ones and pumps the others,   *)
(* each time in the order of the table; phase and cursor say where it is.  *)
(* lwIP's callbacks run between two passes ("wait"), when the main loop    *)
(* feeds the stack.  The applications and the remote hosts do as they      *)
(* please.                                                                 *)
(*                                                                         *)
(* lwIP is external: what matters of it is which pcbs of its pool are in   *)
(* use, which slot each one calls back, and when it frees one with and     *)
(* without saying so.  Bytes are counted, not carried; a hello's name is a *)
(* record.  Left out: the counters that are only shown (denied, refused,   *)
(* timed_out, resolved, connected, the bytes) and the cfd, which           *)
(* conn_close() closes exactly when it frees the slot.                     *)
(***************************************************************************)
EXTENDS Integers, FiniteSets, FiniteSetsExt

CONSTANTS
  MAX_CONN,            \* slots are 1 .. MAX_CONN, in the order of g_conn
  BUF_SIZE, SNIFF_LIMIT, SNIFF_TIMEOUT, IDLE_TIMEOUT,
  Pcbs, NoPcb,         \* MEMP_NUM_TCP_PCB of them, and the null pointer
  DnsTable,            \* DNS_MAX_REQUESTS
  Hosts, Denied,       \* the hosts asked for; the ones under g_deny_suffix
  NoHost,
  RxMax,               \* pbufs the receive window lets the remote have in flight
  ClockWrap,           \* sys_now() wraps here
  MaxAccepted          \* bound on the connections accepted

Slots == 1 .. MAX_CONN

ASSUME ProxyAssumption ==
  /\ {MAX_CONN, BUF_SIZE, SNIFF_LIMIT, RxMax} \subseteq Nat \ {0}
  /\ {DnsTable, MaxAccepted, SNIFF_TIMEOUT, IDLE_TIMEOUT} \subseteq Nat
  /\ ClockWrap \in Nat \ {0}
  /\ NoPcb \notin Pcbs /\ NoHost \notin Hosts /\ Denied \subseteq Hosts /\ IsFiniteSet(Hosts)

VARIABLES
  conn,          \* g_conn
  pcbs,          \* lwIP's pool
  dns,           \* lookups under way: how often each slot waits for each host
  stats,         \* g_stats
  listening,     \* g_listen >= 0
  clock,         \* sys_now()
  phase, cursor, \* where awg_proxy_poll() is
  owner,         \* the slots handed to poll()
  undefined      \* a pcb lwIP had freed was used

vars == <<conn, pcbs, dns, stats, listening, clock, phase, cursor, owner, undefined>>

-----------------------------------------------------------------------------
(* State *)

\* client is the application at the other end of cfd: live, done sending, or
\* lost without a word.
FreeConn ==
  [st |-> "free", pcb |-> NoPcb, host |-> NoHost, last_ms |-> 0, up_len |-> 0,
   rx |-> 0, peer_closed |-> FALSE, client |-> "live"]

FreePcb == [state |-> "free", arg |-> 0, dest |-> NoHost]

NoStats == [accepted |-> 0, completed |-> 0, failed |-> 0, closed |-> 0]

\* A name as the hello spells it.
Names == [host : Hosts, dot : BOOLEAN, wellformed : BOOLEAN]

Init ==
  /\ conn = [s \in Slots |-> FreeConn]
  /\ pcbs = [p \in Pcbs |-> FreePcb]
  /\ dns = [s \in Slots |-> [h \in Hosts |-> 0]]
  /\ stats = NoStats
  /\ listening = TRUE
  /\ clock = 0
  /\ phase = "wait" /\ cursor = 1 /\ owner = {}
  /\ undefined = FALSE

\* A handler is a function from worlds to the set of worlds it may leave.
World == [conn |-> conn, pcbs |-> pcbs, dns |-> dns, stats |-> stats, bad |-> undefined]

Become(w) ==
  /\ conn' = w.conn /\ pcbs' = w.pcbs /\ dns' = w.dns
  /\ stats' = w.stats /\ undefined' = w.bad

\* awg_proxy_live()
Live == Cardinality({s \in Slots : conn[s].st # "free"})

-----------------------------------------------------------------------------
(* lwIP *)

\* Any call on a pcb that is no longer allocated is undefined.
Touch(w, p) == [w EXCEPT !.bad = @ \/ (p # NoPcb /\ w.pcbs[p].state = "free")]

FreeUp(w, p) == [w EXCEPT !.pcbs[p] = FreePcb]

\* Closes of connections that never got a name go uncounted.
ConnClose_OnlyNamed(w, s, counted) ==
  IF w.conn[s].st = "free" THEN w
  ELSE LET p == w.conn[s].pcb
           v == IF p = NoPcb THEN w ELSE FreeUp(Touch(w, p), p)
       IN  [v EXCEPT !.conn[s] = FreeConn,
                     !.stats.closed = IF counted /\ w.conn[s].host # NoHost THEN @ + 1 ELSE @]

\* tcp_close() in place of tcp_abort(), and it fails.
ConnClose_NoAbort(w, s, counted) ==
  IF w.conn[s].st = "free" THEN w
  ELSE LET p == w.conn[s].pcb
           v == IF p = NoPcb THEN w ELSE [Touch(w, p) EXCEPT !.pcbs[p].arg = 0]
       IN  [v EXCEPT !.conn[s] = FreeConn,
                     !.stats.closed = IF counted THEN @ + 1 ELSE @]

\* conn_close() with the callbacks removed and the pcb aborted, whoever's it is
\* by now; counted is whether a reason is given.
ConnClose(w, s, counted) ==
  IF w.conn[s].st = "free" THEN w
  ELSE LET p == w.conn[s].pcb
           v == IF p = NoPcb THEN w ELSE FreeUp(Touch(w, p), p)
       IN  [v EXCEPT !.conn[s] = FreeConn,
                     !.stats.closed = IF counted THEN @ + 1 ELSE @]

Fail(w)     == [w EXCEPT !.stats.failed = @ + 1]
Complete(w) == [w EXCEPT !.stats.completed = @ + 1]

\* on_err(): lwIP has already freed the pcb.
OnErr(w, s) == ConnClose([Fail(w) EXCEPT !.conn[s].pcb = NoPcb], s, FALSE)

\* lwIP gives a pcb up and says so.
DropPcb(w, p) ==
  LET s == w.pcbs[p].arg
  IN  IF s = 0 THEN FreeUp(w, p) ELSE OnErr(FreeUp(w, p), s)

InState(w, states) == {p \in Pcbs : w.pcbs[p].state \in states}

\* tcp_new(): from the pool; when that is empty the place of a connection in
\* TIME_WAIT, which is not told, or else of one in LAST_ACK, which is.
TcpNew(w) ==
  LET free == InState(w, {"free"})
      tw   == InState(w, {"time_wait"})
      la   == InState(w, {"last_ack"})
  IN  IF free # {} THEN {[w |-> w, p |-> p] : p \in free}
      ELSE IF tw # {} THEN {[w |-> FreeUp(w, p), p |-> p] : p \in tw}
      ELSE IF la # {} THEN {[w |-> DropPcb(w, p), p |-> p] : p \in la}
      ELSE {[w |-> w, p |-> NoPcb]}

\* tcp_shutdown(pcb, 0, 1)
Shutdown(w, p) ==
  LET v == Touch(w, p)
  IN  [v EXCEPT !.pcbs[p].state =
         CASE @ = "established" -> "fin_wait"
           [] @ = "close_wait"  -> "last_ack"
           [] OTHER             -> @]

-----------------------------------------------------------------------------
(* From the name to the connection *)

\* A late answer is acted upon whatever the slot is doing.
OnResolved_AnyState(w, s, h, found) ==
  IF w.conn[s].st = "free" THEN {w}
  ELSE IF ~found THEN {ConnClose(Fail(w), s, TRUE)}
  ELSE UNION {
    IF r.p = NoPcb THEN {ConnClose(Fail(r.w), s, TRUE)}
    ELSE {[r.w EXCEPT !.conn[s].pcb = r.p, !.conn[s].st = "connecting",
                      !.pcbs[r.p] = [state |-> "syn_sent", arg |-> s, dest |-> h]]}
    : r \in TcpNew(w)}

\* on_resolved(), also called directly when the answer is cached.
OnResolved(w, s, h, found) ==
  IF w.conn[s].st # "resolving" THEN {w}
  ELSE IF ~found THEN {ConnClose(Fail(w), s, TRUE)}
  ELSE UNION {
    IF r.p = NoPcb THEN {ConnClose(Fail(r.w), s, TRUE)}
    ELSE LET v == [r.w EXCEPT !.conn[s].pcb = r.p, !.conn[s].st = "connecting",
                              !.pcbs[r.p] = [state |-> "syn_sent", arg |-> s, dest |-> h]]
         IN  {v, ConnClose(Fail(v), s, TRUE)}      \* tcp_connect() may refuse
    : r \in TcpNew(w)}

\* The trailing dot stays.
HostNormalise_KeepDot(name) == name

\* host_normalise(): the name without its dots; it is refused when not well formed.
HostNormalise(name) == [name EXCEPT !.dot = FALSE]

\* host_denied(): a comparison of suffixes, which a trailing dot defeats.
HostDenied(name) == name.host \in Denied /\ ~name.dot

\* One for each time a slot waits for a host.
Lookups(w) ==
  Cardinality({l \in Slots \X Hosts \X (1 .. DnsTable) : l[3] <= w.dns[l[1]][l[2]]})

\* dns_gethostbyname(): answered from the cache, queued, or rejected.
Resolve(w, s, h) ==
  LET v == [w EXCEPT !.conn[s].st = "resolving", !.conn[s].host = h]
  IN  OnResolved(v, s, h, TRUE)
      \cup (IF Lookups(w) < DnsTable THEN {[v EXCEPT !.dns[s][h] = @ + 1]} ELSE {})
      \cup {ConnClose(Fail(v), s, TRUE)}

\* A hello that yields the name.
SniffName(w, s, name) ==
  LET n == HostNormalise(name)
  IN  IF ~n.wellformed \/ HostDenied(n) THEN {ConnClose(w, s, TRUE)}
      ELSE Resolve(w, s, n.host)

\* A hello without a name: too long to have one, or not all there yet.
NoName(w, s) == IF w.conn[s].up_len >= SNIFF_LIMIT THEN ConnClose(w, s, TRUE) ELSE w

Sniff(w, s) == {NoName(w, s)} \cup UNION {SniffName(w, s, name) : name \in Names}

\* handle_client_readable() once n bytes were read.
GotBytes(w, s, n) ==
  LET v == [w EXCEPT !.conn[s].up_len = @ + n, !.conn[s].last_ms = clock]
  IN  IF v.conn[s].st = "sniff" THEN Sniff(v, s) ELSE {v}

\* handle_client_readable(): end of file, an error, or bytes.
HandleClientReadable(w, s) ==
  LET c == w.conn[s]
  IN  CASE c.client = "lost" -> {w}
        [] c.client = "done" -> {IF c.pcb # NoPcb /\ c.up_len = 0 THEN Shutdown(w, c.pcb) ELSE w}
        [] OTHER -> {ConnClose(w, s, TRUE)}
                    \cup UNION {GotBytes(w, s, n) : n \in 1 .. BUF_SIZE - c.up_len}

-----------------------------------------------------------------------------
(* Moving bytes *)

\* pump_up(): as much as the send window takes, which may be nothing.
PumpUp(w, s) ==
  LET c == w.conn[s]
      v == Touch(w, c.pcb)
  IN  IF c.up_len = 0 \/ c.pcb = NoPcb THEN {w}
      ELSE IF w.pcbs[c.pcb].state \notin {"established", "close_wait"} THEN {v}
      ELSE {v} \cup {[v EXCEPT !.conn[s].up_len = @ - n, !.conn[s].last_ms = clock]
                     : n \in 1 .. c.up_len}

\* n pieces reach the application, each acknowledged to lwIP.
Sent(w, s, n) ==
  IF n = 0 THEN w
  ELSE [Touch(w, w.conn[s].pcb) EXCEPT !.conn[s].rx = @ - n, !.conn[s].last_ms = clock]

\* pump_down(): as much as the application takes; then it is all gone, or the
\* socket is full, or it has failed.
PumpDown(w, s) ==
  LET c == w.conn[s]
  IN  IF c.client = "lost" THEN {w}
      ELSE {Sent(w, s, n) : n \in 0 .. c.rx}
           \cup {ConnClose(Sent(w, s, n), s, TRUE) : n \in 0 .. c.rx - 1}

-----------------------------------------------------------------------------
(* awg_proxy_poll() *)

\* The lowest free slot, when there is one.
ConnAlloc(w) ==
  LET free == {s \in Slots : w.conn[s].st = "free"}
  IN  IF free = {} THEN {} ELSE {Min(free)}

\* Up to poll() and accept(): the slots with something to wait for are polled,
\* some time may pass, and at most one connection is accepted, into a slot that
\* was not polled.  When the table is full it is closed again.
Poll(elapsed, arrives) ==
  /\ phase = "wait" /\ listening
  /\ arrives => stats.accepted < MaxAccepted
  /\ owner' = {s \in Slots : /\ conn[s].st # "free"
                             /\ conn[s].up_len < BUF_SIZE \/ conn[s].rx > 0}
  /\ clock' = (clock + elapsed) % ClockWrap
  /\ LET into == IF arrives THEN ConnAlloc(World) ELSE {}
     IN  IF into = {} THEN UNCHANGED <<conn, stats>>
         ELSE \E s \in into :
                /\ conn' = [conn EXCEPT ![s] = [FreeConn EXCEPT !.st = "sniff",
                                                               !.last_ms = clock']]
                /\ stats' = [stats EXCEPT !.accepted = @ + 1]
  /\ phase' = "events" /\ cursor' = 1
  /\ UNCHANGED <<pcbs, dns, listening, undefined>>

\* On to the next slot, or to the next phase after the last one.
Advance(next) ==
  /\ IF cursor < MAX_CONN THEN cursor' = cursor + 1 /\ phase' = phase
     ELSE cursor' = 1 /\ phase' = next
  /\ UNCHANGED <<listening, clock, owner>>

\* What poll() may have reported for a slot, and what is done about it: a
\* hangup ends the connection; otherwise first POLLOUT, then POLLIN.
Served(w, s) ==
  LET hup   == IF w.conn[s].client = "lost" THEN {} ELSE {ConnClose(w, s, TRUE)}
      out   == {w} \cup (IF w.conn[s].rx > 0 THEN PumpDown(w, s) ELSE {})
      in(v) == IF v.conn[s].st # "free" /\ v.conn[s].up_len < BUF_SIZE
               THEN HandleClientReadable(v, s) ELSE {}
  IN  hup \cup out \cup UNION {in(v) : v \in out}

Events ==
  /\ phase = "events"
  /\ IF cursor \in owner /\ conn[cursor].st # "free"
     THEN \E w \in Served(World, cursor) : Become(w)
     ELSE UNCHANGED <<conn, pcbs, dns, stats, undefined>>
  /\ Advance("sweep")

\* The difference is signed, so a slot last used before the wrap looks fresh.
SweptOut_Signed(c) ==
  clock - c.last_ms >= IF c.st = "sniff" THEN SNIFF_TIMEOUT ELSE IDLE_TIMEOUT

\* Idle for too long, by the 32-bit difference of two clock values.
SweptOut(c) ==
  (clock - c.last_ms) % ClockWrap >= IF c.st = "sniff" THEN SNIFF_TIMEOUT ELSE IDLE_TIMEOUT

\* sweep_idle()
Sweep ==
  /\ phase = "sweep"
  /\ IF conn[cursor].st # "free" /\ SweptOut(conn[cursor])
     THEN Become(ConnClose(World, cursor, TRUE))
     ELSE UNCHANGED <<conn, pcbs, dns, stats, undefined>>
  /\ Advance("pump")

\* The end of a connection the remote has closed and the application has read.
Done(w, s) ==
  IF w.conn[s].peer_closed /\ w.conn[s].rx = 0 THEN ConnClose(Complete(w), s, FALSE) ELSE w

\* The last loop of a pass for one slot: up, down, and perhaps the end.
Pumped(w, s) ==
  LET up      == IF w.conn[s].st = "relay" THEN PumpUp(w, s) ELSE {w}
      down(v) == IF v.conn[s].rx > 0 THEN PumpDown(v, s) ELSE {v}
  IN  {Done(v, s) : v \in UNION {down(u) : u \in up}}

Pump ==
  /\ phase = "pump"
  /\ IF conn[cursor].st # "free"
     THEN \E w \in Pumped(World, cursor) : Become(w)
     ELSE UNCHANGED <<conn, pcbs, dns, stats, undefined>>
  /\ Advance("wait")

-----------------------------------------------------------------------------
(* Between two passes: lwIP's callbacks, the main loop, the applications *)

Between == phase = "wait" /\ UNCHANGED <<listening, clock, phase, cursor, owner>>

\* The resolver calls back with the argument it was given.
DnsAnswer ==
  /\ Between
  /\ \E s \in Slots, h \in Hosts, found \in BOOLEAN :
       /\ dns[s][h] > 0
       /\ \E w \in OnResolved([World EXCEPT !.dns[s][h] = @ - 1], s, h, found) : Become(w)

\* on_connected()
Connected(p) ==
  /\ Between
  /\ pcbs[p].state = "syn_sent"
  /\ pcbs' = [pcbs EXCEPT ![p].state = "established"]
  /\ conn' = [conn EXCEPT ![pcbs[p].arg].st = "relay"]
  /\ UNCHANGED <<dns, stats, undefined>>

\* on_recv() with data, as far as the receive window goes.
Received(p) ==
  /\ Between
  /\ pcbs[p].state \in {"established", "fin_wait"}
  /\ conn[pcbs[p].arg].rx < RxMax
  /\ conn' = [conn EXCEPT ![pcbs[p].arg].rx = @ + 1]
  /\ UNCHANGED <<pcbs, dns, stats, undefined>>

\* on_recv() without data: the remote has finished sending.  (CLOSING, where
\* both FINs are out and ours is unacknowledged, is passed through at once.)
Finished(p) ==
  /\ Between
  /\ pcbs[p].state \in {"established", "fin_wait"}
  /\ pcbs' = [pcbs EXCEPT ![p].state = IF @ = "established" THEN "close_wait" ELSE "time_wait"]
  /\ conn' = [conn EXCEPT ![pcbs[p].arg].peer_closed = TRUE]
  /\ UNCHANGED <<dns, stats, undefined>>

\* A reset, or too many retransmissions.
Reset(p) ==
  /\ Between
  /\ pcbs[p].state \notin {"free", "time_wait"}
  /\ Become(DropPcb(World, p))

\* Our FIN is acknowledged after the remote's: lwIP reports ERR_CLSD.
LastAck(p) ==
  /\ Between
  /\ pcbs[p].state = "last_ack"
  /\ Become(DropPcb(World, p))

\* The slow timer frees a connection in TIME_WAIT and tells nobody.
TimeWaitOver(p) ==
  /\ Between
  /\ pcbs[p].state = "time_wait"
  /\ Become(FreeUp(World, p))

\* An application stops sending, or disappears.
ClientChanges(s) ==
  /\ Between
  /\ conn[s].st # "free" /\ conn[s].client # "lost"
  /\ \E c \in {"done", "lost"} :
       /\ c = "done" => conn[s].client = "live"
       /\ conn' = [conn EXCEPT ![s].client = c]
  /\ UNCHANGED <<pcbs, dns, stats, undefined>>

\* conn_close() for every slot, uncounted: a pcb that two of them point to is
\* used by the second when the first has had it aborted.
ClosedAll(w) ==
  LET open    == {s \in Slots : w.conn[s].st # "free" /\ w.conn[s].pcb # NoPcb}
      aborted == {w.conn[s].pcb : s \in open}
  IN  [w EXCEPT
         !.conn = [s \in Slots |-> IF w.conn[s].st = "free" THEN w.conn[s] ELSE FreeConn],
         !.pcbs = [p \in Pcbs |-> IF p \in aborted THEN FreePcb ELSE w.pcbs[p]],
         !.bad  = \/ @
                  \/ \E p \in aborted : w.pcbs[p].state = "free"
                  \/ \E s, t \in open : s # t /\ w.conn[s].pcb = w.conn[t].pcb]

\* awg_proxy_stop(), when the tunnel is lost.
Stop ==
  /\ phase = "wait" /\ listening
  /\ Become(ClosedAll(World))
  /\ listening' = FALSE
  /\ UNCHANGED <<clock, phase, cursor, owner>>

\* awg_proxy_start(), when it is back; bind() may fail, and then this is tried
\* again only after the next loss.
Start ==
  /\ phase = "wait" /\ ~listening
  /\ conn' = [s \in Slots |-> [conn[s] EXCEPT !.st = "free"]]
  /\ stats' = NoStats
  /\ listening' \in BOOLEAN
  /\ UNCHANGED <<pcbs, dns, clock, phase, cursor, owner, undefined>>

PollAny == \E elapsed \in {0, 1}, arrives \in BOOLEAN : Poll(elapsed, arrives)

Callback ==
  \/ DnsAnswer
  \/ \E p \in Pcbs : \/ Connected(p) \/ Received(p) \/ Finished(p)
                      \/ Reset(p) \/ LastAck(p) \/ TimeWaitOver(p)

\* Nothing is said of what happens after a freed pcb was used.
Next ==
  \/ /\ ~undefined
     /\ \/ PollAny \/ Events \/ Sweep \/ Pump
        \/ Callback
        \/ \E s \in Slots : ClientChanges(s)
        \/ Stop \/ Start
  \/ undefined /\ UNCHANGED vars

Spec == Init /\ [][Next]_vars

\* The loop keeps turning, and time passes while it sleeps.
Fairness ==
  /\ WF_vars(~undefined /\ PollAny) /\ WF_vars(~undefined /\ Events)
  /\ WF_vars(~undefined /\ Sweep) /\ WF_vars(~undefined /\ Pump)
  /\ SF_vars(~undefined /\ \E arrives \in BOOLEAN : Poll(1, arrives))

FairSpec == Spec /\ Fairness

-----------------------------------------------------------------------------
(* Properties *)

\* Every variable stays in the range the code gives it; up_len never passes the
\* end of the buffer.
TypeOK ==
  /\ conn \in [Slots -> [st : {"free", "sniff", "resolving", "connecting", "relay"},
                         pcb : Pcbs \cup {NoPcb}, host : Hosts \cup {NoHost},
                         last_ms : 0 .. ClockWrap - 1, up_len : 0 .. BUF_SIZE,
                         rx : 0 .. RxMax, peer_closed : BOOLEAN,
                         client : {"live", "done", "lost"}]]
  /\ pcbs \in [Pcbs -> [state : {"free", "syn_sent", "established", "close_wait",
                                "fin_wait", "last_ack", "time_wait"},
                        arg : 0 .. MAX_CONN, dest : Hosts \cup {NoHost}]]
  /\ dns \in [Slots -> [Hosts -> 0 .. DnsTable]]
  /\ stats \in [accepted : Nat, completed : Nat, failed : Nat, closed : Nat]
  /\ listening \in BOOLEAN /\ undefined \in BOOLEAN
  /\ clock \in 0 .. ClockWrap - 1
  /\ phase \in {"wait", "events", "sweep", "pump"} /\ cursor \in Slots
  /\ owner \subseteq Slots

\* No pcb is left behind: whatever ends a connection, every pcb of the pool that
\* is in use is the one its slot still points to, so it will be given back.
\* (conn_close: "close can fail and leave the pcb behind".)
NoPcbLeftBehind ==
  \A p \in Pcbs : pcbs[p].state # "free" =>
    /\ pcbs[p].arg \in Slots
    /\ conn[pcbs[p].arg].st \in {"connecting", "relay"}
    /\ conn[pcbs[p].arg].pcb = p

\* A pcb that waits for its handshake belongs to a slot that is connecting, and a
\* slot that relays does so over a connection that came up: on_connected() never
\* moves a slot that has gone on to something else.
ConnectingAgrees ==
  \A p \in Pcbs : pcbs[p].state # "free" =>
    (conn[pcbs[p].arg].st = "connecting" <=> pcbs[p].state = "syn_sent")

\* Slots and pcbs agree, and no slot reads more than its buffer has room for.
SlotsConsistent == TypeOK /\ ConnectingAgrees

\* The telemetry stays blocked: no host of the deny list is looked up or
\* connected to, however its name was spelt.
DeniedNeverLeaves ==
  /\ \A s \in Slots, h \in Denied : dns[s][h] = 0
  /\ \A p \in Pcbs : pcbs[p].dest \notin Denied

\* No connection disappears from the statistics while the proxy is up: each one
\* accepted is live or counted, so that "missing slots" in the log are never an
\* artefact of the counters (conn_close(), awg_proxy.c:213-217; awg_proxy.h:71-73).
NoEndUncounted ==
  listening => stats.accepted <= stats.completed + stats.failed + stats.closed + Live

\* "The arithmetic is the point: accepted must equal completed + failed + closed +
\* live" (conn_close(), awg_proxy.c:213-215).
BooksBalance ==
  listening => stats.accepted = stats.completed + stats.failed + stats.closed + Live

\* A slot is connected to the host its own hello named: the application "thinks
\* it opened a socket to GitHub and got GitHub" (awg_proxy.h).
RightHost ==
  \A s \in Slots, p \in Pcbs :
    conn[s].pcb = p /\ pcbs[p].state # "free" => pcbs[p].dest = conn[s].host

\* The pcb of a slot is "the real connection, tunnel side": as long as a slot
\* points to one, lwIP has not given it to anybody else.
PcbIsTheConnection ==
  \A s \in Slots : conn[s].pcb # NoPcb =>
    pcbs[conn[s].pcb].state # "free" /\ pcbs[conn[s].pcb].arg = s

\* When the last FIN of an orderly close is acknowledged, everything the remote
\* sent has reached the application ("Finish only once the remote has closed and
\* everything it sent has reached the application").
DrainedBeforeEnd ==
  [][\A p \in Pcbs : LastAck(p) => conn[pcbs[p].arg].rx = 0]_vars

\* A hello never holds a slot for ever: a connection that is being sniffed gets
\* its name, fails, or is swept, also across the wrap of the clock and also when
\* the application closed before it said anything.
SniffEnds ==
  \A s \in Slots : conn[s].st = "sniff" ~> conn[s].st # "sniff" \/ undefined

\* A slot whose application vanished is reclaimed, whatever the tunnel side does
\* ("a slot whose client disappeared without saying goodbye").
LostReclaimed ==
  \A s \in Slots : conn[s].client = "lost" ~> conn[s].st = "free" \/ undefined

\* No application holds one of the sixteen slots for ever by saying nothing.
SlotsComeBack == SniffEnds /\ LostReclaimed
=============================================================================
