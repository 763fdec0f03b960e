----------------------------- MODULE AwgSession -----------------------------
(***************************************************************************)
(* The session layer, awg_session.c, as main_switch.c and awg_netif.c      *)
(* drive it: the initiator's handshake with its retries, key rotation, the *)
(* transport counters and the two anti-replay windows.                     *)
(*                                                                         *)
(* The network is everything UDP may do.  A datagram the peer can have     *)
(* sent may arrive at any time after it was possible, any number of times, *)
(* in any order, or never; so can one that is neither an answer nor data   *)
(* of ours.  The peer is external: it answers an initiation by deriving    *)
(* the keypair that initiation leads to, and then seals data under it.     *)
(*                                                                         *)
(* Time is counted in the unit of the configured ranges (seconds).  Keys   *)
(* are symbolic: a keypair is known by the number of the initiation whose  *)
(* ephemeral key it was derived from.  Whether an initiation or a datagram *)
(* can be built at all depends on the configuration alone (a peer key that *)
(* is no point, padding that does not fit), so the model takes one that    *)
(* works.  Left out: the counters and times that are only shown in the     *)
(* status lines (packets_*, replays_*, rx_counter_max, last_rx_ms,         *)
(* handshake_tries).                                                       *)
(***************************************************************************)
EXTENDS ReplayWindow

CONSTANTS
  Cfg,               \* awg_config: the timer ranges, s2 and s4
  Indices,           \* the values awg_random_bytes() may draw for local_index
  AWG_PREV_KEEP,     \* AWG_PREV_KEEP_MS, in the unit of the clock
  ClockWrap,         \* where the 32-bit sys_now() wraps
  MaxTime, MaxInitiations, MaxSeals, MaxCounter, Blocks   \* bounds

Range == [min : Int, max : Int]

ASSUME CfgAssumption ==
  Cfg \in [rekey_after_time : Range, reject_after_time : Range,
           rekey_timeout : Range, persistent_keepalive : Range,
           s2 : Nat, s4 : Nat]

ASSUME IndexAssumption == Indices # {} /\ Indices \subseteq Nat

ASSUME ClockAssumption ==
  AWG_PREV_KEEP \in Nat /\ ClockWrap \in Nat \ {0}

ASSUME BoundAssumption ==
  /\ MaxTime \in Nat /\ MaxInitiations \in Nat
  /\ MaxSeals \in Nat /\ MaxCounter \in Nat
  /\ Blocks \subseteq Nat

VARIABLES
  now,                            \* now_ms()
  socket,                         \* fd >= 0 in the main loop
  established, cur, tx_counter, rx_window, established_ms, last_tx_ms,
  have_prev, prev, prev_window, prev_since_ms,
  handshaking, pending, handshake_sent_ms,
  timers                          \* what awg_session_init() drew

session == <<established, cur, tx_counter, rx_window, established_ms, last_tx_ms,
             have_prev, prev, prev_window, prev_since_ms,
             handshaking, pending, handshake_sent_ms, timers>>

(***************************************************************************)
(* History: what was done so far, for the properties and for the set of    *)
(* datagrams that can be in the network.                                   *)
(***************************************************************************)
VARIABLES
  begun,         \* how many handshakes were begun; the last one has this id
  sent,          \* the handshakes whose initiation was built
  promoted,      \* the keypairs that became current
  retired,       \* [id, at]: keypair id stopped being current at time at
  wiped,         \* keypairs up to this one were wiped with their session
  sealed, seals, accepted, deliveries,
  last_sealed    \* when a datagram was last sealed, or the session came up

history == <<begun, sent, promoted, retired, wiped,
             sealed, seals, accepted, deliveries, last_sealed>>

vars == <<now, socket, session, history>>

-----------------------------------------------------------------------------
(* Handshakes and datagrams *)

\* awg_handshake: id names the ephemeral key, idx is local_index, and awaiting
\* says that ck and h are still where the initiation left them, so that the
\* peer's answer can be consumed.
Handshake == [id : Nat, idx : Nat, awaiting : BOOLEAN]

NoHandshake == [id |-> 0, idx |-> 0, awaiting |-> FALSE]

AWG_MSG_RESP_SIZE == 92
TRANSPORT_HDR == 16
AEAD_TAG == 16

\* What can arrive: answers to the initiations sent, data under the keypairs
\* they lead to (16-byte blocks of plaintext, none for a keepalive), and
\* anything else, of the length of an answer or not.
Datagrams ==
  [kind : {"response"}, hs : sent, ctr : {0}, len : {Cfg.s2 + AWG_MSG_RESP_SIZE}]
  \cup
  [kind : {"data"}, hs : sent, ctr : 0 .. MaxCounter,
   len : {Cfg.s4 + TRANSPORT_HDR + 16 * b + AEAD_TAG : b \in Blocks}]
  \cup
  [kind : {"other"}, hs : {NoHandshake}, ctr : {0},
   len : {Cfg.s2 + AWG_MSG_RESP_SIZE, 1}]

\* awg_transport_open(): the receiver index is compared, then the tag.
Opens(hs, m) ==
  /\ m.kind = "data"
  /\ m.hs.idx = hs.idx
  /\ m.hs.id = hs.id

-----------------------------------------------------------------------------
(* Initialisation *)

\* awg_range_pick(), and the fallback for a range that is not configured.
Picks(r, default) ==
  {IF v <= 0 THEN default ELSE v :
     v \in r.min .. (IF r.max <= r.min THEN r.min ELSE r.max)}

Timers ==
  [rekey_after   : Picks(Cfg.rekey_after_time, 120),
   reject_after  : Picks(Cfg.reject_after_time, 180),
   rekey_timeout : Picks(Cfg.rekey_timeout, 5),
   keepalive     : Picks(Cfg.persistent_keepalive, 25)]

NoTimers ==
  [rekey_after |-> 0, reject_after |-> 0, rekey_timeout |-> 0, keepalive |-> 0]

\* memset(s, 0, sizeof(*s)), all but the timers.
Zeroed ==
  /\ established' = FALSE /\ cur' = NoHandshake
  /\ tx_counter' = 0 /\ rx_window' = EmptyWindow
  /\ established_ms' = 0 /\ last_tx_ms' = 0
  /\ have_prev' = FALSE /\ prev' = NoHandshake
  /\ prev_window' = EmptyWindow /\ prev_since_ms' = 0
  /\ handshaking' = FALSE /\ pending' = NoHandshake /\ handshake_sent_ms' = 0

Init ==
  /\ now = 0
  /\ socket = TRUE
  /\ established = FALSE /\ cur = NoHandshake
  /\ tx_counter = 0 /\ rx_window = EmptyWindow
  /\ established_ms = 0 /\ last_tx_ms = 0
  /\ have_prev = FALSE /\ prev = NoHandshake
  /\ prev_window = EmptyWindow /\ prev_since_ms = 0
  /\ handshaking = FALSE /\ pending = NoHandshake /\ handshake_sent_ms = 0
  /\ timers \in Timers
  /\ begun = 0 /\ sent = {} /\ promoted = {} /\ retired = {} /\ wiped = 0
  /\ sealed = {} /\ seals = 0 /\ accepted = {} /\ deliveries = 0
  /\ last_sealed = 0

-----------------------------------------------------------------------------
(* The calls the main loop makes *)

NeedsHandshake ==
  IF handshaking THEN now - handshake_sent_ms >= timers.rekey_timeout
  ELSE IF ~established THEN TRUE
  ELSE now - established_ms >= timers.rekey_after

\* The clock is taken for one of 32 bits, like the stamps.
NeedsKeepalive_Narrow ==
  established /\ (now % ClockWrap) - last_tx_ms >= timers.keepalive

NeedsKeepalive ==
  established /\ now - last_tx_ms >= timers.keepalive

\* awg_session_build_initiation(): a new local index and a new ephemeral key
\* replace whatever handshake was pending.
BuildInitiation ==
  /\ socket /\ NeedsHandshake
  /\ begun < MaxInitiations
  /\ begun' = begun + 1
  /\ \E i \in Indices : pending' = [id |-> begun', idx |-> i, awaiting |-> TRUE]
  /\ sent' = sent \cup {pending'}
  /\ handshaking' = TRUE
  /\ handshake_sent_ms' = now
  /\ UNCHANGED <<now, socket, established, cur, tx_counter, rx_window,
                 established_ms, last_tx_ms, have_prev, prev, prev_window,
                 prev_since_ms, timers, promoted, retired, wiped,
                 sealed, seals, accepted, deliveries, last_sealed>>

\* The counter is not advanced once the datagram is sealed.
BuildData_NoAdvance(stamp) ==
  /\ established
  /\ seals < MaxSeals
  /\ UNCHANGED tx_counter
  /\ last_tx_ms' = stamp
  /\ sealed' = sealed \cup {<<cur.id, tx_counter>>}
  /\ seals' = seals + 1
  /\ last_sealed' = now
  /\ UNCHANGED <<now, socket, established, cur, rx_window, established_ms,
                 have_prev, prev, prev_window, prev_since_ms,
                 handshaking, pending, handshake_sent_ms, timers,
                 begun, sent, promoted, retired, wiped, accepted, deliveries>>

\* awg_session_build_data(): seal under the current keypair with the next
\* counter, and note the time the caller gives as that of the last datagram.
BuildData(stamp) ==
  /\ established
  /\ tx_counter < MaxSeals
  /\ tx_counter' = tx_counter + 1
  /\ last_tx_ms' = stamp
  /\ sealed' = sealed \cup {<<cur.id, tx_counter>>}
  /\ seals' = seals + 1
  /\ last_sealed' = now
  /\ UNCHANGED <<now, socket, established, cur, rx_window, established_ms,
                 have_prev, prev, prev_window, prev_since_ms,
                 handshaking, pending, handshake_sent_ms, timers,
                 begun, sent, promoted, retired, wiped, accepted, deliveries>>

\* tunnel_output(): lwIP has a packet.  The time passed down is sys_now(), a
\* 32-bit count of milliseconds widened to 64 bits after it has wrapped.
TunnelOutput == BuildData(now % ClockWrap)

\* The keepalive branch of the main loop, taken when no handshake is due.
BuildKeepalive ==
  /\ socket /\ ~NeedsHandshake /\ NeedsKeepalive
  /\ BuildData(now)

-----------------------------------------------------------------------------
(* awg_session_on_datagram() *)

\* The keypair just replaced is kept with an empty window.
KeepPrevious_NoWindow ==
  IF established
  THEN /\ prev' = cur /\ have_prev' = TRUE
       /\ prev_window' = EmptyWindow
       /\ prev_since_ms' = now
       /\ retired' = retired \cup {[id |-> cur.id, at |-> now]}
  ELSE UNCHANGED <<prev, have_prev, prev_window, prev_since_ms, retired>>

\* The keypair being replaced is kept for late arrivals, window included.
KeepPrevious ==
  IF established
  THEN /\ prev' = cur /\ have_prev' = TRUE
       /\ prev_window' = rx_window
       /\ prev_since_ms' = now
       /\ retired' = retired \cup {[id |-> cur.id, at |-> now]}
  ELSE UNCHANGED <<prev, have_prev, prev_window, prev_since_ms, retired>>

\* A datagram as long as an answer while one is awaited.  The receiver index
\* must be that of the pending handshake.  Then the answer is mixed into the
\* pending chain, and only after that the tag shows whose answer it was.
OnResponse(m) ==
  IF m.kind # "response" \/ m.hs.idx # pending.idx
  THEN UNCHANGED vars
  ELSE /\ pending' = [pending EXCEPT !.awaiting = FALSE]
       /\ IF m.hs.id = pending.id /\ pending.awaiting
          THEN /\ KeepPrevious
               /\ cur' = pending'
               /\ established' = TRUE /\ handshaking' = FALSE
               /\ tx_counter' = 0 /\ rx_window' = EmptyWindow
               /\ established_ms' = now /\ last_tx_ms' = now
               /\ promoted' = promoted \cup {pending.id}
               /\ last_sealed' = now
          ELSE UNCHANGED <<have_prev, prev, prev_window, prev_since_ms, retired,
                           cur, established, handshaking, tx_counter, rx_window,
                           established_ms, last_tx_ms, promoted, last_sealed>>
       /\ UNCHANGED <<now, socket, handshake_sent_ms, timers, begun, sent,
                      wiped, sealed, seals, accepted, deliveries>>

\* The previous keypair is never given up.
PrevExpired_Never == FALSE

\* The previous keypair is only for datagrams that were already on the way.
PrevExpired == have_prev /\ now - prev_since_ms > AWG_PREV_KEEP

\* Any other datagram: forget the previous keypair when it is too old, then try
\* the current keypair and after it the previous one, and judge the counter by
\* the window of the keypair that opened the datagram.
OnTransport(m) ==
  LET expired == PrevExpired
      onCur   == Opens(cur, m)
      onPrev  == ~onCur /\ have_prev /\ ~expired /\ Opens(prev, m)
      fresh   == \/ onCur  /\ ReplayOk(rx_window, m.ctr)
                 \/ onPrev /\ ReplayOk(prev_window, m.ctr)
  IN
  /\ established
  /\ have_prev' = (have_prev /\ ~expired)
  /\ prev' = IF expired THEN NoHandshake ELSE prev
  /\ rx_window' = IF onCur /\ fresh THEN ReplayMark(rx_window, m.ctr) ELSE rx_window
  /\ prev_window' = IF expired THEN EmptyWindow
                    ELSE IF onPrev /\ fresh THEN ReplayMark(prev_window, m.ctr)
                    ELSE prev_window
  /\ accepted' = IF fresh THEN accepted \cup {<<m.hs.id, m.ctr>>} ELSE accepted
  /\ deliveries' = IF fresh THEN deliveries + 1 ELSE deliveries
  /\ UNCHANGED <<now, socket, established, cur, tx_counter, established_ms,
                 last_tx_ms, prev_since_ms, handshaking, pending,
                 handshake_sent_ms, timers, begun, sent, promoted, retired, wiped,
                 sealed, seals, last_sealed>>

\* Datagrams are told apart by their length.
TakenForResponse(m) == handshaking /\ m.len = Cfg.s2 + AWG_MSG_RESP_SIZE

OnDatagram(m) ==
  /\ socket
  /\ IF TakenForResponse(m) THEN OnResponse(m) ELSE OnTransport(m)

-----------------------------------------------------------------------------
(* What the main loop does to the session as a whole *)

\* A power transition with the tunnel up: the socket is closed, the keys wiped.
PowerTransition ==
  /\ socket /\ established
  /\ socket' = FALSE
  /\ Zeroed /\ timers' = NoTimers
  /\ wiped' = begun
  /\ UNCHANGED <<now, begun, sent, promoted, retired,
                 sealed, seals, accepted, deliveries, last_sealed>>

\* A rebuild that gets its socket starts a session from nothing.
Rebuild ==
  /\ socket' = TRUE
  /\ Zeroed /\ timers' \in Timers
  /\ wiped' = begun
  /\ UNCHANGED <<now, begun, sent, promoted, retired,
                 sealed, seals, accepted, deliveries, last_sealed>>

\* One that does not has closed the old socket and leaves the session as it is.
RebuildFails ==
  /\ socket' = FALSE
  /\ UNCHANGED <<now, session, history>>

Tick ==
  /\ now < MaxTime
  /\ now' = now + 1
  /\ UNCHANGED <<socket, session, history>>

Next ==
  \/ BuildInitiation
  \/ TunnelOutput
  \/ BuildKeepalive
  \/ \E m \in Datagrams : OnDatagram(m)
  \/ PowerTransition
  \/ Rebuild
  \/ RebuildFails
  \/ Tick

Spec == Init /\ [][Next]_vars

-----------------------------------------------------------------------------
(* Properties *)

\* Every variable stays in the range the code gives it.
TypeOK ==
  /\ now \in Nat /\ socket \in BOOLEAN
  /\ established \in BOOLEAN /\ cur \in Handshake
  /\ tx_counter \in Nat /\ rx_window \in Window
  /\ established_ms \in Nat /\ last_tx_ms \in Nat
  /\ have_prev \in BOOLEAN /\ prev \in Handshake
  /\ prev_window \in Window /\ prev_since_ms \in Nat
  /\ handshaking \in BOOLEAN /\ pending \in Handshake /\ handshake_sent_ms \in Nat
  /\ timers \in [rekey_after : Nat, reject_after : Nat,
                 rekey_timeout : Nat, keepalive : Nat]
  /\ begun \in Nat /\ sent \subseteq Handshake
  /\ promoted \subseteq Nat /\ retired \subseteq [id : Nat, at : Nat]
  /\ wiped \in Nat
  /\ sealed \subseteq Nat \X Nat /\ seals \in Nat
  /\ accepted \subseteq Nat \X Nat /\ deliveries \in Nat
  /\ last_sealed \in Nat

\* The nonce the next datagram will be sealed with was never used: the counter
\* restarts only together with a keypair no datagram was sealed under, through
\* retries, rekeys, wipes and rebuilds.  (awg_session.h: tx_counter "never
\* repeats for a key - it is the AEAD nonce".)
NonceFresh == established => <<cur.id, tx_counter>> \notin sealed

\* The counters of the nonces in set that belong to a keypair, and the counters
\* accepted so far under it.
Counters(set, id) == {n[2] : n \in {a \in set : a[1] = id}}

Seen(id) == Counters(accepted, id)

\* No counter is accepted twice under a keypair: once on_datagram has accepted
\* it, neither the live window nor the one moved to the previous keypair at a
\* rekey would pass it again.
NoReplay ==
  /\ established => \A c \in Seen(cur.id) : ~ReplayOk(rx_window, c)
  /\ have_prev => \A c \in Seen(prev.id) : ~ReplayOk(prev_window, c)

\* The windows refuse nothing else: a counter not accepted yet passes unless
\* one REPLAY_WINDOW or more above it was accepted, so reordering within the
\* window never costs a datagram.
NoFalseReplay ==
  /\ established =>
       \A c \in 0 .. MaxCounter : IdealOk(Seen(cur.id), c) => ReplayOk(rx_window, c)
  /\ have_prev =>
       \A c \in 0 .. MaxCounter : IdealOk(Seen(prev.id), c) => ReplayOk(prev_window, c)

\* Retired keys stop decrypting: a datagram is accepted only under a keypair
\* that was not wiped with its session and that was replaced, if at all, no
\* longer than AWG_PREV_KEEP ago.
RetiredKeysDie ==
  [][\A n \in accepted' \ accepted :
       /\ n[1] > wiped
       /\ \A r \in retired : r.id = n[1] => now - r.at <= AWG_PREV_KEEP]_vars

\* A session that has sealed nothing for a keepalive period is due a keepalive, so
\* that the NAT mapping stays open (awg_session.h:122), also after the stamps that
\* lwIP's datagrams leave have wrapped (awg_netif.c:58).  The converse fails then:
\* a stamp from before the wrap makes a session that was just used look idle.
KeepaliveNeverLate ==
  established /\ now - last_sealed >= timers.keepalive => NeedsKeepalive

(***************************************************************************)
(* The inductive invariant.  NonceFresh and NoReplay say nothing of what a *)
(* keypair that is about to take over has been used for, nor of what the   *)
(* bitmaps stand for.  Strengthened: a handshake that still awaits its     *)
(* answer has never been current; nonces used belong to keypairs that have *)
(* been; the current keypair's are below tx_counter; each window           *)
(* represents exactly the counters accepted under its keypair; and the     *)
(* previous keypair is one the history has retired at prev_since_ms.       *)
(***************************************************************************)
KeysInv ==
  /\ \A h \in sent : h.id \in 1 .. begun
  /\ promoted \subseteq 1 .. begun
  /\ wiped <= begun
  /\ pending.awaiting => pending.id \in ((wiped + 1) .. begun) \ promoted
  /\ established => cur.id \in promoted /\ cur.id > wiped
  /\ have_prev => /\ established
                  /\ prev.id \in promoted /\ prev.id > wiped
                  /\ prev.id # cur.id

NonceInv ==
  \A n \in sealed : /\ n[1] \in promoted
                    /\ established /\ n[1] = cur.id => n[2] < tx_counter

WindowInv ==
  /\ \A n \in accepted : n[1] \in promoted
  /\ established => Represents(rx_window, Seen(cur.id))
  /\ have_prev => Represents(prev_window, Seen(prev.id))

RetireInv ==
  \A r \in retired : /\ r.id \in promoted
                     /\ established => r.id # cur.id
                     /\ have_prev /\ r.id = prev.id => r.at = prev_since_ms

IInv == TypeOK /\ KeysInv /\ NonceInv /\ WindowInv /\ RetireInv

\* The session keeps the promises of AwgChannel.
Channel == INSTANCE AwgChannel WITH
  key <- IF established THEN cur.id ELSE 0,
  held <- (IF established THEN {cur.id} ELSE {}) \cup (IF have_prev THEN {prev.id} ELSE {}),
  ever <- promoted,
  sealed <- sealed, seals <- seals,
  delivered <- accepted, deliveries <- deliveries

\* Every behaviour of the session is one AwgChannel allows: fresh keypairs, no
\* nonce used twice, no datagram delivered twice or under a keypair given up.
ChannelSpec == Channel!Spec
=============================================================================
