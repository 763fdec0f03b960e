-------------------------- MODULE AwgTunnel_proofs --------------------------
(***************************************************************************)
(* Proofs about AwgSession and the main loop that drives it, for every     *)
(* window width, timer range, index space, spacing, limit and bound.       *)
(*                                                                         *)
(* First the session: the inductive invariant IInv, the safety properties  *)
(* that follow from it, and that the session implements AwgChannel.  Then  *)
(* the loop: it takes only steps of the session (LoopStep), so the         *)
(* session's invariant holds in it, and with that TunnelInv is inductive.  *)
(***************************************************************************)
EXTENDS AwgTunnel, TLAPS

-----------------------------------------------------------------------------
(* The window: the bitmap of replay_ok() behaves as the ideal window that   *)
(* remembers every counter, for every width                                 *)

\* A zeroed window stands for no counter accepted.
LEMMA EmptyRepresents ==
  EmptyWindow \in Window /\ Represents(EmptyWindow, {})
BY WindowAssumption DEF EmptyWindow, Window, Represents, Positions

\* The bitmap gives the verdict of the ideal window, on every counter.
LEMMA OkIffIdeal ==
  ASSUME NEW w \in Window, NEW seen \in SUBSET Nat, Represents(w, seen), NEW c \in Nat
  PROVE  ReplayOk(w, c) <=> IdealOk(seen, c)
<1> USE WindowAssumption
<1>1. CASE c > w.max
  BY <1>1 DEF Window, Represents, ReplayOk, IdealOk
<1>2. CASE ~(c > w.max) /\ seen = {}
  BY <1>2 DEF Window, Represents, ReplayOk, IdealOk, Positions
<1>3. CASE ~(c > w.max) /\ seen # {}
  <2>0. w.max \in Nat
    BY DEF Window
  <2>1. w.max \in seen /\ w.max - c \in Nat
    BY <1>3, <2>0 DEF Represents
  <2>2. (\A d \in seen : d - c < REPLAY_WINDOW) <=> w.max - c < REPLAY_WINDOW
    BY <1>3, <2>1 DEF Window, Represents
  <2>3. ASSUME w.max - c < REPLAY_WINDOW
        PROVE  w.max - c \in w.bits <=> c \in seen
    <3>1. w.max - c \in Positions
      BY <2>1, <2>3 DEF Positions
    <3>2. w.max - (w.max - c) = c
      BY <2>1 DEF Window
    <3> QED  BY <3>1, <3>2 DEF Represents
  <2> QED  BY <1>3, <2>2, <2>3 DEF ReplayOk, IdealOk
<1> QED  BY <1>1, <1>2, <1>3

\* Marking an accepted counter leaves a window.
LEMMA MarkType ==
  ASSUME NEW w \in Window, NEW c \in Nat, ReplayOk(w, c)
  PROVE  ReplayMark(w, c) \in Window
BY WindowAssumption DEF Window, ReplayOk, ReplayMark, ShiftLeft, Positions

\* Marking an accepted counter adds exactly that counter to what the window
\* stands for, whether the window slides, jumps or stays.
LEMMA MarkRepresents ==
  ASSUME NEW w \in Window, NEW seen \in SUBSET Nat, Represents(w, seen),
         NEW c \in Nat, ReplayOk(w, c)
  PROVE  Represents(ReplayMark(w, c), seen \cup {c})
<1> USE WindowAssumption
<1> DEFINE v == ReplayMark(w, c)
<1>1. CASE c > w.max
  <2>1. v.max = c
    BY <1>1 DEF ReplayMark
  <2>2. \A d \in seen : d < c
    BY <1>1 DEF Represents, Window
  <2>3. ASSUME NEW p \in Positions
        PROVE  p \in v.bits <=> c - p \in seen \cup {c}
    <3>1. CASE p = 0
      BY <1>1, <3>1 DEF ReplayMark, Positions
    <3>2. CASE p # 0 /\ c - w.max >= REPLAY_WINDOW
      <4>1. v.bits = {0}
        BY <1>1, <3>2 DEF ReplayMark
      <4>2. c - p > w.max /\ c - p # c
        BY <3>2 DEF Positions, Window
      <4>3. c - p \notin seen
        BY <4>2 DEF Represents, Window, Positions
      <4> QED  BY <3>2, <4>1, <4>2, <4>3
    <3>3. CASE p # 0 /\ ~(c - w.max >= REPLAY_WINDOW)
      <4> DEFINE q == p - (c - w.max)
      <4>1. p \in v.bits <=> q \in w.bits
        BY <1>1, <3>3 DEF ReplayMark, ShiftLeft
      <4>2. q \in Int /\ w.max - q = c - p /\ q < REPLAY_WINDOW
        BY <1>1 DEF Positions, Window
      <4>3. CASE q >= 0
        BY <3>3, <4>1, <4>2, <4>3 DEF Represents, Positions
      <4>4. CASE q < 0
        <5>1. q \notin w.bits
          BY <4>4, <4>2 DEF Window, Positions
        <5>2. c - p > w.max
          BY <4>4, <4>2 DEF Window, Positions
        <5>3. c - p \notin seen
          BY <5>2 DEF Represents, Window, Positions
        <5> QED  BY <3>3, <4>1, <5>1, <5>3 DEF Positions
      <4> QED  BY <4>2, <4>3, <4>4
    <3> QED  BY <3>1, <3>2, <3>3
  <2> QED  BY <2>1, <2>2, <2>3 DEF Represents
<1>2. CASE ~(c > w.max)
  <2>1. v.max = w.max /\ v.bits = w.bits \cup {w.max - c}
    BY <1>2 DEF ReplayMark, Window
  <2>2. \A p \in Positions : p = w.max - c <=> w.max - p = c
    BY DEF Window, Positions
  <2>3. w.max \in seen \cup {c}
    BY <1>2 DEF Represents, Window
  <2> QED  BY <1>2, <2>1, <2>2, <2>3 DEF Represents, Window
<1> QED  BY <1>1, <1>2 DEF Window

-----------------------------------------------------------------------------
(* Lemmas about the operators *)

\* Adding a nonce adds its counter to those of its keypair.
LEMMA CountersAdd ==
  ASSUME NEW set \in SUBSET (Nat \X Nat), NEW k \in Nat, NEW c \in Nat
  PROVE  /\ Counters(set, k) \in SUBSET Nat
         /\ Counters(set \cup {<<k, c>>}, k) = Counters(set, k) \cup {c}
<1>1. \A i, s : Counters(s, i) = {n[2] : n \in {a \in s : a[1] = i}}
  BY DEF Counters
<1>2. \A a \in set : a[1] \in Nat /\ a[2] \in Nat
  OBVIOUS
<1>3. Counters(set, k) \in SUBSET Nat
  BY <1>1, <1>2
<1>4. <<k, c>>[1] = k /\ <<k, c>>[2] = c
  OBVIOUS
<1>5. \A i, x : x \in Counters(set \cup {<<k, c>>}, i)
                 <=> x \in Counters(set, i) \/ (i = k /\ x = c)
  BY <1>1, <1>4
<1>6. Counters(set \cup {<<k, c>>}, k) = Counters(set, k) \cup {c}
  BY <1>5
<1> QED  BY <1>3, <1>6

\* A nonce of another keypair changes nothing.
LEMMA CountersOther ==
  ASSUME NEW set, NEW j, NEW n, n[1] # j
  PROVE  Counters(set \cup {n}, j) = Counters(set, j)
BY DEF Counters

\* A keypair no nonce belongs to has no counters.
LEMMA CountersNone ==
  ASSUME NEW set, NEW k, \A n \in set : n[1] # k
  PROVE  Counters(set, k) = {}
BY DEF Counters

\* What awg_session_init() draws is never negative.
LEMMA TimersType ==
  Timers \subseteq [rekey_after : Nat, reject_after : Nat,
                    rekey_timeout : Nat, keepalive : Nat]
<1>1. ASSUME NEW r \in Range, NEW d \in Nat
      PROVE  Picks(r, d) \subseteq Nat
  BY <1>1 DEF Picks, Range
<1>2. /\ Cfg.rekey_after_time \in Range /\ Cfg.reject_after_time \in Range
      /\ Cfg.rekey_timeout \in Range /\ Cfg.persistent_keepalive \in Range
  BY CfgAssumption
<1>3. /\ Picks(Cfg.rekey_after_time, 120) \subseteq Nat
      /\ Picks(Cfg.reject_after_time, 180) \subseteq Nat
      /\ Picks(Cfg.rekey_timeout, 5) \subseteq Nat
      /\ Picks(Cfg.persistent_keepalive, 25) \subseteq Nat
  BY <1>1, <1>2
<1> QED  BY <1>3 DEF Timers

\* A datagram that is an answer or data belongs to a handshake that was sent.
LEMMA DatagramType ==
  ASSUME TypeOK, NEW m \in Datagrams
  PROVE  /\ m.ctr \in Nat /\ m.hs \in Handshake
         /\ m.kind \in {"response", "data"} => m.hs \in sent
<1> USE BoundAssumption DEF TypeOK
<1>1. CASE m \in [kind : {"response"}, hs : sent, ctr : {0},
                  len : {Cfg.s2 + AWG_MSG_RESP_SIZE}]
  BY <1>1
<1>2. CASE m \in [kind : {"data"}, hs : sent, ctr : 0 .. MaxCounter,
                  len : {Cfg.s4 + TRANSPORT_HDR + 16 * b + AEAD_TAG : b \in Blocks}]
  BY <1>2
<1>3. CASE m \in [kind : {"other"}, hs : {NoHandshake}, ctr : {0},
                  len : {Cfg.s2 + AWG_MSG_RESP_SIZE, 1}]
  <2>1. m.kind = "other" /\ m.hs = NoHandshake /\ m.ctr = 0
    BY <1>3
  <2>2. NoHandshake \in Handshake
    BY DEF NoHandshake, Handshake
  <2> QED  BY <2>1, <2>2
<1> QED  BY <1>1, <1>2, <1>3 DEF Datagrams

-----------------------------------------------------------------------------
(* Type correctness *)

\* Every step of the session keeps every variable in its range.
LEMMA TypeStep == TypeOK /\ [Next]_vars => TypeOK'
<1> SUFFICES ASSUME TypeOK, [Next]_vars PROVE TypeOK'
  OBVIOUS
<1> USE DEF TypeOK
<1>z. NoHandshake \in Handshake
  BY DEF NoHandshake, Handshake
<1>1. CASE BuildInitiation
  <2>1. PICK i \in Indices : pending' = [id |-> begun', idx |-> i, awaiting |-> TRUE]
    BY <1>1 DEF BuildInitiation
  <2>2. pending' \in Handshake /\ begun' \in Nat
    BY <1>1, <2>1, IndexAssumption DEF BuildInitiation, Handshake
  <2> QED  BY <1>1, <2>2 DEF BuildInitiation
<1>2. ASSUME NEW stamp \in Nat, BuildData(stamp) PROVE TypeOK'
  BY <1>2 DEF BuildData, Handshake
<1>3. CASE TunnelOutput
  BY <1>2, <1>3, ClockAssumption DEF TunnelOutput
<1>4. CASE BuildKeepalive
  BY <1>2, <1>4 DEF BuildKeepalive
<1>5. ASSUME NEW m \in Datagrams, OnResponse(m) PROVE TypeOK'
  <2>1. CASE UNCHANGED vars
    BY <2>1 DEF vars, session, history
  <2>2. CASE ~UNCHANGED vars
    <3>1. pending' \in Handshake /\ pending.id \in Nat /\ cur.id \in Nat
      BY <1>5, <2>2 DEF OnResponse, Handshake
    <3>2. CASE m.hs.id = pending.id /\ pending.awaiting
      <4>1. /\ KeepPrevious
            /\ cur' = pending' /\ established' = TRUE /\ handshaking' = FALSE
            /\ tx_counter' = 0 /\ rx_window' = EmptyWindow
            /\ established_ms' = now /\ last_tx_ms' = now
            /\ promoted' = promoted \cup {pending.id} /\ last_sealed' = now
        BY <1>5, <2>2, <3>2 DEF OnResponse
      <4>2. [id |-> cur.id, at |-> now] \in [id : Nat, at : Nat]
        BY <3>1
      <4>3. /\ prev' \in Handshake /\ have_prev' \in BOOLEAN
            /\ prev_window' \in Window /\ prev_since_ms' \in Nat
            /\ retired' \subseteq [id : Nat, at : Nat]
        BY <4>1, <4>2 DEF KeepPrevious
      <4> QED  BY <1>5, <2>2, <3>1, <4>1, <4>3, EmptyRepresents DEF OnResponse
    <3>3. CASE ~(m.hs.id = pending.id /\ pending.awaiting)
      BY <1>5, <2>2, <3>1, <3>3 DEF OnResponse
    <3> QED  BY <3>2, <3>3
  <2> QED  BY <2>1, <2>2
<1>6. ASSUME NEW m \in Datagrams, OnTransport(m) PROVE TypeOK'
  <2>1. m.ctr \in Nat /\ m.hs.id \in Nat
    BY DatagramType DEF Handshake
  <2>2. ReplayOk(rx_window, m.ctr) => ReplayMark(rx_window, m.ctr) \in Window
    BY <2>1, MarkType
  <2>3. ReplayOk(prev_window, m.ctr) => ReplayMark(prev_window, m.ctr) \in Window
    BY <2>1, MarkType
  <2>4. rx_window' \in Window /\ prev_window' \in Window
    BY <1>6, <2>2, <2>3, EmptyRepresents DEF OnTransport
  <2>5. prev' \in Handshake /\ have_prev' \in BOOLEAN
    BY <1>6, <1>z DEF OnTransport
  <2>6. accepted' \subseteq Nat \X Nat /\ deliveries' \in Nat
    <3>1. \/ accepted' = accepted /\ deliveries' = deliveries
          \/ /\ accepted' = accepted \cup {<<m.hs.id, m.ctr>>}
             /\ deliveries' = deliveries + 1
      BY <1>6 DEF OnTransport
    <3> QED  BY <2>1, <3>1
  <2>7. UNCHANGED <<now, socket, established, cur, tx_counter, established_ms,
                    last_tx_ms, prev_since_ms, handshaking, pending,
                    handshake_sent_ms, timers, begun, sent, promoted, retired, wiped,
                    sealed, seals, last_sealed>>
    BY <1>6 DEF OnTransport
  <2> QED  BY <2>4, <2>5, <2>6, <2>7
<1>7. CASE \E m \in Datagrams : OnDatagram(m)
  BY <1>5, <1>6, <1>7 DEF OnDatagram
<1>8. CASE PowerTransition
  BY <1>8, <1>z, EmptyRepresents DEF PowerTransition, Zeroed, NoTimers
<1>9. CASE Rebuild
  BY <1>9, <1>z, EmptyRepresents, TimersType DEF Rebuild, Zeroed
<1>10. CASE RebuildFails
  BY <1>10 DEF RebuildFails, session, history
<1>11. CASE Tick
  BY <1>11 DEF Tick, session, history
<1>12. CASE UNCHANGED vars
  BY <1>12 DEF vars, session, history
<1> QED
  BY <1>1, <1>3, <1>4, <1>7, <1>8, <1>9, <1>10, <1>11, <1>12 DEF Next

-----------------------------------------------------------------------------
(* Two ways to read a datagram handler *)

\* The answer to the pending initiation promotes its keypair.
Promotes(m) ==
  /\ pending.awaiting /\ m.hs.id = pending.id
  /\ pending' = [pending EXCEPT !.awaiting = FALSE]
  /\ KeepPrevious
  /\ cur' = pending' /\ established' = TRUE
  /\ tx_counter' = 0 /\ rx_window' = EmptyWindow
  /\ promoted' = promoted \cup {pending.id}
  /\ UNCHANGED <<now, socket, begun, sent, wiped, sealed, seals, accepted, deliveries>>

\* Any other answer leaves at most the pending handshake spoilt.
Spoils ==
  /\ pending' = pending \/ pending' = [pending EXCEPT !.awaiting = FALSE]
  /\ UNCHANGED <<now, socket, established, cur, tx_counter, rx_window, have_prev,
                 prev, prev_window, prev_since_ms, begun, sent, promoted, retired,
                 wiped, sealed, seals, accepted, deliveries>>

\* An answer is either the one awaited or it changes no keypair.
LEMMA ResponseCases ==
  ASSUME NEW m, OnResponse(m) PROVE Promotes(m) \/ Spoils
<1>1. CASE m.kind # "response" \/ m.hs.idx # pending.idx
  BY <1>1 DEF OnResponse, Spoils, vars, session, history
<1>2. CASE ~(m.kind # "response" \/ m.hs.idx # pending.idx)
  <2>1. CASE m.hs.id = pending.id /\ pending.awaiting
    BY <1>2, <2>1 DEF OnResponse, Promotes
  <2>2. CASE ~(m.hs.id = pending.id /\ pending.awaiting)
    BY <1>2, <2>2 DEF OnResponse, Spoils
  <2> QED  BY <2>1, <2>2
<1> QED  BY <1>1, <1>2

-----------------------------------------------------------------------------
(* The inductive invariant *)

\* A keypair becomes current once, and what is held was not wiped.
LEMMA KeysStep == TypeOK /\ TypeOK' /\ KeysInv /\ [Next]_vars => KeysInv'
<1> SUFFICES ASSUME TypeOK, TypeOK', KeysInv, [Next]_vars PROVE KeysInv'
  OBVIOUS
<1>i. begun \in Nat /\ wiped \in Nat /\ begun' \in Nat /\ wiped' \in Nat
  BY DEF TypeOK
<1>1. CASE BuildInitiation
  <2>1. PICK i \in Indices : pending' = [id |-> begun', idx |-> i, awaiting |-> TRUE]
    BY <1>1 DEF BuildInitiation
  <2>2. begun' = begun + 1 /\ wiped' = wiped /\ promoted' = promoted
    BY <1>1 DEF BuildInitiation
  <2>3. pending'.id = begun + 1 /\ pending'.id \notin promoted
    BY <2>1, <2>2, <1>i DEF KeysInv
  <2>4. \A h \in sent' : h.id \in 1 .. begun'
    BY <1>1, <1>i, <2>2, <2>3 DEF BuildInitiation, KeysInv
  <2> QED  BY <1>1, <1>i, <2>2, <2>3, <2>4 DEF BuildInitiation, KeysInv
<1>2. ASSUME NEW stamp, BuildData(stamp) PROVE KeysInv'
  BY <1>2 DEF BuildData, KeysInv
<1>3. CASE TunnelOutput
  BY <1>2, <1>3 DEF TunnelOutput
<1>4. CASE BuildKeepalive
  BY <1>2, <1>4 DEF BuildKeepalive
<1>5. ASSUME NEW m \in Datagrams, OnResponse(m) PROVE KeysInv'
  <2>p. pending \in Handshake
    BY DEF TypeOK
  <2>1. CASE Spoils
    <3>1. pending'.awaiting => pending' = pending
      BY <2>1, <2>p DEF Spoils, Handshake
    <3> QED  BY <2>1, <3>1 DEF Spoils, KeysInv
  <2>2. CASE Promotes(m)
    <3>1. pending'.awaiting = FALSE /\ cur'.id = pending.id
      BY <2>2, <2>p DEF Promotes, Handshake
    <3>2. pending.id \in ((wiped + 1) .. begun) \ promoted
      BY <2>2 DEF Promotes, KeysInv
    <3>3. promoted' \subseteq 1 .. begun'
      BY <1>i, <2>2, <3>2 DEF Promotes, KeysInv
    <3>4. have_prev' => prev'.id \in promoted /\ prev'.id > wiped
      BY <2>2 DEF Promotes, KeepPrevious, KeysInv
    <3> QED  BY <1>i, <2>2, <3>1, <3>2, <3>3, <3>4 DEF Promotes, KeysInv
  <2> QED  BY <1>5, <2>1, <2>2, ResponseCases
<1>6. ASSUME NEW m \in Datagrams, OnTransport(m) PROVE KeysInv'
  <2>1. have_prev' => have_prev /\ prev' = prev
    BY <1>6 DEF OnTransport, PrevExpired
  <2> QED  BY <1>6, <2>1 DEF OnTransport, KeysInv
<1>7. CASE \E m \in Datagrams : OnDatagram(m)
  BY <1>5, <1>6, <1>7 DEF OnDatagram
<1>8. CASE PowerTransition \/ Rebuild
  <2>1. /\ established' = FALSE /\ have_prev' = FALSE /\ pending' = NoHandshake
        /\ wiped' = begun /\ UNCHANGED <<begun, sent, promoted>>
    BY <1>8 DEF PowerTransition, Rebuild, Zeroed
  <2> QED  BY <1>i, <2>1 DEF NoHandshake, KeysInv
<1>9. CASE RebuildFails \/ Tick \/ UNCHANGED vars
  <2>1. UNCHANGED <<established, cur, have_prev, prev, pending,
                    begun, sent, promoted, wiped>>
    BY <1>9 DEF RebuildFails, Tick, vars, session, history
  <2> QED  BY <2>1 DEF KeysInv
<1> QED
  BY <1>1, <1>3, <1>4, <1>7, <1>8, <1>9 DEF Next

\* Nonces are used by keypairs that became current, in increasing order.
LEMMA NonceStep ==
  TypeOK /\ KeysInv /\ NonceInv /\ [Next]_vars => NonceInv'
<1> SUFFICES ASSUME TypeOK, KeysInv, NonceInv, [Next]_vars PROVE NonceInv'
  OBVIOUS
<1>i. tx_counter \in Nat /\ sealed \subseteq Nat \X Nat
  BY DEF TypeOK
<1>1. CASE BuildInitiation
  BY <1>1 DEF BuildInitiation, NonceInv
<1>2. ASSUME NEW stamp, BuildData(stamp) PROVE NonceInv'
  <2>1. cur.id \in promoted
    BY <1>2 DEF BuildData, KeysInv
  <2>2. ASSUME NEW n \in sealed'
        PROVE  n[1] \in promoted /\ (n[1] = cur.id => n[2] < tx_counter + 1)
    <3>1. CASE n \in sealed
      BY <1>2, <1>i, <3>1 DEF BuildData, NonceInv
    <3>2. CASE n = <<cur.id, tx_counter>>
      BY <1>i, <2>1, <3>2
    <3> QED  BY <1>2, <2>2, <3>1, <3>2 DEF BuildData
  <2> QED  BY <1>2, <2>2 DEF BuildData, NonceInv
<1>3. CASE TunnelOutput
  BY <1>2, <1>3 DEF TunnelOutput
<1>4. CASE BuildKeepalive
  BY <1>2, <1>4 DEF BuildKeepalive
<1>5. ASSUME NEW m \in Datagrams, OnResponse(m) PROVE NonceInv'
  <2>1. CASE Spoils
    BY <2>1 DEF Spoils, NonceInv
  <2>2. CASE Promotes(m)
    <3>1. cur'.id = pending.id
      BY <2>2 DEF Promotes, TypeOK, Handshake
    <3>2. pending.id \notin promoted
      BY <2>2 DEF Promotes, KeysInv
    <3> QED  BY <2>2, <3>1, <3>2 DEF Promotes, NonceInv
  <2> QED  BY <1>5, <2>1, <2>2, ResponseCases
<1>6. ASSUME NEW m \in Datagrams, OnTransport(m) PROVE NonceInv'
  BY <1>6 DEF OnTransport, NonceInv
<1>7. CASE \E m \in Datagrams : OnDatagram(m)
  BY <1>5, <1>6, <1>7 DEF OnDatagram
<1>8. CASE PowerTransition \/ Rebuild
  BY <1>8 DEF PowerTransition, Rebuild, Zeroed, NonceInv
<1>9. CASE RebuildFails \/ Tick \/ UNCHANGED vars
  BY <1>9 DEF RebuildFails, Tick, vars, session, history, NonceInv
<1> QED
  BY <1>1, <1>3, <1>4, <1>7, <1>8, <1>9 DEF Next

\* Each window stands for exactly the counters accepted under its keypair.
LEMMA WindowStep ==
  TypeOK /\ KeysInv /\ WindowInv /\ [Next]_vars => WindowInv'
<1> SUFFICES ASSUME TypeOK, KeysInv, WindowInv, [Next]_vars PROVE WindowInv'
  OBVIOUS
<1>i. /\ rx_window \in Window /\ prev_window \in Window
      /\ accepted \subseteq Nat \X Nat
      /\ cur.id \in Nat /\ prev.id \in Nat
  BY DEF TypeOK, Handshake
<1>u. ASSUME UNCHANGED <<established, cur, rx_window, have_prev, prev, prev_window,
                         promoted, accepted>>
      PROVE  WindowInv'
  BY <1>u DEF WindowInv, Seen, Counters
<1>1. CASE BuildInitiation
  BY <1>u, <1>1 DEF BuildInitiation
<1>2. CASE TunnelOutput \/ BuildKeepalive
  BY <1>u, <1>2 DEF TunnelOutput, BuildKeepalive, BuildData
<1>5. ASSUME NEW m \in Datagrams, OnResponse(m) PROVE WindowInv'
  <2>1. CASE Spoils
    BY <1>u, <2>1 DEF Spoils
  <2>2. CASE Promotes(m)
    <3>1. cur'.id = pending.id
      BY <2>2 DEF Promotes, TypeOK, Handshake
    <3>2. \A n \in accepted : n[1] # pending.id
      BY <2>2 DEF Promotes, KeysInv, WindowInv
    <3>3. Counters(accepted, pending.id) = {}
      BY <3>2, CountersNone
    <3>4. Represents(rx_window', Seen(cur.id)')
      BY <2>2, <3>1, <3>3, EmptyRepresents DEF Promotes, Seen
    <3>5. have_prev' => Represents(prev_window', Seen(prev.id)')
      <4>1. CASE established
        BY <2>2, <4>1 DEF Promotes, KeepPrevious, WindowInv, Seen
      <4>2. CASE ~established
        BY <2>2, <4>2 DEF Promotes, KeepPrevious, WindowInv, Seen
      <4> QED  BY <4>1, <4>2
    <3>6. \A n \in accepted' : n[1] \in promoted'
      BY <2>2 DEF Promotes, WindowInv
    <3> QED  BY <3>4, <3>5, <3>6 DEF WindowInv
  <2> QED  BY <1>5, <2>1, <2>2, ResponseCases
<1>6. ASSUME NEW m \in Datagrams, OnTransport(m) PROVE WindowInv'
  <2>0. /\ established /\ established' = established /\ cur' = cur
        /\ promoted' = promoted /\ m.ctr \in Nat
        /\ have_prev' => have_prev /\ ~PrevExpired /\ prev' = prev
    BY <1>6, DatagramType DEF OnTransport
  <2>k. /\ Seen(cur.id) \in SUBSET Nat /\ Represents(rx_window, Seen(cur.id))
        /\ have_prev => /\ Seen(prev.id) \in SUBSET Nat
                        /\ Represents(prev_window, Seen(prev.id))
                        /\ prev.id # cur.id
        /\ cur.id \in promoted /\ (have_prev => prev.id \in promoted)
    BY <1>i, <2>0, CountersAdd DEF Seen, WindowInv, KeysInv
  <2>1. CASE Opens(cur, m) /\ ReplayOk(rx_window, m.ctr)
    <3>1. /\ rx_window' = ReplayMark(rx_window, m.ctr)
          /\ accepted' = accepted \cup {<<cur.id, m.ctr>>}
          /\ have_prev' => prev_window' = prev_window
      BY <1>6, <2>0, <2>1 DEF OnTransport, Opens
    <3>2. Represents(rx_window', Seen(cur.id) \cup {m.ctr})
      BY <1>i, <2>0, <2>1, <2>k, <3>1, MarkRepresents
    <3>3. Seen(cur.id)' = Seen(cur.id) \cup {m.ctr}
      BY <1>i, <2>0, <3>1, CountersAdd DEF Seen
    <3>4. have_prev' => Seen(prev.id)' = Seen(prev.id)
      <4>1. have_prev => <<cur.id, m.ctr>>[1] # prev.id
        BY <2>k
      <4>2. have_prev => Counters(accepted \cup {<<cur.id, m.ctr>>}, prev.id)
                           = Counters(accepted, prev.id)
        BY <4>1, CountersOther
      <4> QED  BY <2>0, <3>1, <4>2 DEF Seen
    <3>5. \A n \in accepted' : n[1] \in promoted'
      <4>1. (\A n \in accepted : n[1] \in promoted) /\ <<cur.id, m.ctr>>[1] \in promoted
        BY <2>k DEF WindowInv
      <4>2. promoted' = promoted
        BY <2>0
      <4> QED  BY <3>1, <4>1, <4>2
    <3>6. Represents(rx_window', Seen(cur.id)')
      BY <3>2, <3>3
    <3>7. have_prev' => Represents(prev_window', Seen(prev.id)')
      <4>1. have_prev' => have_prev /\ prev_window' = prev_window
        BY <2>0, <3>1
      <4>2. have_prev => Represents(prev_window, Seen(prev.id))
        BY <2>k
      <4> QED  BY <3>4, <4>1, <4>2
    <3> QED  BY <3>5, <3>6, <3>7 DEF WindowInv
  <2>2. CASE /\ ~Opens(cur, m) /\ have_prev /\ ~PrevExpired
             /\ Opens(prev, m) /\ ReplayOk(prev_window, m.ctr)
    <3>1. /\ prev_window' = ReplayMark(prev_window, m.ctr)
          /\ accepted' = accepted \cup {<<prev.id, m.ctr>>}
          /\ rx_window' = rx_window /\ prev' = prev
      BY <1>6, <2>2 DEF OnTransport, Opens
    <3>2. Represents(prev_window', Seen(prev.id) \cup {m.ctr})
      BY <1>i, <2>0, <2>2, <2>k, <3>1, MarkRepresents
    <3>3. Seen(prev.id)' = Seen(prev.id) \cup {m.ctr}
      BY <1>i, <2>0, <3>1, CountersAdd DEF Seen
    <3>4. Seen(cur.id)' = Seen(cur.id)
      <4>1. <<prev.id, m.ctr>>[1] # cur.id
        BY <2>2, <2>k
      <4>2. Counters(accepted \cup {<<prev.id, m.ctr>>}, cur.id)
              = Counters(accepted, cur.id)
        BY <4>1, CountersOther
      <4> QED  BY <2>0, <3>1, <4>2 DEF Seen
    <3>5. \A n \in accepted' : n[1] \in promoted'
      BY <2>0, <2>2, <2>k, <3>1 DEF WindowInv
    <3>6. Represents(prev_window', Seen(prev.id)')
      BY <3>2, <3>3
    <3>7. Represents(rx_window', Seen(cur.id)')
      BY <2>k, <3>1, <3>4
    <3> QED  BY <3>5, <3>6, <3>7 DEF WindowInv
  <2>3. CASE /\ ~(Opens(cur, m) /\ ReplayOk(rx_window, m.ctr))
             /\ ~(/\ ~Opens(cur, m) /\ have_prev /\ ~PrevExpired
                  /\ Opens(prev, m) /\ ReplayOk(prev_window, m.ctr))
    <3>1. /\ rx_window' = rx_window /\ accepted' = accepted
          /\ have_prev' => prev_window' = prev_window
      BY <1>6, <2>0, <2>3 DEF OnTransport
    <3> QED  BY <2>0, <2>k, <3>1 DEF WindowInv, Seen
  <2> QED  BY <2>1, <2>2, <2>3
<1>7. CASE \E m \in Datagrams : OnDatagram(m)
  BY <1>5, <1>6, <1>7 DEF OnDatagram
<1>8. CASE PowerTransition \/ Rebuild
  <2>1. established' = FALSE /\ have_prev' = FALSE /\ UNCHANGED <<promoted, accepted>>
    BY <1>8 DEF PowerTransition, Rebuild, Zeroed
  <2> QED  BY <2>1 DEF WindowInv
<1>9. CASE RebuildFails \/ Tick \/ UNCHANGED vars
  BY <1>u, <1>9 DEF RebuildFails, Tick, vars, session, history
<1> QED
  BY <1>1, <1>2, <1>7, <1>8, <1>9 DEF Next

\* The previous keypair is one that was retired at prev_since_ms.
LEMMA RetireStep ==
  TypeOK /\ KeysInv /\ RetireInv /\ [Next]_vars => RetireInv'
<1> SUFFICES ASSUME TypeOK, KeysInv, RetireInv, [Next]_vars PROVE RetireInv'
  OBVIOUS
<1>u. ASSUME UNCHANGED <<established, cur, prev_since_ms, promoted, retired>>,
             have_prev' => have_prev /\ prev' = prev
      PROVE  RetireInv'
  BY <1>u DEF RetireInv
<1>1. CASE BuildInitiation
  BY <1>u, <1>1 DEF BuildInitiation
<1>2. CASE TunnelOutput \/ BuildKeepalive
  BY <1>u, <1>2 DEF TunnelOutput, BuildKeepalive, BuildData
<1>5. ASSUME NEW m \in Datagrams, OnResponse(m) PROVE RetireInv'
  <2>1. CASE Spoils
    BY <1>u, <2>1 DEF Spoils
  <2>2. CASE Promotes(m)
    <3>1. cur'.id = pending.id /\ pending.id \notin promoted
      BY <2>2 DEF Promotes, KeysInv, TypeOK, Handshake
    <3>2. CASE established
      <4>1. /\ prev' = cur /\ prev_since_ms' = now /\ cur.id \in promoted
            /\ retired' = retired \cup {[id |-> cur.id, at |-> now]}
        BY <2>2, <3>2 DEF Promotes, KeepPrevious, KeysInv
      <4>2. ASSUME NEW r \in retired'
            PROVE  r.id \in promoted /\ (r.id = cur.id => r.at = now)
        <5>1. CASE r \in retired
          BY <3>2, <5>1 DEF RetireInv
        <5>2. CASE r = [id |-> cur.id, at |-> now]
          BY <4>1, <5>2
        <5> QED  BY <4>1, <4>2, <5>1, <5>2
      <4> QED  BY <2>2, <3>1, <4>1, <4>2 DEF Promotes, RetireInv
    <3>3. CASE ~established
      BY <2>2, <3>1, <3>3 DEF Promotes, KeepPrevious, RetireInv
    <3> QED  BY <3>2, <3>3
  <2> QED  BY <1>5, <2>1, <2>2, ResponseCases
<1>6. ASSUME NEW m \in Datagrams, OnTransport(m) PROVE RetireInv'
  <2>1. have_prev' => have_prev /\ prev' = prev
    BY <1>6 DEF OnTransport, PrevExpired
  <2> QED  BY <1>u, <1>6, <2>1 DEF OnTransport
<1>7. CASE \E m \in Datagrams : OnDatagram(m)
  BY <1>5, <1>6, <1>7 DEF OnDatagram
<1>8. CASE PowerTransition \/ Rebuild
  <2>1. established' = FALSE /\ have_prev' = FALSE /\ UNCHANGED <<promoted, retired>>
    BY <1>8 DEF PowerTransition, Rebuild, Zeroed
  <2> QED  BY <2>1 DEF RetireInv
<1>9. CASE RebuildFails \/ Tick \/ UNCHANGED vars
  <2>1. UNCHANGED <<established, cur, have_prev, prev, prev_since_ms, promoted, retired>>
    BY <1>9 DEF RebuildFails, Tick, vars, session, history
  <2> QED  BY <1>u, <2>1
<1> QED
  BY <1>1, <1>2, <1>7, <1>8, <1>9 DEF Next

\* IInv holds initially and every step keeps it.
THEOREM Invariance == Spec => []IInv
<1>1. Init => IInv
  <2> SUFFICES ASSUME Init PROVE IInv
    OBVIOUS
  <2>1. NoHandshake \in Handshake /\ NoHandshake.awaiting = FALSE
    BY DEF NoHandshake, Handshake
  <2>2. TypeOK
    BY <2>1, TimersType, EmptyRepresents DEF Init, TypeOK
  <2>3. KeysInv
    BY <2>1 DEF Init, KeysInv
  <2> QED  BY <2>2, <2>3 DEF Init, IInv, NonceInv, WindowInv, RetireInv
<1>2. IInv /\ [Next]_vars => IInv'
  BY TypeStep, KeysStep, NonceStep, WindowStep, RetireStep DEF IInv
<1> QED  BY <1>1, <1>2, PTL DEF Spec

-----------------------------------------------------------------------------
(* What follows from it *)

\* Every variable of the session keeps its range, whatever arrives.
THEOREM TypeCorrect == Spec => []TypeOK
<1>1. IInv => TypeOK
  BY DEF IInv
<1> QED  BY <1>1, Invariance, PTL

\* No nonce is used twice: build_data() always seals with a fresh one.
THEOREM NoncesAreFresh == Spec => []NonceFresh
<1>1. IInv => NonceFresh
  BY DEF IInv, TypeOK, NonceInv, NonceFresh
<1> QED  BY <1>1, Invariance, PTL

\* The windows, and the sets of counters they stand for, are what they should be.
LEMMA SeenTypes ==
  ASSUME IInv
  PROVE  /\ rx_window \in Window /\ prev_window \in Window
         /\ Seen(cur.id) \in SUBSET Nat /\ Seen(prev.id) \in SUBSET Nat
<1>1. /\ rx_window \in Window /\ prev_window \in Window
      /\ cur \in Handshake /\ prev \in Handshake /\ accepted \subseteq Nat \X Nat
  BY DEF IInv, TypeOK
<1>2. cur.id \in Nat /\ prev.id \in Nat
  BY <1>1 DEF Handshake
<1> QED  BY <1>1, <1>2, CountersAdd DEF Seen

\* No counter on_datagram() accepted would pass its window again.
THEOREM NoReplays == Spec => []NoReplay
<1>1. IInv => NoReplay
  <2> SUFFICES ASSUME IInv PROVE NoReplay
    OBVIOUS
  <2>1. /\ rx_window \in Window /\ prev_window \in Window
        /\ Seen(cur.id) \in SUBSET Nat /\ Seen(prev.id) \in SUBSET Nat
    BY SeenTypes
  <2>2. ASSUME established, NEW c \in Seen(cur.id) PROVE ~ReplayOk(rx_window, c)
    <3>1. Represents(rx_window, Seen(cur.id)) /\ c \in Nat
      BY <2>1, <2>2 DEF IInv, WindowInv
    <3> QED  BY <2>1, <2>2, <3>1, OkIffIdeal DEF IdealOk
  <2>3. ASSUME have_prev, NEW c \in Seen(prev.id) PROVE ~ReplayOk(prev_window, c)
    <3>1. Represents(prev_window, Seen(prev.id)) /\ c \in Nat
      BY <2>1, <2>3 DEF IInv, WindowInv
    <3> QED  BY <2>1, <2>3, <3>1, OkIffIdeal DEF IdealOk
  <2> QED  BY <2>2, <2>3 DEF NoReplay
<1> QED  BY <1>1, Invariance, PTL

\* The windows refuse only replays and what is REPLAY_WINDOW or more behind.
THEOREM NoFalseReplays == Spec => []NoFalseReplay
<1>1. IInv => NoFalseReplay
  <2> SUFFICES ASSUME IInv PROVE NoFalseReplay
    OBVIOUS
  <2>1. /\ rx_window \in Window /\ prev_window \in Window
        /\ Seen(cur.id) \in SUBSET Nat /\ Seen(prev.id) \in SUBSET Nat
    BY SeenTypes
  <2>2. \A c \in 0 .. MaxCounter : c \in Nat
    BY BoundAssumption
  <2>3. ASSUME established, NEW c \in Nat, IdealOk(Seen(cur.id), c)
        PROVE  ReplayOk(rx_window, c)
    BY <2>1, <2>3, OkIffIdeal DEF IInv, WindowInv
  <2>4. ASSUME have_prev, NEW c \in Nat, IdealOk(Seen(prev.id), c)
        PROVE  ReplayOk(prev_window, c)
    BY <2>1, <2>4, OkIffIdeal DEF IInv, WindowInv
  <2> QED  BY <2>2, <2>3, <2>4 DEF NoFalseReplay
<1> QED  BY <1>1, Invariance, PTL

\* on_datagram() accepts under no keypair wiped or replaced too long ago.
THEOREM RetiredKeysStayDead == Spec => RetiredKeysDie
<1> DEFINE Dead == \A n \in accepted' \ accepted :
                     /\ n[1] > wiped
                     /\ \A r \in retired : r.id = n[1] => now - r.at <= AWG_PREV_KEEP
<1>1. ASSUME IInv, [Next]_vars PROVE [Dead]_vars
  <2>1. ASSUME NEW m \in Datagrams, OnTransport(m) PROVE Dead
    <3>1. \A n \in accepted' \ accepted :
            \/ n[1] = cur.id
            \/ have_prev /\ ~PrevExpired /\ n[1] = prev.id
      <4>1. \/ accepted' = accepted
            \/ /\ accepted' = accepted \cup {<<m.hs.id, m.ctr>>}
               /\ Opens(cur, m) \/ (have_prev /\ ~PrevExpired /\ Opens(prev, m))
        BY <2>1 DEF OnTransport
      <4>2. /\ Opens(cur, m) => m.hs.id = cur.id
            /\ Opens(prev, m) => m.hs.id = prev.id
        BY DEF Opens
      <4>3. CASE accepted' = accepted
        BY <4>3
      <4>4. CASE accepted' = accepted \cup {<<m.hs.id, m.ctr>>} /\ accepted' # accepted
        <5>1. \A n \in accepted' \ accepted : n[1] = m.hs.id
          BY <4>4
        <5> QED  BY <4>1, <4>2, <4>4, <5>1
      <4> QED  BY <4>1, <4>3, <4>4
    <3>t. now \in Nat /\ prev_since_ms \in Nat /\ AWG_PREV_KEEP \in Nat
      BY <1>1, ClockAssumption DEF IInv, TypeOK
    <3>2. established /\ cur.id > wiped /\ (have_prev => prev.id > wiped)
      <4>1. established
        BY <2>1 DEF OnTransport
      <4> QED  BY <1>1, <4>1 DEF IInv, KeysInv
    <3>3. \A r \in retired : /\ r.id # cur.id
                             /\ have_prev /\ r.id = prev.id => r.at = prev_since_ms
      BY <1>1, <3>2 DEF IInv, RetireInv
    <3>4. have_prev /\ ~PrevExpired => now - prev_since_ms <= AWG_PREV_KEEP
      BY <3>t DEF PrevExpired
    <3> QED  BY <3>1, <3>2, <3>3, <3>4
  <2>2. ASSUME accepted' = accepted PROVE Dead
    BY <2>2
  <2>3. CASE \E m \in Datagrams : OnDatagram(m)
    <3>1. PICK m \in Datagrams : OnDatagram(m)
      BY <2>3
    <3>2. CASE OnResponse(m)
      BY <2>2, <3>2, ResponseCases DEF Promotes, Spoils
    <3> QED  BY <2>1, <3>1, <3>2 DEF OnDatagram
  <2>4. CASE \/ BuildInitiation \/ TunnelOutput \/ BuildKeepalive
             \/ PowerTransition \/ Rebuild \/ RebuildFails \/ Tick
    <3>1. accepted' = accepted
      BY <2>4 DEF BuildInitiation, TunnelOutput, BuildKeepalive, BuildData,
                  PowerTransition, Rebuild, RebuildFails, Tick, history
    <3> QED  BY <2>2, <3>1
  <2> QED  BY <1>1, <2>3, <2>4 DEF Next
<1> QED  BY <1>1, Invariance, PTL DEF Spec, RetiredKeysDie

\* A stamp that has wrapped is no later than the clock it was taken from.
LEMMA StampNotLater ==
  ASSUME NEW t \in Nat
  PROVE  t % ClockWrap \in Nat /\ t % ClockWrap <= t
<1>1. ClockWrap \in Nat /\ ClockWrap > 0
  BY ClockAssumption
<1> QED  BY <1>1

\* A session that has been idle for a keepalive period is due a keepalive, wherever
\* sys_now() wraps and however often it has.
THEOREM IdleIsKeptAlive == Spec => []KeepaliveNeverLate
<1> DEFINE TxInv == established => last_tx_ms <= last_sealed
<1>1. Init => TxInv
  BY DEF Init
<1>2. ASSUME TypeOK, TxInv, [Next]_vars PROVE TxInv'
  <2>i. now \in Nat
    BY <1>2 DEF TypeOK
  <2>1. now % ClockWrap <= now
    BY <2>i, StampNotLater
  <2>2. CASE BuildInitiation
    BY <1>2, <2>2 DEF BuildInitiation
  <2>3. CASE TunnelOutput \/ BuildKeepalive
    <3>1. last_tx_ms' \in {now, now % ClockWrap} /\ last_sealed' = now
      BY <2>3 DEF TunnelOutput, BuildKeepalive, BuildData
    <3>2. last_tx_ms' <= last_sealed'
      BY <2>i, <2>1, <3>1
    <3> QED  BY <3>2
  <2>4. CASE \E m \in Datagrams : OnDatagram(m)
    <3>1. PICK m \in Datagrams : OnDatagram(m)
      BY <2>4
    <3>2. CASE OnResponse(m)
      <4>1. \/ last_tx_ms' = now /\ last_sealed' = now
            \/ UNCHANGED <<established, last_tx_ms, last_sealed>>
        BY <3>2 DEF OnResponse, vars, session, history
      <4>2. ASSUME last_tx_ms' = now, last_sealed' = now PROVE last_tx_ms' <= last_sealed'
        BY <2>i, <4>2
      <4> QED  BY <1>2, <4>1, <4>2
    <3>3. CASE OnTransport(m)
      BY <1>2, <3>3 DEF OnTransport
    <3> QED  BY <3>1, <3>2, <3>3 DEF OnDatagram
  <2>5. CASE PowerTransition \/ Rebuild
    BY <2>5 DEF PowerTransition, Rebuild, Zeroed
  <2>6. CASE Tick \/ RebuildFails \/ UNCHANGED vars
    <3>1. UNCHANGED <<established, last_tx_ms, last_sealed>>
      BY <2>6 DEF Tick, RebuildFails, vars, session, history
    <3> QED  BY <1>2, <3>1
  <2> QED  BY <1>2, <2>2, <2>3, <2>4, <2>5, <2>6 DEF Next
<1>3. ASSUME TypeOK, TxInv PROVE KeepaliveNeverLate
  <2>1. /\ now \in Nat /\ last_tx_ms \in Nat /\ last_sealed \in Nat
        /\ timers.keepalive \in Nat
    BY <1>3 DEF TypeOK
  <2> QED  BY <1>3, <2>1 DEF KeepaliveNeverLate, NeedsKeepalive
<1> HIDE DEF TxInv
<1> QED
  BY <1>1, <1>2, <1>3, TypeCorrect, PTL DEF Spec

-----------------------------------------------------------------------------
(* Refinement *)

\* The session implements AwgChannel: an answer that promotes is Establish, a
\* seal is Seal, an accepted datagram is Deliver, a refused one that finds the
\* previous keypair expired is Forget, and a session thrown away is Close.
THEOREM ImplementsChannel == Spec => ChannelSpec
<1>1. Init => Channel!Init
  BY DEF Init, Channel!Init
<1>2. ASSUME IInv, [Next]_vars PROVE [Channel!Next]_(Channel!vars)
  <2> USE DEF Channel!vars, Channel!Next
  <2>k. /\ established => cur.id \in promoted /\ cur.id # 0
        /\ have_prev => established /\ prev.id # 0 /\ prev.id # cur.id
        /\ cur.id \in Nat /\ prev.id \in Nat /\ 0 \notin promoted
    BY <1>2 DEF IInv, KeysInv, TypeOK, Handshake
  <2>u. ASSUME UNCHANGED <<established, cur, have_prev, prev, promoted,
                           sealed, seals, accepted, deliveries>>
        PROVE  UNCHANGED Channel!vars
    BY <2>u
  <2>1. CASE BuildInitiation
    BY <2>u, <2>1 DEF BuildInitiation
  <2>2. CASE TunnelOutput \/ BuildKeepalive
    <3>1. /\ established /\ sealed' = sealed \cup {<<cur.id, tx_counter>>}
          /\ seals' = seals + 1
          /\ UNCHANGED <<established, cur, have_prev, prev, promoted,
                         accepted, deliveries>>
      BY <2>2 DEF TunnelOutput, BuildKeepalive, BuildData
    <3>2. <<cur.id, tx_counter>> \notin sealed
      <4>1. tx_counter \in Nat
        BY <1>2 DEF IInv, TypeOK
      <4> QED  BY <1>2, <3>1, <4>1 DEF IInv, NonceInv
    <3>3. <<cur.id, tx_counter>>[1] = cur.id
      OBVIOUS
    <3> QED  BY <2>k, <3>1, <3>2, <3>3 DEF Channel!Seal
  <2>3. ASSUME NEW m \in Datagrams, OnResponse(m)
        PROVE  [Channel!Next]_(Channel!vars)
    <3>1. CASE Spoils
      BY <2>u, <3>1 DEF Spoils
    <3>2. CASE Promotes(m)
      <4>1. cur'.id = pending.id
        BY <1>2, <3>2 DEF Promotes, IInv, TypeOK, Handshake
      <4>2. pending.id \notin promoted /\ pending.id # 0
        BY <1>2, <3>2 DEF Promotes, IInv, TypeOK, KeysInv
      <4>3. IF established THEN have_prev' /\ prev' = cur ELSE ~have_prev'
        BY <2>k, <3>2 DEF Promotes, KeepPrevious
      <4> QED  BY <2>k, <3>2, <4>1, <4>2, <4>3 DEF Promotes, Channel!Establish
    <3> QED  BY <2>3, <3>1, <3>2, ResponseCases
  <2>4. ASSUME NEW m \in Datagrams, OnTransport(m)
        PROVE  [Channel!Next]_(Channel!vars)
    <3>0. /\ established /\ UNCHANGED <<established, cur, promoted, sealed, seals>>
          /\ have_prev' = (have_prev /\ ~PrevExpired)
          /\ have_prev' => prev' = prev
      BY <2>4 DEF OnTransport
    <3>1. CASE accepted' = accepted /\ deliveries' = deliveries
      BY <2>k, <3>0, <3>1 DEF Channel!Forget
    <3>2. CASE ~(accepted' = accepted /\ deliveries' = deliveries)
      <4>1. \/ /\ Opens(cur, m) /\ ReplayOk(rx_window, m.ctr)
            \/ /\ ~Opens(cur, m) /\ have_prev /\ ~PrevExpired
               /\ Opens(prev, m) /\ ReplayOk(prev_window, m.ctr)
        BY <2>4, <3>2 DEF OnTransport
      <4>2. /\ accepted' = accepted \cup {<<m.hs.id, m.ctr>>}
            /\ deliveries' = deliveries + 1
        BY <2>4, <4>1 DEF OnTransport
      <4>3. \/ m.hs.id = cur.id
            \/ have_prev' /\ m.hs.id = prev'.id
        BY <3>0, <4>1 DEF Opens
      <4>4. <<m.hs.id, m.ctr>> \notin accepted
        <5>1. m.ctr \in Nat
          BY <1>2, DatagramType DEF IInv
        <5>2. m.ctr \notin Seen(m.hs.id)
          <6>0. /\ rx_window \in Window /\ prev_window \in Window
                /\ Seen(cur.id) \in SUBSET Nat /\ Seen(prev.id) \in SUBSET Nat
            BY <1>2, SeenTypes
          <6>1. CASE Opens(cur, m) /\ ReplayOk(rx_window, m.ctr)
            <7>1. IdealOk(Seen(cur.id), m.ctr)
              BY <1>2, <3>0, <5>1, <6>0, <6>1, OkIffIdeal DEF IInv, WindowInv
            <7> QED  BY <6>1, <7>1 DEF IdealOk, Opens
          <6>2. CASE have_prev /\ Opens(prev, m) /\ ReplayOk(prev_window, m.ctr)
            <7>1. IdealOk(Seen(prev.id), m.ctr)
              BY <1>2, <5>1, <6>0, <6>2, OkIffIdeal DEF IInv, WindowInv
            <7> QED  BY <6>2, <7>1 DEF IdealOk, Opens
          <6> QED  BY <4>1, <6>1, <6>2
        <5>3. <<m.hs.id, m.ctr>>[1] = m.hs.id /\ <<m.hs.id, m.ctr>>[2] = m.ctr
          OBVIOUS
        <5> QED  BY <5>2, <5>3 DEF Seen, Counters
      <4>5. <<m.hs.id, m.ctr>>[1] = m.hs.id
        OBVIOUS
      <4> QED  BY <2>k, <3>0, <4>2, <4>3, <4>4, <4>5 DEF Channel!Deliver
    <3> QED  BY <3>1, <3>2
  <2>5. CASE \E m \in Datagrams : OnDatagram(m)
    BY <2>3, <2>4, <2>5 DEF OnDatagram
  <2>6. CASE PowerTransition \/ Rebuild
    <3>1. /\ established' = FALSE /\ have_prev' = FALSE
          /\ UNCHANGED <<promoted, sealed, seals, accepted, deliveries>>
      BY <2>6 DEF PowerTransition, Rebuild, Zeroed
    <3> QED  BY <3>1 DEF Channel!Close
  <2>7. CASE RebuildFails \/ Tick \/ UNCHANGED vars
    BY <2>u, <2>7 DEF RebuildFails, Tick, vars, session, history
  <2> QED  BY <1>2, <2>1, <2>2, <2>5, <2>6, <2>7 DEF Next
<1> QED  BY <1>1, <1>2, Invariance, PTL DEF Spec, ChannelSpec, Channel!Spec

-----------------------------------------------------------------------------
(* The main loop                                                            *)

\* Every step of the loop is a step of the session or leaves the session alone.
LEMMA LoopStep == [TunnelNext]_tunnelVars => [Next]_vars
<1> SUFFICES ASSUME [TunnelNext]_tunnelVars PROVE [Next]_vars
  OBVIOUS
<1>1. CASE PowerCheck
  <2>1. CASE OnTransition
    BY <2>1 DEF OnTransition, Next
  <2> QED  BY <1>1, <2>1 DEF PowerCheck
<1>2. CASE RebuildCheck
  <2>1. CASE SocketFails
    BY <2>1 DEF SocketFails, Next
  <2>2. CASE SocketOpens
    BY <2>2 DEF SocketOpens, Next
  <2> QED  BY <1>2, <2>1, <2>2 DEF RebuildCheck
<1>3. CASE Send
  BY <1>3 DEF Send, Next
<1>4. CASE BringUp
  BY <1>4 DEF BringUp
<1>5. CASE Wait
  BY <1>5 DEF Wait
<1>6. CASE Drain
  BY <1>6 DEF Drain, Next
<1>7. CASE Output
  BY <1>7 DEF Output, Next
<1>8. CASE PassOver
  BY <1>8 DEF PassOver
<1>9. CASE Elapse
  BY <1>9 DEF Elapse, Next
<1>10. CASE Fault
  BY <1>10 DEF Fault
<1>11. CASE UNCHANGED tunnelVars
  BY <1>11 DEF tunnelVars
<1> QED
  BY <1>1, <1>2, <1>3, <1>4, <1>5, <1>6, <1>7, <1>8, <1>9, <1>10, <1>11 DEF TunnelNext

\* The main loop uses the session as AwgSession says it may be used: every
\* behaviour of the loop is one of the session's.
THEOREM LoopRunsSession == TunnelSpec => SessionSpec
<1>1. TunnelInit => Init
  BY DEF TunnelInit
<1> QED  BY <1>1, LoopStep, PTL DEF TunnelSpec, SessionSpec, Spec

\* Hence the session's inductive invariant holds in the loop.
LEMMA SessionInvariant == TunnelSpec => []IInv
<1>1. SessionSpec => []IInv
  BY Invariance DEF SessionSpec
<1> QED  BY <1>1, LoopRunsSession, PTL

-----------------------------------------------------------------------------
(* What a step of the session may do to the state the loop relies on *)

\* Steps of the session other than its creation and destruction leave the socket
\* alone, never forget a keypair that was current, and make current only one
\* that was not.
Within ==
  /\ now' = now /\ socket' = socket
  /\ promoted \subseteq promoted'
  /\ established' => \/ established /\ cur'.id = cur.id
                     \/ cur'.id \notin promoted

\* awg_session_build_data() stays within the session.
LEMMA SealWithin == ASSUME NEW stamp, BuildData(stamp) PROVE Within
BY DEF BuildData, Within

\* So does awg_session_build_initiation().
LEMMA InitiationWithin == ASSUME BuildInitiation PROVE Within
BY DEF BuildInitiation, Within

\* And so does awg_session_on_datagram(): a response is consumed once only.
LEMMA DatagramWithin ==
  ASSUME IInv, NEW m \in Datagrams, OnDatagram(m) PROVE Within
<1> USE DEF Within
<1>1. CASE OnTransport(m)
  BY <1>1 DEF OnTransport
<1>2. CASE OnResponse(m)
  <2>1. CASE Spoils
    BY <2>1 DEF Spoils
  <2>2. CASE Promotes(m)
    <3>1. pending \in Handshake /\ (pending.awaiting => pending.id \notin promoted)
      BY DEF IInv, TypeOK, KeysInv
    <3> QED  BY <2>2, <3>1 DEF Promotes, Handshake
  <2> QED  BY <1>2, <2>1, <2>2, ResponseCases
<1> QED  BY <1>1, <1>2 DEF OnDatagram

-----------------------------------------------------------------------------
(* The inductive invariant *)

\* The part of TunnelInv that speaks of the session survives any step within it
\* that leaves the loop's own variables alone.
LEMMA WithinStep ==
  ASSUME TunnelInv, IInv, Within, slept' = slept, fd' = fd,
         tunnel_lost => tunnel_lost'
  PROVE  /\ NoSessionSurvivesSleep'
         /\ slept' \subseteq promoted'
         /\ now' = now /\ (socket' <=> fd' # 0)
BY DEF TunnelInv, NoSessionSurvivesSleep, NeverStranded, Within

\* The Boolean part of the type invariant.
Flags ==
  /\ dead \in BOOLEAN /\ link \in BOOLEAN /\ tunnel_lost \in BOOLEAN
  /\ netif_up \in BOOLEAN /\ listening \in BOOLEAN /\ transition \in BOOLEAN

Steps == {"power", "rebuild", "send", "bringup", "wait", "drain"}

\* The rest of it.
Numbers ==
  /\ sockets \in Nat /\ fd \in 0 .. sockets /\ g_fd \in 0 .. sockets
  /\ next_rebuild \in Nat /\ next_power \in Nat /\ faults \in Nat /\ quiet_since \in Nat
  /\ unreachable_since \in Nat \cup {Never} /\ last_attempt \in Nat \cup {Never}
  /\ slept \subseteq Nat

\* The type invariant has these three parts.
LEMMA TypeParts == TunnelTypeOK <=> pc \in Steps /\ Flags /\ Numbers
BY DEF TunnelTypeOK, Steps, Flags, Numbers

LEMMA TypePartsNext == TunnelTypeOK' <=> pc' \in Steps /\ Flags' /\ Numbers'
BY DEF TunnelTypeOK, Steps, Flags, Numbers

\* A step that keeps the session, the socket, the plan and the wait for a network
\* as they are preserves TunnelInv, whatever else of the loop it changes.
LEMMA LoopStands ==
  ASSUME IInv, TunnelInv, Flags', pc' \in Steps,
         next_power' \in Nat, faults' \in Nat, g_fd' \in 0 .. sockets,
         netif_up' /\ fd # 0 => g_fd' = fd,
         UNCHANGED <<now, socket, established, cur, promoted>>,
         UNCHANGED <<sockets, fd, slept, tunnel_lost>>,
         UNCHANGED <<quiet_since, unreachable_since, last_attempt, next_rebuild>>
  PROVE  TunnelInv'
<1>1. TunnelTypeOK'
  <2>1. Numbers
    BY TypeParts DEF TunnelInv
  <2>2. Numbers'
    BY <2>1 DEF Numbers
  <2> QED  BY <2>2, TypePartsNext
<1>2. NeverStranded'
  BY DEF TunnelInv, NeverStranded
<1>3. StackUsesTheSocket'
  BY DEF StackUsesTheSocket
<1>4. NoSessionSurvivesSleep' /\ slept' \subseteq promoted'
  BY DEF TunnelInv, NoSessionSurvivesSleep
<1>5. TimesInv'
  BY DEF TunnelInv, TimesInv
<1> QED  BY <1>1, <1>2, <1>3, <1>4, <1>5 DEF TunnelInv

\* Every step of a pass, and of the world around it, preserves TunnelInv.
LEMMA TunnelStep ==
  IInv /\ TunnelInv /\ [TunnelNext]_tunnelVars => TunnelInv'
<1> SUFFICES ASSUME IInv, TunnelInv, [TunnelNext]_tunnelVars PROVE TunnelInv'
  OBVIOUS
<1>n. Never \notin Nat
  BY DEF Never
<1>t. now \in Nat /\ promoted \subseteq Nat /\ socket \in BOOLEAN /\ established \in BOOLEAN
  BY DEF IInv, TypeOK
<1>i. /\ sockets \in Nat /\ fd \in 0 .. sockets /\ g_fd \in 0 .. sockets
      /\ next_power \in Nat /\ faults \in Nat /\ pc \in Steps /\ quiet_since \in Nat
      /\ next_rebuild \in Nat
      /\ last_attempt \in Nat \cup {Never} /\ unreachable_since \in Nat \cup {Never}
  BY DEF TunnelInv, TunnelTypeOK, Steps
<1>f. Flags /\ (netif_up /\ fd # 0 => g_fd = fd)
  BY DEF TunnelInv, TunnelTypeOK, Flags, StackUsesTheSocket
<1>a. /\ next_rebuild = IF last_attempt = Never THEN 0 ELSE last_attempt + REBUILD_SPACING
      /\ quiet_since <= now
      /\ unreachable_since # Never => unreachable_since \in quiet_since .. now
  BY DEF TunnelInv, TimesInv
<1>b. (fd = 0 => tunnel_lost) /\ next_rebuild <= now + REBUILD_SPACING /\ (socket <=> fd # 0)
  BY DEF TunnelInv, NeverStranded
<1>r. now \in Nat /\ now + REBUILD_SPACING \in Nat /\ now + POWER_EVERY \in Nat
  BY <1>t, TunnelAssumption
<1>s. Numbers /\ slept \subseteq promoted
  BY TypeParts DEF TunnelInv
<1>1. CASE PowerCheck
  <2>0. /\ pc' = "rebuild"
        /\ next_power' = IF now >= next_power THEN now + POWER_EVERY ELSE next_power
        /\ UNCHANGED <<sockets, dead, link, next_rebuild, netif_up, faults, last_attempt>>
    BY <1>1 DEF PowerCheck
  <2>p. next_power' \in Nat /\ pc' \in Steps
    BY <2>0, <1>i, <1>r DEF Steps
  <2>q. UNCHANGED <<sockets, next_rebuild, faults, last_attempt, netif_up>>
    BY <2>0
  <2>1. CASE UNCHANGED <<vars, fd, g_fd, listening, tunnel_lost, transition,
                         unreachable_since, quiet_since, slept>>
    <3>1. UNCHANGED <<now, socket, established, cur, promoted>>
      BY <2>1 DEF vars, session, history
    <3>2. Flags'
      BY <2>0, <2>1, <1>f DEF Flags
    <3> QED  BY <2>0, <2>p, <2>1, <3>1, <3>2, <1>i, <1>f, LoopStands
  <2>2. CASE OnTransition
    <3>1. /\ transition' = FALSE /\ unreachable_since' = Never
          /\ quiet_since' = now /\ slept' = promoted
      BY <2>2 DEF OnTransition
    <3>n. /\ quiet_since' \in Nat /\ slept' \subseteq Nat
          /\ unreachable_since' \in Nat \cup {Never}
      BY <3>1, <1>t
    <3>2. CASE established /\ ~tunnel_lost
      <4>1. /\ fd' = 0 /\ g_fd' = 0 /\ listening' = FALSE /\ tunnel_lost' = TRUE
            /\ socket' = FALSE /\ now' = now /\ promoted' = promoted
        BY <2>2, <3>2 DEF OnTransition, PowerTransition
      <4>2. Flags'
        BY <2>0, <3>1, <4>1, <1>f DEF Flags
      <4>3. TunnelTypeOK'
        <5>1. Numbers'
          <6>1. fd' \in 0 .. sockets' /\ g_fd' \in 0 .. sockets'
            BY <2>q, <4>1, <1>s DEF Numbers
          <6> QED  BY <2>p, <2>q, <3>n, <6>1, <1>s DEF Numbers
        <5> QED  BY <2>p, <4>2, <5>1, TypePartsNext
      <4>4. NeverStranded' /\ StackUsesTheSocket' /\ NoSessionSurvivesSleep'
        BY <2>q, <4>1, <1>b DEF NeverStranded, StackUsesTheSocket, NoSessionSurvivesSleep
      <4>5. TimesInv' /\ slept' \subseteq promoted'
        <5>1. TimesInv'
          <6>1. now' = now /\ now <= now
            BY <4>1, <1>r
          <6> QED  BY <2>q, <3>1, <6>1, <1>a DEF TimesInv
        <5> QED  BY <3>1, <4>1, <5>1
      <4> QED  BY <4>3, <4>4, <4>5 DEF TunnelInv
    <3>3. CASE ~(established /\ ~tunnel_lost)
      <4>0. UNCHANGED <<vars, fd, g_fd, listening, tunnel_lost>>
        BY <2>2, <3>3 DEF OnTransition
      <4>1. UNCHANGED <<now, socket, established, cur, promoted>>
        BY <4>0 DEF vars, session, history
      <4>2. Flags'
        BY <2>0, <3>1, <4>0, <1>f DEF Flags
      <4>3. TunnelTypeOK'
        <5>1. Numbers'
          BY <2>p, <2>q, <3>n, <4>0, <1>s DEF Numbers
        <5> QED  BY <2>p, <4>2, <5>1, TypePartsNext
      <4>4. NeverStranded' /\ StackUsesTheSocket'
        BY <2>q, <4>0, <4>1, <1>b, <1>f DEF NeverStranded, StackUsesTheSocket
      <4>5. NoSessionSurvivesSleep'
        <5>1. established' => tunnel_lost'
          BY <3>3, <4>0, <4>1, <1>t, <1>f DEF Flags
        <5> QED  BY <5>1 DEF NoSessionSurvivesSleep
      <4>6. TimesInv' /\ slept' \subseteq promoted'
        <5>1. TimesInv'
          <6>1. now' = now /\ now <= now
            BY <4>1, <1>r
          <6> QED  BY <2>q, <3>1, <6>1, <1>a DEF TimesInv
        <5> QED  BY <3>1, <4>1, <5>1
      <4> QED  BY <4>3, <4>4, <4>5, <4>6 DEF TunnelInv
    <3> QED  BY <3>2, <3>3
  <2> QED  BY <1>1, <2>1, <2>2 DEF PowerCheck
<1>2. CASE RebuildCheck
  <2>0. /\ pc' = "send" /\ pc' \in Steps
        /\ UNCHANGED <<link, next_power, netif_up, transition, faults, slept>>
    BY <1>2 DEF RebuildCheck, Steps
  <2>1. CASE tunnel_lost /\ now >= next_rebuild /\ SocketFails
    <3>1. /\ next_rebuild' = now + REBUILD_SPACING /\ last_attempt' = now
          /\ fd' = 0 /\ listening' = FALSE /\ tunnel_lost'
          /\ UNCHANGED <<sockets, g_fd, dead, tunnel_lost, unreachable_since, quiet_since>>
      BY <1>2, <2>1 DEF RebuildCheck, SocketFails
    <3>2. socket' = FALSE /\ UNCHANGED <<now, established, cur, promoted>>
      BY <2>1 DEF SocketFails, RebuildFails, session, history
    <3>3. Flags'
      BY <2>0, <3>1, <1>f DEF Flags
    <3>4. TunnelTypeOK'
      <4>1. Numbers'
        <5>1. fd' \in 0 .. sockets' /\ slept' \subseteq Nat
          BY <2>0, <3>1, <1>s DEF Numbers
        <5>2. next_rebuild' \in Nat /\ last_attempt' \in Nat \cup {Never}
          BY <3>1, <1>r
        <5>3. UNCHANGED <<sockets, g_fd, next_power, faults, quiet_since, unreachable_since>>
          BY <2>0, <3>1
        <5> QED  BY <5>1, <5>2, <5>3, <1>s DEF Numbers
      <4> QED  BY <2>0, <3>3, <4>1, TypePartsNext
    <3>5. NeverStranded'
      BY <3>1, <3>2, <1>r DEF NeverStranded
    <3>6. StackUsesTheSocket' /\ NoSessionSurvivesSleep' /\ slept' \subseteq promoted'
      BY <2>0, <3>1, <3>2 DEF TunnelInv, StackUsesTheSocket, NoSessionSurvivesSleep
    <3>7. TimesInv'
      BY <3>1, <3>2, <1>r, <1>n, <1>a DEF TimesInv
    <3> QED  BY <3>4, <3>5, <3>6, <3>7 DEF TunnelInv
  <2>2. CASE tunnel_lost /\ now >= next_rebuild /\ SocketOpens
    <3>1. /\ next_rebuild' = now + REBUILD_SPACING /\ last_attempt' = now
          /\ sockets' = sockets + 1 /\ fd' = sockets' /\ g_fd' = fd'
          /\ dead' = FALSE /\ tunnel_lost' = FALSE
          /\ unreachable_since' = Never /\ quiet_since' = now
          /\ listening' \in {FALSE, netif_up}
      BY <1>2, <2>2 DEF RebuildCheck, SocketOpens
    <3>2. now' = now /\ socket' = TRUE /\ established' = FALSE /\ promoted' = promoted
      BY <2>2 DEF SocketOpens, Rebuild, Zeroed
    <3>3. Flags'
      BY <2>0, <3>1, <1>f DEF Flags
    <3>4. fd' # 0 /\ fd' \in 0 .. sockets' /\ sockets' \in Nat
      BY <3>1, <1>i
    <3>5. TunnelTypeOK'
      <4>1. Numbers'
        <5>1. slept' \subseteq Nat
          BY <2>0, <1>s DEF Numbers
        <5> QED  BY <2>0, <3>1, <3>4, <5>1, <1>r, <1>s DEF Numbers
      <4> QED  BY <2>0, <3>3, <4>1, TypePartsNext
    <3>6. NeverStranded'
      <4>1. next_rebuild' <= now' + REBUILD_SPACING
        BY <3>1, <3>2, <1>r
      <4> QED  BY <3>2, <3>4, <4>1 DEF NeverStranded
    <3>7. StackUsesTheSocket' /\ NoSessionSurvivesSleep' /\ slept' \subseteq promoted'
      BY <2>0, <3>1, <3>2, <1>s DEF StackUsesTheSocket, NoSessionSurvivesSleep
    <3>8. TimesInv'
      BY <3>1, <3>2, <1>r, <1>n DEF TimesInv
    <3> QED  BY <3>5, <3>6, <3>7, <3>8 DEF TunnelInv
  <2>3. CASE ~(tunnel_lost /\ now >= next_rebuild)
    <3>1. UNCHANGED <<vars, fd, sockets, g_fd, dead, tunnel_lost, listening,
                      unreachable_since, quiet_since, next_rebuild, last_attempt>>
      BY <1>2, <2>3 DEF RebuildCheck
    <3>2. UNCHANGED <<now, socket, established, cur, promoted>>
      BY <3>1 DEF vars, session, history
    <3>3. Flags'
      BY <2>0, <3>1, <1>f DEF Flags
    <3> QED  BY <2>0, <3>1, <3>2, <3>3, <1>i, <1>f, LoopStands
  <2> QED  BY <1>2, <2>1, <2>2, <2>3 DEF RebuildCheck
<1>3. CASE Send
  <2>1. Within
    <3>1. CASE BuildInitiation
      BY <3>1, InitiationWithin
    <3>2. CASE BuildKeepalive
      BY <3>2, SealWithin DEF BuildKeepalive
    <3>3. CASE UNCHANGED vars
      BY <3>3 DEF vars, session, history, Within
    <3> QED  BY <1>3, <3>1, <3>2, <3>3 DEF Send
  <2>2. /\ tunnel_lost' \in BOOLEAN /\ (tunnel_lost => tunnel_lost')
        /\ quiet_since' \in {quiet_since, now}
        /\ \/ unreachable_since' = unreachable_since /\ quiet_since' = quiet_since
           \/ unreachable_since' = Never
           \/ unreachable_since' = now /\ quiet_since' = quiet_since
    BY <1>3 DEF Send, SendAnswer, Refused, TunnelInv, TunnelTypeOK
  <2>3. UNCHANGED <<fd, sockets, g_fd, dead, link, next_rebuild, next_power, netif_up,
                    listening, transition, faults, last_attempt, slept>>
    BY <1>3 DEF Send
  <2>4. pc' = "bringup"
    BY <1>3 DEF Send
  <2>5. /\ NoSessionSurvivesSleep' /\ slept' \subseteq promoted'
        /\ now' = now /\ (socket' <=> fd' # 0)
    BY <2>1, <2>2, <2>3, WithinStep
  <2>6. TunnelTypeOK'
    <3>1. Numbers'
      BY <1>t, <1>n, <1>s, <2>2, <2>3 DEF Numbers
    <3>2. Flags' /\ pc' \in Steps
      BY <1>f, <2>2, <2>3, <2>4 DEF Flags, Steps
    <3> QED  BY <3>1, <3>2, TypePartsNext
  <2>7. NeverStranded' /\ StackUsesTheSocket'
    BY <2>2, <2>3, <2>5 DEF TunnelInv, NeverStranded, StackUsesTheSocket
  <2>8. /\ quiet_since' <= now'
        /\ unreachable_since' # Never => unreachable_since' \in quiet_since' .. now'
    <3>1. quiet_since \in Nat /\ now' = now /\ now \in Nat
      BY <1>i, <1>t, <2>5
    <3>2. quiet_since' \in {quiet_since, now}
      BY <2>2
    <3>3. quiet_since' <= now'
      BY <1>a, <3>1, <3>2
    <3>4. CASE unreachable_since' = unreachable_since /\ quiet_since' = quiet_since
      BY <1>a, <3>1, <3>3, <3>4
    <3>5. CASE unreachable_since' = now /\ quiet_since' = quiet_since
      BY <3>1, <3>3, <3>5
    <3> QED  BY <2>2, <3>3, <3>4, <3>5
  <2>9. TimesInv'
    BY <1>a, <2>3, <2>8 DEF TimesInv
  <2> QED  BY <2>5, <2>6, <2>7, <2>9 DEF TunnelInv
<1>4. CASE BringUp
  <2>1. /\ pc' = "wait" /\ g_fd' \in {g_fd, fd} /\ (netif_up' # netif_up => g_fd' = fd)
        /\ netif_up' \in {TRUE, netif_up} /\ listening' \in BOOLEAN \cup {listening}
        /\ UNCHANGED <<vars, fd, sockets, dead, link, tunnel_lost, next_rebuild,
                       unreachable_since, next_power, transition, faults,
                       last_attempt, quiet_since, slept>>
    BY <1>4 DEF BringUp
  <2>2. UNCHANGED <<now, socket, established, cur, promoted>>
    BY <2>1 DEF vars, session, history
  <2>3. Flags'
    BY <2>1, <1>f DEF Flags
  <2>g. (g_fd' = g_fd /\ netif_up' = netif_up) \/ g_fd' = fd
    BY <2>1
  <2>4. g_fd' \in 0 .. sockets /\ (netif_up' /\ fd # 0 => g_fd' = fd) /\ pc' \in Steps
    <3>1. g_fd' \in 0 .. sockets
      BY <2>g, <1>i
    <3>2. pc' \in Steps
      BY <2>1 DEF Steps
    <3> QED  BY <2>g, <1>f, <3>1, <3>2
  <2>5. next_power' \in Nat /\ faults' \in Nat
    BY <2>1, <1>i
  <2> QED  BY <2>1, <2>2, <2>3, <2>4, <2>5, LoopStands
<1>5. CASE Wait
  <2>1. /\ pc' = "drain" /\ (tunnel_lost' = tunnel_lost \/ tunnel_lost' = TRUE)
        /\ UNCHANGED <<vars, fd, sockets, g_fd, dead, link, unreachable_since, next_power,
                       netif_up, listening, transition, faults, last_attempt,
                       quiet_since, slept, next_rebuild>>
    BY <1>5 DEF Wait, Detect
  <2>2. UNCHANGED <<now, socket, established, cur, promoted>>
    BY <2>1 DEF vars, session, history
  <2>3. Flags' /\ (tunnel_lost => tunnel_lost')
    BY <2>1, <1>f DEF Flags
  <2>4. TunnelTypeOK'
    <3>1. Numbers'
      BY <2>1, <1>s DEF Numbers
    <3>2. pc' \in Steps
      BY <2>1 DEF Steps
    <3> QED  BY <2>3, <3>1, <3>2, TypePartsNext
  <2>5. NeverStranded' /\ StackUsesTheSocket'
    BY <2>1, <2>2, <2>3 DEF TunnelInv, NeverStranded, StackUsesTheSocket
  <2>6. NoSessionSurvivesSleep' /\ slept' \subseteq promoted'
    BY <2>1, <2>2, <2>3 DEF TunnelInv, NoSessionSurvivesSleep
  <2>7. TimesInv'
    BY <2>1, <2>2 DEF TunnelInv, TimesInv
  <2> QED  BY <2>4, <2>5, <2>6, <2>7 DEF TunnelInv
<1>6. CASE Drain \/ Output
  <2>1. Within
    BY <1>6, DatagramWithin, SealWithin DEF Drain, Output, TunnelOutput
  <2>2. UNCHANGED loop
    BY <1>6 DEF Drain, Output
  <2>3. /\ NoSessionSurvivesSleep' /\ slept' \subseteq promoted'
        /\ now' = now /\ (socket' <=> fd' # 0)
    BY <2>1, <2>2, WithinStep DEF loop
  <2>4. UNCHANGED <<fd, g_fd, netif_up, tunnel_lost, next_rebuild, last_attempt,
                    quiet_since, unreachable_since>>
    BY <2>2 DEF loop
  <2>5. TunnelTypeOK'
    <3>1. Numbers'
      BY <2>2, <1>s DEF Numbers, loop
    <3>2. Flags' /\ pc' \in Steps
      BY <2>2, <1>f, <1>i DEF Flags, loop
    <3> QED  BY <3>1, <3>2, TypePartsNext
  <2>6. NeverStranded' /\ StackUsesTheSocket'
    BY <2>3, <2>4 DEF TunnelInv, NeverStranded, StackUsesTheSocket
  <2>7. TimesInv'
    BY <1>a, <2>3, <2>4 DEF TimesInv
  <2> QED  BY <2>3, <2>5, <2>6, <2>7 DEF TunnelInv
<1>7. CASE PassOver
  <2>1. /\ pc' = "power"
        /\ UNCHANGED <<vars, fd, sockets, g_fd, dead, link, tunnel_lost, next_rebuild,
                       unreachable_since, next_power, netif_up, listening, transition,
                       faults, last_attempt, quiet_since, slept>>
    BY <1>7 DEF PassOver
  <2>2. UNCHANGED <<now, socket, established, cur, promoted>>
    BY <2>1 DEF vars, session, history
  <2>3. Flags' /\ pc' \in Steps
    BY <2>1, <1>f DEF Flags, Steps
  <2> QED  BY <2>1, <2>2, <2>3, <1>i, <1>f, LoopStands
<1>8. CASE Elapse
  <2>1. UNCHANGED loop /\ now' = now + 1
    BY <1>8 DEF Elapse, Tick
  <2>2. UNCHANGED <<socket, established, cur, promoted>>
    BY <1>8 DEF Elapse, Tick, session, history
  <2>3. TunnelTypeOK'
    <3>1. Numbers'
      BY <2>1, <1>s DEF Numbers, loop
    <3>2. Flags' /\ pc' \in Steps
      BY <2>1, <1>f, <1>i DEF Flags, loop
    <3> QED  BY <3>1, <3>2, TypePartsNext
  <2>l. UNCHANGED <<fd, g_fd, netif_up, tunnel_lost, next_rebuild, last_attempt,
                    quiet_since, unreachable_since, slept>>
    BY <2>1 DEF loop
  <2>4. NeverStranded'
    <3>1. next_rebuild' <= now' + REBUILD_SPACING
      <4>1. next_rebuild \in Nat
        BY <1>i
      <4>2. next_rebuild' = next_rebuild /\ next_rebuild <= now + REBUILD_SPACING
        BY <2>l, <1>b
      <4> QED  BY <2>1, <1>t, <4>1, <4>2, TunnelAssumption
    <3> QED  BY <2>2, <2>l, <3>1, <1>b DEF NeverStranded
  <2>5. StackUsesTheSocket' /\ NoSessionSurvivesSleep' /\ slept' \subseteq promoted'
    BY <2>2, <2>l DEF TunnelInv, StackUsesTheSocket, NoSessionSurvivesSleep
  <2>6. TimesInv'
    <3>1. quiet_since \in Nat /\ unreachable_since \in Nat \cup {Never}
      BY <1>i
    <3>2. /\ quiet_since <= now'
          /\ unreachable_since # Never => unreachable_since \in quiet_since .. now'
      BY <2>1, <3>1, <1>a, <1>t
    <3> QED  BY <2>l, <3>2, <1>a DEF TimesInv
  <2> QED  BY <2>3, <2>4, <2>5, <2>6 DEF TunnelInv
<1>9. CASE Fault
  <2>1. link' \in BOOLEAN /\ dead' \in BOOLEAN /\ transition' \in BOOLEAN
    BY <1>9, <1>f DEF Fault, Flags
  <2>2. UNCHANGED <<vars, pc, fd, sockets, g_fd, tunnel_lost, next_rebuild,
                    unreachable_since, next_power, netif_up, listening,
                    last_attempt, quiet_since, slept>> /\ faults' = faults + 1
    BY <1>9 DEF Fault
  <2>3. UNCHANGED <<now, socket, established, cur, promoted>>
    BY <2>2 DEF vars, session, history
  <2>4. Flags' /\ pc' \in Steps
    BY <2>1, <2>2, <1>f, <1>i DEF Flags
  <2>5. faults' \in Nat
    BY <2>2, <1>i
  <2> QED  BY <2>2, <2>3, <2>4, <2>5, <1>i, <1>f, LoopStands
<1>10. CASE UNCHANGED tunnelVars
  <2>1. UNCHANGED <<now, socket, established, cur, promoted>>
    BY <1>10 DEF tunnelVars, vars, session, history
  <2>2. UNCHANGED loop
    BY <1>10 DEF tunnelVars
  <2>3. Flags' /\ pc' \in Steps
    BY <2>2, <1>f, <1>i DEF loop, Flags
  <2> QED  BY <2>1, <2>2, <2>3, <1>i, <1>f, LoopStands DEF loop
<1> QED
  BY <1>1, <1>2, <1>3, <1>4, <1>5, <1>6, <1>7, <1>8, <1>9, <1>10 DEF TunnelNext

\* Through every order of losses, sleeps, failed and successful rebuilds, the
\* loop's invariant holds.
THEOREM TunnelInvariance == TunnelSpec => []TunnelInv
<1>1. TunnelInit => TunnelInv
  <2> SUFFICES ASSUME TunnelInit PROVE TunnelInv
    OBVIOUS
  <2>0. Flags
    BY DEF TunnelInit, Flags
  <2>1. TunnelTypeOK
    <3>1. pc \in Steps /\ Numbers
      BY DEF TunnelInit, Steps, Numbers
    <3> QED  BY <2>0, <3>1, TypeParts
  <2>i. now \in Nat /\ socket = TRUE
    BY DEF TunnelInit, Init
  <2>2. NeverStranded
    <3>1. fd = 1 /\ next_rebuild = 0
      BY DEF TunnelInit
    <3> QED  BY <2>i, <3>1, TunnelAssumption DEF NeverStranded
  <2>3. StackUsesTheSocket /\ NoSessionSurvivesSleep /\ slept \subseteq promoted
    BY DEF TunnelInit, StackUsesTheSocket, NoSessionSurvivesSleep
  <2>4. TimesInv
    <3>1. /\ next_rebuild = 0 /\ last_attempt = Never
          /\ quiet_since = 0 /\ unreachable_since = Never
      BY DEF TunnelInit
    <3> QED  BY <2>i, <3>1 DEF TimesInv
  <2> QED  BY <2>1, <2>2, <2>3, <2>4 DEF TunnelInv
<1> QED  BY <1>1, TunnelStep, SessionInvariant, PTL DEF TunnelSpec

\* The loop's variables keep their ranges, for every bound: descriptors are of
\* sockets that were opened, and times are of the past.
THEOREM LoopTypes == TunnelSpec => []TunnelTypeOK
<1>1. TunnelInv => TunnelTypeOK
  BY DEF TunnelInv
<1> QED  BY <1>1, TunnelInvariance, PTL

\* The loop never sits without a socket and without a rebuild ahead of it.
THEOREM LoopNeverStranded == TunnelSpec => []NeverStranded
<1>1. TunnelInv => NeverStranded
  BY DEF TunnelInv
<1> QED  BY <1>1, TunnelInvariance, PTL

\* lwIP is left with another descriptor than the loop's only by a rebuild that got
\* none, and only until the next one: the loop has no socket and is due to rebuild.
THEOREM StackFollowsRebuilds == TunnelSpec => []StaleOnlyUntilRebuilt
<1>1. TunnelInv => StaleOnlyUntilRebuilt
  BY DEF TunnelInv, NeverStranded, StackUsesTheSocket, StaleOnlyUntilRebuilt
<1> QED  BY <1>1, TunnelInvariance, PTL

\* A keypair that was current before a sleep is in use after it only by a tunnel
\* that is already marked lost.
THEOREM SleepEndsSessions == TunnelSpec => []NoSessionSurvivesSleep
<1>1. TunnelInv => NoSessionSurvivesSleep
  BY DEF TunnelInv
<1> QED  BY <1>1, TunnelInvariance, PTL

-----------------------------------------------------------------------------
(* Action properties *)

\* Rebuilds are never closer to each other than the spacing.
THEOREM RebuildsNeverSpin == TunnelSpec => RebuildsSpaced
<1> DEFINE Spaced == last_attempt' # last_attempt /\ last_attempt # Never
                       => last_attempt' - last_attempt >= REBUILD_SPACING
<1>1. IInv /\ TunnelInv /\ [TunnelNext]_tunnelVars => [Spaced]_tunnelVars
  <2> SUFFICES ASSUME IInv, TunnelInv, [TunnelNext]_tunnelVars PROVE Spaced
    OBVIOUS
  <2>1. last_attempt' = last_attempt \/ (last_attempt' = now /\ now >= next_rebuild)
    BY DEF TunnelNext, tunnelVars, loop, PowerCheck, RebuildCheck, Send, BringUp, Wait,
       Drain, Output, PassOver, Elapse, Fault
  <2>2. now \in Nat /\ last_attempt \in Nat \cup {Never}
    BY DEF IInv, TypeOK, TunnelInv, TunnelTypeOK
  <2>3. last_attempt # Never => next_rebuild = last_attempt + REBUILD_SPACING
    BY DEF TunnelInv, TimesInv
  <2> QED
    BY <2>1, <2>2, <2>3, TunnelAssumption
<1> QED
  BY <1>1, SessionInvariant, TunnelInvariance, PTL DEF TunnelSpec, RebuildsSpaced

\* Want of a network costs the tunnel only once it lasted for the whole limit.
THEOREM LoopIsPatient == TunnelSpec => Patience
<1> DEFINE Patient == pc = "send" /\ unreachable_since # Never
                        /\ tunnel_lost' /\ ~tunnel_lost /\ ~dead
                      => now - quiet_since > UNREACHABLE_LIMIT
<1>1. IInv /\ TunnelInv /\ [TunnelNext]_tunnelVars => [Patient]_tunnelVars
  <2> SUFFICES ASSUME IInv, TunnelInv, [TunnelNext]_tunnelVars,
                      pc = "send", unreachable_since # Never,
                      tunnel_lost', ~tunnel_lost, ~dead
               PROVE  now - quiet_since > UNREACHABLE_LIMIT
    OBVIOUS
  <2>1. now - unreachable_since > UNREACHABLE_LIMIT
    BY DEF TunnelNext, tunnelVars, loop, PowerCheck, RebuildCheck, Send, SendAnswer,
       Refused, BringUp, Wait, Drain, Output, PassOver, Elapse, Fault
  <2>2. now \in Nat /\ quiet_since \in Nat /\ unreachable_since \in quiet_since .. now
    <3>1. now \in Nat
      BY DEF IInv, TypeOK
    <3>2. quiet_since \in Nat
      BY DEF TunnelInv, TunnelTypeOK
    <3> QED  BY <3>1, <3>2 DEF TunnelInv, TimesInv
  <2> QED
    BY <2>1, <2>2, TunnelAssumption
<1> QED
  BY <1>1, SessionInvariant, TunnelInvariance, PTL DEF TunnelSpec, Patience
=============================================================================
