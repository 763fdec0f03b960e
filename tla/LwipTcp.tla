------------------------------ MODULE LwipTcp ------------------------------
(***************************************************************************)
(* One connection the proxy opens through the tunnel: lwIP's control block *)
(* (LwipTcpPcb), the application above it, and below it a network that     *)
(* loses, repeats and reorders.                                            *)
(*                                                                         *)
(* The application sends up bytes and then shuts its side down; the peer   *)
(* sends down bytes and then a FIN.  Byte i of either stream is the number *)
(* i.  The peer is any TCP that keeps to the protocol: it takes what is in *)
(* order, as much as fits its window, offers windows as it likes (or as    *)
(* the load says), sends within the window it was offered, cuts its stream *)
(* as it likes, and probes a closed window.                                *)
(*                                                                         *)
(* What lwIP sent stays in toPeer while the peer could still take          *)
(* something from it, and may arrive any number of times or never.  What   *)
(* the peer sent is not kept: any segment it could have sent by now may    *)
(* arrive.  So the acknowledgements and windows lwIP sends need not be     *)
(* kept either: offered is the most the peer may have heard of.            *)
(***************************************************************************)
EXTENDS LwipTcpPcb, FiniteSetsExt

CONSTANTS
  Iss, PeerIss,        \* initial sequence numbers
  Loads                \* up, down, whether the peer closes, its windows, a bound
                       \* on the calls that fail, whether the timers are watched

VARIABLES
  load,
  pcb,
  app,                 \* what the application did and was told
  peer, toPeer,
  offered,             \* ack and right edge, in bytes of the peer's stream
  faults,
  ran                  \* the timer that ran last, if it is watched: see TcpFairSpec

tcpVars == <<load, pcb, app, peer, toPeer, offered, faults, ran>>

up      == load.up
down    == load.down

Failures == {"none"} \cup (IF faults < load.faults THEN {"mem", "link"} ELSE {})

\* The distance from b to a, as a number that may be negative.
Distance(a, b) ==
  LET d == (a - b) % SeqMod IN IF d >= SeqMod \div 2 THEN d - SeqMod ELSE d

Stream(a, b) == [i \in 1..(b - a) |-> a + i]

\* Text, or a FIN, that the peer p has not taken.
News(s, p) == ~p.fin /\ Distance(s.seqno, Iss) + Len(s.data) + Fin(s) > Len(p.got)

AckOf(s)  == Distance(s.ackno, Plus(PeerIss, 1))
Acking(c) == {s \in c.out : ~s.syn /\ ~s.rst}

\* A step of lwIP leaves the control block c.
Leaves(c, f) ==
  /\ pcb' = [c EXCEPT !.out = {}, !.ev = <<>>, !.recv_flags = {}, !.recv_data = <<>>,
                      !.recv_acked = 0]
  /\ toPeer' = IF c.state = "FREE" THEN {}
               ELSE toPeer \cup {[seqno |-> s.seqno, data |-> s.data, fin |-> s.fin] :
                                   s \in {t \in Acking(c) : News(t, peer)}}
  /\ offered' = [ack  |-> Max({offered.ack} \cup {AckOf(s) : s \in Acking(c)}),
                 edge |-> Max({offered.edge} \cup {AckOf(s) + s.wnd : s \in Acking(c)})]
  /\ faults' = faults + (IF f = "none" THEN 0 ELSE 1)

Becomes(c, f) == Leaves(c, f) /\ ran' = "none"
Watched(t)    == ran' = IF load.watched THEN t ELSE "none"

\* A step in which it may call back.
Tells(c, f) ==
  /\ Leaves(c, f)
  /\ app' = [app EXCEPT !.told = @ \o c.ev, !.given = @ \o c.recv_data,
                        !.held = IF c.state = "FREE" THEN 0 ELSE @ + Len(c.recv_data)]

TcpInit ==
  /\ load \in Loads /\ faults = 0 /\ ran = "none"
  /\ pcb = [Connect(Iss, "none") EXCEPT !.out = {}]
  /\ app = [written |-> 0, given |-> <<>>, held |-> 0, told |-> <<>>]
  /\ peer = [got |-> <<>>, fin |-> FALSE] /\ toPeer = {}
  /\ offered = [ack |-> -1, edge |-> -1]

-----------------------------------------------------------------------------
(* The application: awg_proxy.c *)

\* Only what was queued is sent.
Wrote(c, n, f) ==
  IF c.snd_lbb = pcb.snd_lbb
  THEN Becomes(c, f) /\ UNCHANGED app
  ELSE Becomes(Output(c, f), f) /\ app' = [app EXCEPT !.written = @ + n]

\* pump_up.
AppWrite ==
  \E n \in 1..(up - app.written), f \in Failures :
    /\ pcb.state \in {"ESTABLISHED", "CLOSE_WAIT"}
    /\ n = LesserOf(n, pcb.snd_buf)
    /\ Wrote(Write(pcb, Stream(app.written, app.written + n), f), n, f)
    /\ UNCHANGED <<load, peer>>

\* pump_down: what the client took is told to lwIP.
AppRecved ==
  \E n \in 1..app.held, f \in Failures :
    /\ pcb.state # "FREE"
    /\ Becomes(Recved(pcb, n, f), f)
    /\ app' = [app EXCEPT !.held = @ - n]
    /\ UNCHANGED <<load, peer>>

\* The client has closed and all it sent was written.
AppShutdown ==
  \E f \in Failures :
    /\ pcb.state \notin {"FREE", "SYN_SENT"} /\ app.written = up
    /\ Becomes(Shutdown(pcb, f), f)
    /\ UNCHANGED <<load, app, peer>>

\* conn_close.
AppAbort ==
  \E f \in Failures :
    /\ pcb.state # "FREE"
    /\ Becomes(Abort(pcb, f), f)
    /\ app' = [app EXCEPT !.held = 0, !.told = Append(@, "abort")]
    /\ UNCHANGED <<load, peer>>

-----------------------------------------------------------------------------
(* The timers: tcp_tmr *)

SlowTimer ==
  \E due, idle \in BOOLEAN, f \in Failures :
    /\ pcb.state # "FREE"
    /\ Tells(SlowTmr(pcb, due, idle, f), f)
    /\ Watched(IF due /\ ~idle THEN "slow" ELSE "none")
    /\ UNCHANGED <<load, peer>>

FastTimer ==
  \E f \in Failures :
    /\ pcb.state \notin {"FREE", "TIME_WAIT"}
    /\ Leaves(FastTmr(pcb, f), f) /\ Watched("fast")
    /\ UNCHANGED <<load, app, peer>>

-----------------------------------------------------------------------------
(* The peer *)

\* Of a segment that is in order, the n bytes that fit the window, and its FIN.
PeerReceives ==
  \E s \in toPeer :
    LET old == Len(peer.got) - Distance(s.seqno, Iss) IN
    \E n \in 0..GreaterOf(0, Len(s.data) - old), fin \in BOOLEAN :
       /\ old >= 0 /\ (n > 0 \/ fin)
       /\ fin => s.fin /\ old + n = Len(s.data)
       /\ peer' = [got |-> peer.got \o SubSeq(s.data, old + 1, old + n), fin |-> fin]
       /\ toPeer' = {t \in toPeer : News(t, peer')} /\ ran' = "none"
       /\ UNCHANGED <<load, pcb, app, offered, faults>>

-----------------------------------------------------------------------------
(* What may arrive from the peer *)

\* Bytes a + 1 to b of its stream, with ack bytes acknowledged.
Segment(a, b, ack, wnd) ==
  [seqno |-> Plus(PeerIss + 1, a), data |-> Stream(a, LesserOf(b, down)),
   syn |-> FALSE, fin |-> b > down, rst |-> FALSE, ackno |-> Plus(Iss, ack), wnd |-> wnd]

\* A peer that has heard of the window sends within it, or probes it by one.
Reach ==
  LesserOf(IF load.closes THEN down + 1 ELSE down,
           IF offered.edge = offered.ack THEN offered.edge + 1 ELSE offered.edge)

Arrives(in) ==
  \E f \in Failures :
    /\ Tells(Input(pcb, in, f), f) /\ ran' = "none"
    /\ UNCHANGED <<load, peer>>

SynAckArrives ==
  \E wnd \in load.wnds :
    Arrives([Segment(0, 0, 0, wnd) EXCEPT !.seqno = PeerIss, !.syn = TRUE])

SegmentArrives ==
  \E a, b \in 0..Reach, wnd \in load.wnds,
     ack \in 0..(Len(peer.got) + (IF peer.fin THEN 1 ELSE 0)) :
    /\ offered.ack >= 0
    /\ a <= b /\ LesserOf(b, down) - a <= TCP_MSS
    /\ Arrives(Segment(a, b, ack, wnd))

\* The peer refuses the connection, or gives it up: a reset at the start of the
\* stream, where the window starts, or at its edge.
ResetArrives ==
  \E k \in {0, GreaterOf(0, offered.ack), GreaterOf(0, offered.edge)} :
    Arrives([Segment(k, k, 0, 0) EXCEPT !.rst = TRUE])

\* A peer that still holds an older connection of the same name answers the SYN.
StaleAckArrives ==
  /\ pcb.state = "SYN_SENT"
  /\ Arrives(Segment(0, 0, 2, 1))

TcpNext ==
  \/ AppWrite \/ AppRecved \/ AppShutdown \/ AppAbort
  \/ SlowTimer \/ FastTimer
  \/ PeerReceives
  \/ SynAckArrives \/ SegmentArrives \/ ResetArrives \/ StaleAckArrives

\* The main loop calls tcp_tmr for as long as it runs, and a timer that runs
\* expires: weak fairness of the two timers, which are enabled while there is a
\* control block, said of ran because TLC evaluates the actions too slowly.
TcpFairSpec ==
  /\ TcpInit /\ [][TcpNext]_tcpVars
  /\ []<>(ran = "slow" \/ pcb.state = "FREE" \/ ~load.watched)
  /\ []<>(ran = "fast" \/ pcb.state \in {"FREE", "TIME_WAIT"} \/ ~load.watched)

-----------------------------------------------------------------------------
(* Properties *)

Live   == pcb.state \notin {"FREE", "TIME_WAIT"}
Synced == Live /\ pcb.state # "SYN_SENT"
Queued == pcb.unacked \o pcb.unsent
Ends   == {"ERR_RST", "ERR_CLSD", "ERR_ABRT", "abort"}

Counts(s, n) == Len(s) <= n /\ \A i \in 1..Len(s) : s[i] = i
Offset(n)    == Distance(n, Plus(PeerIss, 1))

\* The types of the variables.
TcpTypeOK ==
  /\ load \in Loads /\ faults \in 0..load.faults /\ ran \in {"none", "slow", "fast"}
  /\ pcb.state \in {"FREE", "SYN_SENT", "ESTABLISHED", "CLOSE_WAIT", "FIN_WAIT_1",
                    "FIN_WAIT_2", "CLOSING", "LAST_ACK", "TIME_WAIT"}
  /\ pcb.snd_buf \in 0..TCP_SND_BUF /\ pcb.snd_queuelen \in 0..(TCP_SND_QUEUELEN + 1)
  /\ pcb.rcv_wnd \in 0..TCP_WND /\ pcb.rcv_ann_wnd \in 0..TCP_WND
  /\ app.written \in 0..up /\ app.held \in 0..TCP_WND
  /\ Len(peer.got) \in 0..up

(* Whatever the network loses, repeats or reorders, tcp_receive hands the client the    *)
(* peer's bytes in order and each once, tcp_write and tcp_output do the same for the    *)
(* client's, and the client is told that the peer has closed after the last byte only.  *)
StreamsInOrder ==
  /\ Counts(peer.got, app.written)
  /\ Counts(app.given, down)
  /\ \A i \in 1..Len(app.told) : app.told[i] = "closed" => Len(app.given) = down

(* snd_buf and snd_queuelen, by which tcp_write refuses, are what the two queues leave  *)
(* and hold, after every write, split, retransmission and acknowledgement.              *)
QueuesAddUp ==
  Live => /\ pcb.snd_buf = TCP_SND_BUF - Bytes(Queued)
          /\ pcb.snd_queuelen = Pbufs(Queued)

(* A byte tcp_write accepted and the peer has not acknowledged is on unacked or unsent, *)
(* once: no retransmission, split or partial acknowledgement loses or doubles it.       *)
NothingForgotten ==
  Synced =>
    \A i \in (Distance(pcb.lastack, Iss) + 1)..app.written :
      Cardinality({k \in 1..Len(Queued) : \E j \in 1..Len(Queued[k].data) :
         /\ Queued[k].data[j] = i
         /\ Distance(Queued[k].seqno, Iss) + j = i}) = 1

(* rcv_wnd is the part of TCP_WND the application does not hold, and what is announced  *)
(* is never more: with every byte passed to tcp_recved the window opens again in full.  *)
WindowAddsUp ==
  Synced => /\ pcb.rcv_wnd = TCP_WND - app.held
            /\ pcb.rcv_ann_wnd <= pcb.rcv_wnd

(* With anything on the queues the retransmission or the persist timer runs: no         *)
(* connection waits for a peer that waits for it.                                       *)
NeverStuck == Live /\ Queued # <<>> => pcb.rtime >= 0 \/ pcb.persist_backoff > 0

(* The assertion of tcp_slowtmr: the persist timer never runs with data in flight.      *)
PersistAlone == Live /\ pcb.persist_backoff > 0 => pcb.unacked = <<>>

(* The control block keeps its accounts, by which tcp_write refuses, the window opens   *)
(* and tcp_slowtmr chooses its timer.                                                   *)
PcbConsistent ==
  TcpTypeOK /\ QueuesAddUp /\ NothingForgotten /\ WindowAddsUp /\ PersistAlone

(* The application is told of each event once and in order, of nothing after the end,   *)
(* and a control block goes without a word only after the FINs of both sides.           *)
ToldOnce ==
  LET t == app.told IN
  /\ \A i, j \in 1..Len(t) : t[i] = t[j] => i = j
  /\ \A i \in 1..Len(t) : t[i] \in Ends => i = Len(t)
  /\ \A i \in 1..Len(t) : t[i] = "connected" => i = 1
  /\ (\E i \in 1..Len(t) : t[i] = "closed") => t[1] = "connected"
  /\ pcb.state = "FREE" /\ (t = <<>> \/ t[Len(t)] \notin Ends) =>
       t # <<>> /\ t[Len(t)] = "closed"

(* tcp_update_rcv_ann_wnd: the right edge of the window offered to the peer never moves *)
(* back, whatever the application still holds.                                          *)
EdgeNeverRetreats ==
  [][Synced /\ Synced' => Offset(pcb.rcv_ann_right_edge)' >= Offset(pcb.rcv_ann_right_edge)
    ]_tcpVars

(* An attempt to connect is decided: the SYN is answered or given up.                   *)
ConnectDecided == load.watched /\ pcb.state = "SYN_SENT" ~> pcb.state # "SYN_SENT"

Outstanding(n) ==
  /\ load.watched /\ Synced /\ pcb.unacked # <<>> /\ pcb.persist_backoff = 0
  /\ Distance(pcb.lastack, Iss) = n

(* What is in flight does not stay in flight: it is acknowledged, or the connection is  *)
(* given up, or the window has closed and the persist timer took over.                  *)
FlightEnds == \A n \in 0..2 : Outstanding(n) ~> ~Outstanding(n)

(* A FIN that found no memory is sent by tcp_fasttmr.                                   *)
PendingFinSent ==
  load.watched /\ "CLOSEPEND" \in pcb.flags ~> ("FIN" \in pcb.flags \/ ~Live)

(* Nothing hangs on a peer that is silent or a moment without memory: an attempt to     *)
(* connect, what is in flight and a FIN that is due each come to their end.             *)
NothingHangs == ConnectDecided /\ FlightEnds /\ PendingFinSent

(* "Migrate flags from original segment": the peer sees the end of the stream after all *)
(* of it.                                                                               *)
FinIsLast == peer.fin => Len(peer.got) = app.written
=============================================================================
