---------------------------- MODULE LwipTcpPcb ----------------------------
(***************************************************************************)
(* lwIP's TCP, as the proxy and the self test drive it: what each call,    *)
(* timer and segment does to one protocol control block.  An operator here *)
(* takes a control block (a record) to the control block the C function    *)
(* leaves; what the function sends is added to the field out, what it      *)
(* calls back to ev, what it hands to the application to recv_data.        *)
(*                                                                         *)
(* Bytes are the members of a stream, so that their order can be stated.   *)
(* Sequence numbers wrap at SeqMod (2^32 in the code).  Time is left out:  *)
(* rtime is 0 while the retransmission timer runs and -1 while it does     *)
(* not, persist_backoff is 1 while the persist timer runs.  With it go the *)
(* round-trip estimate and the back-off.  Every segment of the peer        *)
(* carries an ACK.  An argument f says what fails during the call: "mem",  *)
(* the allocations, "link", the output routine of the interface, "none".   *)
(*                                                                         *)
(* Left out, because the callers never get there: tcp_close, listening     *)
(* sockets, keepalives, and data the application refuses.                  *)
(***************************************************************************)
EXTENDS Integers, Sequences, FiniteSets

CONSTANTS
  TCP_MSS, TCP_WND, TCP_SND_BUF, TCP_SND_QUEUELEN,
  TCP_MAXRTX, TCP_SYNMAXRTX,
  CwndStart,           \* 4380
  TCPWND_MAX,          \* 65535, where the windows saturate
  DupMax,              \* 255, where dupacks saturates; 4 tells all apart
  SeqMod               \* 2^32

LesserOf(a, b)  == IF a < b THEN a ELSE b
GreaterOf(a, b) == IF a < b THEN b ELSE a

Plus(a, b)        == (a + b) % SeqMod
Before(a, b)      == (a - b) % SeqMod >= SeqMod \div 2
NotAfter(a, b)    == ~Before(b, a)
Between(a, b, c)  == NotAfter(b, a) /\ NotAfter(a, c)

Fin(s)    == IF s.fin THEN 1 ELSE 0
TcpLen(s) == Len(s.data) + (IF s.fin \/ s.syn THEN 1 ELSE 0)
EndOf(s)  == Plus(s.seqno, TcpLen(s))

RECURSIVE SumOf(_, _)
SumOf(op(_), q) == IF q = <<>> THEN 0 ELSE op(Head(q)) + SumOf(op, Tail(q))

Bytes(q) == SumOf(LAMBDA s : Len(s.data), q)
Pbufs(q) == SumOf(LAMBDA s : Len(s.bufs), q)

TCP_WND_UPDATE_THRESHOLD == LesserOf(TCP_WND \div 4, TCP_MSS * 4)

\* A control block that is not in use.
NoPcbBlock ==
  [state |-> "FREE", unsent |-> <<>>, unacked |-> <<>>, ooseq |-> <<>>,
   snd_nxt |-> 0, lastack |-> 0, snd_lbb |-> 0, rto_end |-> 0,
   snd_wnd |-> 0, snd_wnd_max |-> 0, snd_wl1 |-> 0, snd_wl2 |-> 0,
   cwnd |-> 0, ssthresh |-> 0, bytes_acked |-> 0, dupacks |-> 0, nrtx |-> 0,
   rtime |-> -1, persist_backoff |-> 0, persist_probe |-> 0,
   snd_buf |-> TCP_SND_BUF, snd_queuelen |-> 0, unsent_oversize |-> 0,
   rcv_nxt |-> 0, rcv_wnd |-> TCP_WND, rcv_ann_wnd |-> TCP_WND,
   rcv_ann_right_edge |-> 0, flags |-> {},
   recv_flags |-> {}, recv_data |-> <<>>, recv_acked |-> 0,
   out |-> {}, ev |-> <<>>]

SetFlags(c, fs)   == [c EXCEPT !.flags = @ \cup fs]
ClearFlags(c, fs) == [c EXCEPT !.flags = @ \ fs]
Call(c, e)        == [c EXCEPT !.ev = Append(@, e)]

AckNow(c) == SetFlags(c, {"ACK_NOW"})

Ack(c) ==
  IF "ACK_DELAY" \in c.flags
  THEN SetFlags(ClearFlags(c, {"ACK_DELAY"}), {"ACK_NOW"})
  ELSE SetFlags(c, {"ACK_DELAY"})

-----------------------------------------------------------------------------
(* tcp_out.c: sending *)

Packet(c, s, rst) ==
  [seqno |-> s.seqno, data |-> s.data, syn |-> s.syn, fin |-> s.fin,
   rst |-> rst, ackno |-> c.rcv_nxt, wnd |-> c.rcv_ann_wnd]

\* A segment without memory of its own (tcp_output_alloc_header and
\* tcp_output_control_segment).
Control(c, s, f) ==
  LET told == [c EXCEPT !.rcv_ann_right_edge = Plus(c.rcv_nxt, c.rcv_ann_wnd)] IN
  CASE f = "none" -> [told EXCEPT !.out = @ \cup {Packet(c, s, FALSE)}]
    [] f = "link" -> told
    [] f = "mem"  -> c

Empty(n) == [seqno |-> n, data |-> <<>>, syn |-> FALSE, fin |-> FALSE]

SendEmptyAck(c, f) ==
  LET sent == Control(c, Empty(c.snd_nxt), f) IN
  IF f = "none" THEN ClearFlags(sent, {"ACK_DELAY", "ACK_NOW"})
                ELSE SetFlags(sent, {"ACK_DELAY", "ACK_NOW"})

Rst(c, seqno, ackno, f) ==
  IF f # "none" THEN c
  ELSE [c EXCEPT !.out = @ \cup
          {[Packet(c, Empty(seqno), TRUE) EXCEPT !.ackno = ackno, !.wnd = TCP_WND]}]

\* Where a segment belongs in a queue sorted by sequence number.
InOrder(q, s) ==
  LET k == Cardinality({i \in 1..Len(q) : Before(q[i].seqno, s.seqno)})
  IN SubSeq(q, 1, k) \o <<s>> \o SubSeq(q, k + 1, Len(q))

DoNagle(c) ==
  \/ c.unacked = <<>> \/ "INFR" \in c.flags
  \/ Len(c.unsent) > 1 \/ Len(c.unsent[1].data) >= TCP_MSS
  \/ c.snd_buf = 0 \/ c.snd_queuelen >= TCP_SND_QUEUELEN

Fits(c, s, wnd) == (s.seqno - c.lastack + Len(s.data)) % SeqMod <= wnd

\* tcp_output_segment, and the bookkeeping of the loop around it.
SendHead(c) ==
  LET s == Head(c.unsent)
      told == [c EXCEPT !.rcv_ann_right_edge = Plus(c.rcv_nxt, c.rcv_ann_wnd),
                        !.rtime = 0, !.out = @ \cup {Packet(c, s, FALSE)},
                        !.unsent = Tail(@),
                        !.unacked = IF TcpLen(s) > 0 THEN InOrder(@, s) ELSE @,
                        !.snd_nxt = IF Before(@, EndOf(s)) THEN EndOf(s) ELSE @]
  IN IF c.state = "SYN_SENT" THEN told
     ELSE ClearFlags(told, {"ACK_DELAY", "ACK_NOW"})

RECURSIVE OutputLoop(_, _, _)
OutputLoop(c, wnd, f) ==
  CASE \/ c.unsent = <<>>
       \/ ~Fits(c, Head(c.unsent), wnd)
       \/ ~DoNagle(c) /\ c.flags \cap {"NAGLEMEMERR", "FIN"} = {} ->
         ClearFlags([c EXCEPT !.unsent_oversize = IF c.unsent = <<>> THEN 0 ELSE @],
                    {"NAGLEMEMERR"})
    [] OTHER ->
         IF f = "link"
         THEN SetFlags([c EXCEPT !.rcv_ann_right_edge = Plus(c.rcv_nxt, c.rcv_ann_wnd),
                                 !.rtime = 0], {"NAGLEMEMERR"})
         ELSE OutputLoop(SendHead(c), wnd, f)

Output(c, f) ==
  LET wnd == LesserOf(c.snd_wnd, c.cwnd)
      acked(p) == IF "ACK_NOW" \in p.flags THEN SendEmptyAck(p, f)
                                           ELSE ClearFlags(p, {"NAGLEMEMERR"})
  IN CASE c.unsent = <<>> -> acked(c)
       [] c.unsent # <<>> /\ ~Fits(c, Head(c.unsent), wnd) ->
            acked(IF wnd = c.snd_wnd /\ c.unacked = <<>> /\ c.persist_backoff = 0
                  THEN [c EXCEPT !.persist_backoff = 1, !.persist_probe = 0]
                  ELSE c)
       [] OTHER -> OutputLoop([c EXCEPT !.persist_backoff = 0], wnd, f)

-----------------------------------------------------------------------------
(* tcp_out.c: queueing *)

MssLocal(c) ==
  LET half == LesserOf(TCP_MSS, c.snd_wnd_max \div 2)
  IN IF half = 0 THEN TCP_MSS ELSE half

Upto(s, n) == SubSeq(s, 1, n)
Beyond(s, n) == SubSeq(s, n + 1, Len(s))

\* The segments phase 3 of tcp_write makes of the bytes.
RECURSIVE Cut(_, _, _)
Cut(bytes, seqno, mss) ==
  IF bytes = <<>> THEN <<>>
  ELSE LET n == LesserOf(Len(bytes), mss) IN
       <<[seqno |-> seqno, data |-> Upto(bytes, n), syn |-> FALSE, fin |-> FALSE,
          bufs |-> <<n>>]>>
       \o Cut(Beyond(bytes, n), Plus(seqno, n), mss)

\* tcp_write: room left in the last unsent segment's buffer is filled first,
\* then a buffer is chained to that segment, then new segments follow.
WriteCommit(c, bytes) ==
  LET mss    == MssLocal(c)
      n      == Len(c.unsent)
      over   == IF n = 0 THEN 0 ELSE LesserOf(c.unsent_oversize, Len(bytes))
      space  == IF n = 0 THEN 0 ELSE mss - Len(c.unsent[n].data) - over
      chain  == IF n > 0 /\ space > 0 /\ Len(c.unsent[n].data) > 0
                THEN LesserOf(space, Len(bytes) - over) ELSE 0
      rest   == Beyond(bytes, over + chain)
      new    == Cut(rest, Plus(c.snd_lbb, over + chain), mss)
      tail   == Len(rest) - (Len(new) - 1) * mss
      spare  == CASE new # <<>> -> IF Len(new) = 1 /\ n = 0 /\ c.unacked = <<>>
                                   THEN 0 ELSE mss - tail
                  [] new = <<>> /\ chain > 0 -> space - chain
                  [] OTHER -> IF n = 0 THEN 0 ELSE c.unsent_oversize - over
      grown  == IF n = 0 THEN <<>>
                ELSE [c.unsent EXCEPT
                        ![n].data = @ \o Upto(bytes, over + chain),
                        ![n].bufs = [@ EXCEPT ![Len(@)] = @ + over]
                                    \o (IF chain > 0 THEN <<chain>> ELSE <<>>)]
  IN [c EXCEPT !.unsent = grown \o new, !.unsent_oversize = spare,
               !.snd_lbb = Plus(@, Len(bytes)), !.snd_buf = @ - Len(bytes),
               !.snd_queuelen = @ + Len(new) + (IF chain > 0 THEN 1 ELSE 0)]

\* Room, in the buffer and on the queue; otherwise, or without memory,
\* ERR_MEM and nothing is written.
Write(c, bytes, f) ==
  LET done == WriteCommit(c, bytes) IN
  IF \/ Len(bytes) > c.snd_buf
     \/ c.snd_queuelen >= TCP_SND_QUEUELEN
     \/ done.snd_queuelen > TCP_SND_QUEUELEN
     \/ f = "mem"
  THEN SetFlags(c, {"NAGLEMEMERR"})
  ELSE done

\* tcp_enqueue_flags; ERR_MEM leaves snd_lbb where it was.
EnqueueFlags(c, syn, fin, f) ==
  IF f = "mem" THEN SetFlags(c, {"NAGLEMEMERR"})
  ELSE [c EXCEPT !.unsent = Append(@, [seqno |-> c.snd_lbb, data |-> <<>>, syn |-> syn,
                                       fin |-> fin, bufs |-> <<0>>]),
                 !.unsent_oversize = 0, !.snd_queuelen = @ + 1,
                 !.snd_lbb = Plus(@, 1), !.flags = IF fin THEN @ \cup {"FIN"} ELSE @]

SendFin(c, f) ==
  LET n == Len(c.unsent) IN
  IF n > 0 /\ ~c.unsent[n].syn /\ ~c.unsent[n].fin
  THEN SetFlags([c EXCEPT !.unsent[n].fin = TRUE], {"FIN"})
  ELSE EnqueueFlags(c, FALSE, TRUE, f)

\* tcp_close_shutdown_fin; without memory the FIN is left to the fast timer.
CloseShutdownFin(c, f) ==
  LET sent == SendFin(c, f) IN
  IF "FIN" \notin sent.flags THEN SetFlags(sent, {"CLOSEPEND"})
  ELSE Output([sent EXCEPT !.state = IF @ = "ESTABLISHED" THEN "FIN_WAIT_1"
                                                          ELSE "LAST_ACK"], f)

\* tcp_shutdown(pcb, 0, 1).
Shutdown(c, f) ==
  IF c.state \in {"ESTABLISHED", "CLOSE_WAIT"} THEN CloseShutdownFin(c, f) ELSE c

\* pbuf_realloc on a chain of buffers.
RECURSIVE Shrink(_, _)
Shrink(bufs, n) ==
  IF n <= Head(bufs) THEN <<n>> ELSE <<Head(bufs)>> \o Shrink(Tail(bufs), n - Head(bufs))

SplitUncounted(c, n, f) ==
  LET s == Head(c.unsent) IN
  IF c.unsent = <<>> \/ Len(s.data) <= n \/ f = "mem" THEN c
  ELSE [c EXCEPT !.unsent = <<[s EXCEPT !.data = Upto(@, n), !.bufs = Shrink(@, n)],
                              [s EXCEPT !.seqno = Plus(@, n), !.data = Beyond(@, n),
                                        !.bufs = <<Len(s.data) - n>>]>> \o Tail(@)]

\* tcp_split_unsent_seg: the head keeps n bytes.  The rest gets the FIN; the
\* head keeps it too, since TCPH_SET_FLAG adds flags and clears none.
Split(c, n, f) ==
  LET s == Head(c.unsent) IN
  IF c.unsent = <<>> \/ Len(s.data) <= n \/ f = "mem" THEN c
  ELSE [c EXCEPT
    !.unsent = <<[s EXCEPT !.data = Upto(@, n), !.bufs = Shrink(@, n)],
                 [s EXCEPT !.seqno = Plus(@, n), !.data = Beyond(@, n),
                           !.bufs = <<Len(s.data) - n>>]>> \o Tail(@),
    !.unsent_oversize = IF Len(c.unsent) = 1 THEN 0 ELSE @,
    !.snd_queuelen = @ - Len(s.bufs) + Len(Shrink(s.bufs, n)) + 1]

\* tcp_zero_window_probe: one byte, or the FIN, of the first unsent segment.
Probe(c, f) ==
  LET s    == Head(c.unsent)
      fin  == s.fin /\ s.data = <<>>
      one  == [Empty(s.seqno) EXCEPT !.fin = fin,
                                     !.data = IF fin THEN <<>> ELSE Upto(s.data, 1)]
      sent == [c EXCEPT !.persist_probe = @ + 1]
      next == Plus(s.seqno, 1)
  IN CASE c.unsent = <<>> -> c
       [] c.unsent # <<>> /\ f = "mem" -> sent
       [] OTHER -> Control([sent EXCEPT !.snd_nxt = IF Before(@, next) THEN next ELSE @],
                           one, f)

-----------------------------------------------------------------------------
(* tcp_out.c: retransmission *)

RexmitRtoPrepare(c) ==
  IF c.unacked = <<>> THEN c
  ELSE SetFlags([c EXCEPT !.unsent = c.unacked \o @, !.unacked = <<>>,
                          !.rto_end = EndOf(c.unacked[Len(c.unacked)])], {"RTO"})

RexmitRtoCommitUncounted(c, f) == Output(c, f)

RexmitRtoCommit(c, f) == Output([c EXCEPT !.nrtx = @ + 1], f)

HalfWindow(c) == GreaterOf(LesserOf(c.cwnd, c.snd_wnd) \div 2, 2 * TCP_MSS)

\* tcp_rexmit and tcp_rexmit_fast.
RexmitFast(c) ==
  IF c.unacked = <<>> \/ "INFR" \in c.flags THEN c
  ELSE SetFlags([c EXCEPT !.unsent = InOrder(@, Head(c.unacked)), !.unacked = Tail(@),
                          !.nrtx = @ + 1, !.ssthresh = HalfWindow(c),
                          !.cwnd = HalfWindow(c) + 3 * TCP_MSS, !.rtime = 0], {"INFR"})

-----------------------------------------------------------------------------
(* tcp.c: the window offered to the peer *)

NewEdge(c) == Plus(c.rcv_nxt, c.rcv_wnd)

\* Whether the edge has moved far enough to be worth a word.
WorthAnnouncing(c) ==
  NotAfter(Plus(c.rcv_ann_right_edge, LesserOf(TCP_WND \div 2, TCP_MSS)), NewEdge(c))

UpdateRcvAnnWndShrinks(c) ==
  [c EXCEPT !.rcv_ann_wnd = IF WorthAnnouncing(c) THEN c.rcv_wnd ELSE 0]

\* tcp_update_rcv_ann_wnd.
UpdateRcvAnnWnd(c) ==
  [c EXCEPT !.rcv_ann_wnd =
     CASE WorthAnnouncing(c) -> c.rcv_wnd
       [] ~WorthAnnouncing(c) /\ Before(c.rcv_ann_right_edge, c.rcv_nxt) -> 0
       [] OTHER -> (c.rcv_ann_right_edge - c.rcv_nxt) % SeqMod]

Recved(c, n, f) ==
  LET b    == [c EXCEPT !.rcv_wnd = LesserOf(@ + n, TCP_WND)]
      infl == (NewEdge(b) - b.rcv_ann_right_edge) % SeqMod
      a    == UpdateRcvAnnWnd(b)
  IN IF WorthAnnouncing(b) /\ infl >= TCP_WND_UPDATE_THRESHOLD
     THEN Output(AckNow(a), f) ELSE a

-----------------------------------------------------------------------------
(* tcp.c: the end of a control block *)

Purge(c) ==
  IF c.state \in {"FREE", "TIME_WAIT"} THEN c
  ELSE [c EXCEPT !.unsent = <<>>, !.unacked = <<>>, !.ooseq = <<>>, !.rtime = -1,
                 !.unsent_oversize = 0]

\* The memory goes back to the pool; what was sent and called back stays.
Free(c) == [NoPcbBlock EXCEPT !.out = c.out, !.ev = c.ev]

TimeWait(c) == [Purge(c) EXCEPT !.state = "TIME_WAIT"]

\* tcp_abandon(pcb, 1); the caller has taken its callbacks off.  Removing the
\* control block sends a delayed ACK first (tcp_pcb_remove).
Abort(c, f) ==
  LET p == Purge(c) IN
  IF c.state = "TIME_WAIT" THEN Free(c)
  ELSE Free(Rst(IF "ACK_DELAY" \in c.flags THEN Output(AckNow(p), f) ELSE p,
                c.snd_nxt, c.rcv_nxt, f))

\* tcp_connect.
Connect(iss, f) ==
  LET c == [NoPcbBlock EXCEPT
              !.snd_nxt = iss, !.lastack = Plus(iss, -1), !.snd_wl2 = Plus(iss, -1),
              !.snd_lbb = Plus(iss, -1), !.snd_wnd = TCP_WND, !.cwnd = 1,
              !.ssthresh = TCP_SND_BUF, !.rcv_ann_right_edge = 0]
      e == EnqueueFlags(c, TRUE, FALSE, f)
  IN IF f = "mem" THEN NoPcbBlock ELSE Output([e EXCEPT !.state = "SYN_SENT"], f)

-----------------------------------------------------------------------------
(* tcp_in.c: acknowledgements *)

\* tcp_free_acked_segments, on the queue named q.
RECURSIVE FreeAcked(_, _, _)
FreeAcked(c, q, ackno) ==
  IF c[q] = <<>> \/ ~NotAfter(EndOf(Head(c[q])), ackno) THEN c
  ELSE LET s == Head(c[q]) IN
       FreeAcked([c EXCEPT ![q] = Tail(@), !.snd_queuelen = @ - Len(s.bufs),
                           !.recv_acked = @ + Len(s.data)], q, ackno)

Inflate(w, n) == LesserOf(w + n, TCPWND_MAX)

\* Slow start below ssthresh, congestion avoidance above.
Cwnd(c, acked) ==
  IF c.state \notin {"ESTABLISHED", "FIN_WAIT_1", "FIN_WAIT_2", "CLOSE_WAIT", "CLOSING",
                     "LAST_ACK"} THEN c
  ELSE IF c.cwnd < c.ssthresh
  THEN [c EXCEPT !.cwnd = Inflate(@, LesserOf(acked,
                            (IF "RTO" \in c.flags THEN 1 ELSE 2) * TCP_MSS))]
  ELSE LET sum == Inflate(c.bytes_acked, acked) IN
       IF sum >= c.cwnd
       THEN [c EXCEPT !.bytes_acked = sum - c.cwnd, !.cwnd = Inflate(@, TCP_MSS)]
       ELSE [c EXCEPT !.bytes_acked = sum]

EndRecovery(c) ==
  IF "INFR" \in c.flags
  THEN ClearFlags([c EXCEPT !.cwnd = c.ssthresh, !.bytes_acked = 0], {"INFR"}) ELSE c

\* The timer and the room, once segments were freed.
Counted(c) ==
  [c EXCEPT !.rtime = IF c.unacked = <<>> THEN -1 ELSE 0,
            !.unsent_oversize = IF c.unsent = <<>> THEN 0 ELSE @,
            !.snd_buf = @ + c.recv_acked]

\* A retransmission is over when all it sent again was acknowledged.
EndRto(c) ==
  IF /\ "RTO" \in c.flags
     /\ IF c.unacked # <<>> THEN NotAfter(c.rto_end, Head(c.unacked).seqno)
        ELSE c.unsent = <<>> \/ NotAfter(c.rto_end, Head(c.unsent).seqno)
  THEN ClearFlags(c, {"RTO"}) ELSE c

NewAckStopsTimer(c, ackno) ==
  LET b == [c EXCEPT !.nrtx = 0, !.dupacks = 0, !.lastack = ackno]
      d == FreeAcked(FreeAcked(b, "unacked", ackno), "unsent", ackno)
  IN [d EXCEPT !.rtime = -1, !.snd_buf = @ + d.recv_acked]

NewAck(c, ackno) ==
  EndRto(Counted(FreeAcked(FreeAcked(
    Cwnd([EndRecovery(c) EXCEPT !.nrtx = 0, !.dupacks = 0, !.lastack = ackno],
         (ackno - c.lastack) % SeqMod), "unacked", ackno), "unsent", ackno)))

DupAck(c, in, edge) ==
  IF /\ TcpLen(in) = 0
     /\ Plus(c.snd_wl2, c.snd_wnd) = edge
     /\ c.rtime >= 0
     /\ c.lastack = in.ackno
  THEN LET n == LesserOf(c.dupacks + 1, DupMax)
           d == [c EXCEPT !.dupacks = n, !.cwnd = IF n > 3 THEN Inflate(@, TCP_MSS) ELSE @]
       IN IF n >= 3 THEN RexmitFast(d) ELSE d
  ELSE c

\* A window that is news replaces the one before.
UpdateSndWnd(c, in) ==
  IF \/ Before(c.snd_wl1, in.seqno)
     \/ c.snd_wl1 = in.seqno /\ Before(c.snd_wl2, in.ackno)
     \/ c.snd_wl2 = in.ackno /\ in.wnd > c.snd_wnd
  THEN [c EXCEPT !.snd_wnd = in.wnd, !.snd_wl1 = in.seqno, !.snd_wl2 = in.ackno,
                 !.snd_wnd_max = GreaterOf(@, in.wnd)]
  ELSE c

ReceiveAck(c, in, f) ==
  CASE NotAfter(in.ackno, c.lastack) ->
         DupAck(UpdateSndWnd(c, in), in, Plus(c.snd_wl2, c.snd_wnd))
    [] Between(in.ackno, Plus(c.lastack, 1), c.snd_nxt) ->
         NewAck(UpdateSndWnd(c, in), in.ackno)
    [] OTHER -> SendEmptyAck(UpdateSndWnd(c, in), f)

-----------------------------------------------------------------------------
(* tcp_in.c: the segment's text *)

\* How many segments at the front of q end at or before e.
Covered(q, e) ==
  Cardinality({i \in 1..Len(q) :
    \A j \in 1..i : NotAfter(Plus(q[j].seqno, Len(q[j].data)), e)})

\* What a segment keeps in front of the queue q: it takes the FIN of what it
\* covers and gives way to what follows.
Trimmed(s, q) ==
  LET k    == Covered(q, EndOf(s))
      t    == [s EXCEPT !.fin = @ \/ \E i \in 1..k : q[i].fin]
      rest == Beyond(q, k)
  IN IF rest # <<>> /\ Before(Head(rest).seqno, EndOf(t))
     THEN [t EXCEPT !.data = Upto(@, (Head(rest).seqno - s.seqno) % SeqMod)]
     ELSE t

\* tcp_oos_insert_segment.
OosInsert(s, q) ==
  IF s.fin THEN <<s>> ELSE <<Trimmed(s, q)>> \o Beyond(q, Covered(q, EndOf(s)))

CutBack(p, seqno) ==
  IF Before(seqno, Plus(p.seqno, Len(p.data)))
  THEN [p EXCEPT !.data = Upto(@, (seqno - p.seqno) % SeqMod)] ELSE p

\* Not beyond the window; a FIN that is cut off is gone.
InWindow(s, c) ==
  IF Before(NewEdge(c), EndOf(s))
  THEN [s EXCEPT !.fin = FALSE, !.data = Upto(@, (NewEdge(c) - s.seqno) % SeqMod)]
  ELSE s

\* Where an out-of-sequence segment goes on the ooseq queue.
Queue(c, s) ==
  LET q    == c.ooseq
      k    == Cardinality({i \in 1..Len(q) : Before(q[i].seqno, s.seqno)})
      same == k < Len(q) /\ q[k + 1].seqno = s.seqno
      back == IF k = 0 THEN <<>> ELSE Append(Upto(q, k - 1), CutBack(q[k], s.seqno))
  IN CASE q = <<>> -> <<s>>
       [] same -> IF Len(s.data) > Len(q[k + 1].data) /\ k + 1 < Len(q)
                  THEN Upto(q, k) \o OosInsert(s, Beyond(q, k)) ELSE q
       [] k < Len(q) /\ ~same -> back \o OosInsert(s, Beyond(q, k))
       [] OTHER -> IF k > 0 /\ q[k].fin THEN q ELSE Append(back, InWindow(s, c))

\* A segment that is next in sequence.
Take(c, s) ==
  LET n == TcpLen(s)
      d == UpdateRcvAnnWnd([c EXCEPT !.rcv_nxt = Plus(@, n), !.rcv_wnd = @ - n])
  IN [d EXCEPT !.recv_data = @ \o s.data,
               !.recv_flags = IF s.fin THEN @ \cup {"GOT_FIN"} ELSE @]

RECURSIVE Dequeue(_)
Dequeue(c) ==
  IF c.ooseq = <<>> \/ Head(c.ooseq).seqno # c.rcv_nxt THEN c
  ELSE LET s == Head(c.ooseq)
           d == Take([c EXCEPT !.ooseq = Tail(@)], s)
       IN Dequeue([d EXCEPT !.state = IF s.fin /\ @ = "ESTABLISHED" THEN "CLOSE_WAIT" ELSE @])

\* s takes the place of what it covers of the ooseq queue, of all of it with a FIN.
TakeOver(c, s) ==
  IF s.fin THEN Take([c EXCEPT !.ooseq = <<>>], s)
  ELSE Take([c EXCEPT !.ooseq = Beyond(@, Covered(@, EndOf(s)))], Trimmed(s, c.ooseq))

InSequence(c, in) == Ack(Dequeue(TakeOver(c, InWindow(in, c))))

HasEdge(c, n) == Between(n, c.rcv_nxt, Plus(c.rcv_nxt, c.rcv_wnd - 1))

ReceiveTextUntrimmed(c, in, f) ==
  LET s == IF Before(in.seqno, c.rcv_nxt) THEN [in EXCEPT !.seqno = c.rcv_nxt] ELSE in IN
  IF TcpLen(in) > 0 /\ HasEdge(c, s.seqno) /\ s.seqno = c.rcv_nxt THEN InSequence(c, s)
                                                                  ELSE SendEmptyAck(c, f)

\* How much of a segment has come before.
Stale(c, in) == IF Before(in.seqno, c.rcv_nxt) THEN (c.rcv_nxt - in.seqno) % SeqMod ELSE 0

\* A segment that starts where something is missing, or waits, or is of no use.
Place(c, s, f) ==
  CASE HasEdge(c, s.seqno) /\ s.seqno = c.rcv_nxt -> InSequence(c, s)
    [] HasEdge(c, s.seqno) /\ s.seqno # c.rcv_nxt ->
         SendEmptyAck(IF f = "mem" THEN c ELSE [c EXCEPT !.ooseq = Queue(c, s)], f)
    [] OTHER -> SendEmptyAck(c, f)

ReceiveText(c, in, f) ==
  IF TcpLen(in) = 0 \/ c.state \notin {"ESTABLISHED", "FIN_WAIT_1", "FIN_WAIT_2"}
  THEN IF HasEdge(c, in.seqno) THEN c ELSE AckNow(c)
  ELSE Place(IF Stale(c, in) >= TcpLen(in) THEN AckNow(c) ELSE c,
             IF Stale(c, in) \in 1..(TcpLen(in) - 1)
             THEN [in EXCEPT !.seqno = c.rcv_nxt, !.data = Beyond(@, Stale(c, in))] ELSE in,
             f)

Receive(c, in, f) == ReceiveText(ReceiveAck(c, in, f), in, f)

-----------------------------------------------------------------------------
(* tcp_in.c: tcp_process and tcp_input *)

InitialCwnd == LesserOf(4 * TCP_MSS, GreaterOf(2 * TCP_MSS, CwndStart))

\* The SYN and ACK of the peer.
Established(c, in) ==
  LET d == [c EXCEPT !.rcv_nxt = Plus(in.seqno, 1), !.rcv_ann_right_edge = Plus(in.seqno, 1),
                     !.lastack = in.ackno, !.snd_wnd = in.wnd, !.snd_wnd_max = in.wnd,
                     !.snd_wl1 = Plus(in.seqno, -1), !.state = "ESTABLISHED",
                     !.cwnd = InitialCwnd, !.snd_queuelen = @ - 1,
                     !.unacked = IF @ = <<>> THEN @ ELSE Tail(@),
                     !.unsent = IF c.unacked = <<>> THEN Tail(@) ELSE @]
      e == IF d.unacked = <<>> THEN [d EXCEPT !.rtime = -1]
                               ELSE [d EXCEPT !.rtime = 0, !.nrtx = 0]
  IN AckNow(Call(e, "connected"))

ProcessReset(c, in) ==
  LET acceptable == IF c.state = "SYN_SENT" THEN in.ackno = c.snd_nxt
                                            ELSE in.seqno = c.rcv_nxt
  IN CASE acceptable -> ClearFlags([c EXCEPT !.recv_flags = {"RESET"}], {"ACK_DELAY"})
       [] /\ ~acceptable /\ c.state # "SYN_SENT"
          /\ Between(in.seqno, c.rcv_nxt, NewEdge(c)) -> AckNow(c)
       [] OTHER -> c

ProcessSynSent(c, in, f) ==
  IF in.syn /\ in.ackno = Plus(c.lastack, 1) THEN Established(c, in)
  ELSE LET d == Rst(c, in.ackno, EndOf(in), f) IN
       IF d.nrtx < TCP_SYNMAXRTX
       THEN LET e == RexmitRtoPrepare([d EXCEPT !.rtime = 0])
            IN IF d.unacked = <<>> THEN e ELSE [e EXCEPT !.nrtx = @ + 1]
       ELSE d

\* What the text and its acknowledgement do to the state, before them st.
Advance(st, c, in) ==
  LET fin   == "GOT_FIN" \in c.recv_flags
      acked == in.ackno = c.snd_nxt /\ c.unsent = <<>>
      s     == IF fin THEN AckNow(c) ELSE c
  IN CASE st \in {"ESTABLISHED", "CLOSE_WAIT"} ->
            IF fin THEN [s EXCEPT !.state = "CLOSE_WAIT"] ELSE s
       [] st = "FIN_WAIT_1" ->
            CASE fin /\ acked   -> TimeWait(s)
              [] fin /\ ~acked  -> [s EXCEPT !.state = "CLOSING"]
              [] ~fin /\ acked  -> [s EXCEPT !.state = "FIN_WAIT_2"]
              [] OTHER          -> s
       [] st = "FIN_WAIT_2" -> IF fin THEN TimeWait(s) ELSE s
       [] st = "CLOSING" -> IF acked THEN TimeWait(s) ELSE s
       [] st = "LAST_ACK" ->
            IF acked THEN [s EXCEPT !.recv_flags = @ \cup {"CLOSED"}] ELSE s

\* The states after the handshake.
ProcessText(c, in, f) ==
  Advance(c.state, Receive(c, in, f), in)

Process(c, in, f) ==
  CASE in.rst -> ProcessReset(c, in)
    [] ~in.rst /\ in.syn /\ c.state # "SYN_SENT" -> AckNow(c)
    [] OTHER -> LET d == [c EXCEPT !.persist_probe = 0] IN
                IF c.state = "SYN_SENT" THEN ProcessSynSent(d, in, f)
                                        ELSE ProcessText(d, in, f)

\* tcp_timewait_input.
TimeWaitInput(c, in, f) ==
  CASE in.rst -> c
    [] ~in.rst /\ in.syn /\ Between(in.seqno, c.rcv_nxt, NewEdge(c)) ->
         Rst(c, in.ackno, EndOf(in), f)
    [] OTHER -> IF TcpLen(in) > 0 THEN Output(AckNow(c), f) ELSE c

\* What tcp_input does with the globals tcp_process left: tell the application
\* and try to send something.
Finish(c, f) ==
  LET fin == "GOT_FIN" \in c.recv_flags
      d   == [c EXCEPT !.rcv_wnd = IF fin THEN LesserOf(@ + 1, TCP_WND) ELSE @]
  IN IF "RESET" \in c.recv_flags THEN Free(Call(c, "ERR_RST"))
     ELSE IF "CLOSED" \in c.recv_flags THEN Free(Call(c, "ERR_CLSD"))
     ELSE Output(IF fin THEN Call(d, "closed") ELSE d, f)

Input(c, in, f) ==
  CASE c.state = "FREE" ->
         IF in.rst THEN c ELSE Rst(c, in.ackno, EndOf(in), f)
    [] c.state = "TIME_WAIT" -> TimeWaitInput(c, in, f)
    [] OTHER -> Finish(Process(c, in, f), f)

-----------------------------------------------------------------------------
(* tcp.c: the timers *)

PersistTimeout(c, f) ==
  IF c.snd_wnd = 0 THEN Probe(c, f)
  ELSE LET d == Split(c, c.snd_wnd, f) IN
       IF c.unsent = <<>> \/ (f = "mem" /\ Len(Head(c.unsent).data) > c.snd_wnd)
       THEN c ELSE Output(d, f)

RexmitTimeout(c, f) ==
  LET p == RexmitRtoPrepare(c) IN
  IF p.unsent = <<>> THEN c
  ELSE RexmitRtoCommit([p EXCEPT !.rtime = 0, !.ssthresh = HalfWindow(c),
                                 !.cwnd = TCP_MSS, !.bytes_acked = 0], f)

Spent(c) ==
  \/ c.state = "SYN_SENT" /\ c.nrtx >= TCP_SYNMAXRTX
  \/ c.nrtx >= TCP_MAXRTX
  \/ c.persist_backoff > 0 /\ c.persist_probe >= TCP_MAXRTX

TimerExpires(c, f) ==
  CASE c.persist_backoff > 0 -> PersistTimeout(c, f)
    [] c.persist_backoff = 0 /\ c.rtime >= 0 -> RexmitTimeout(c, f)
    [] OTHER -> c

\* What waits out of sequence is given up after a while, and so is the connection.
EndSlowTmr(c, remove, idle, f) ==
  IF remove THEN Free(Call(c, "ERR_ABRT"))
  ELSE Output(IF idle THEN [c EXCEPT !.ooseq = <<>>] ELSE c, f)

SlowTmrSilent(c, due, idle, f) ==
  IF c.nrtx >= TCP_MAXRTX THEN Free(c) ELSE IF due THEN RexmitTimeout(c, f) ELSE c

\* tcp_slowtmr; due: the running timer has expired, idle: so have the limits on
\* inactivity.
SlowTmr(c, due, idle, f) ==
  IF c.state = "TIME_WAIT" THEN IF idle THEN Free(c) ELSE c
  ELSE EndSlowTmr(IF Spent(c) \/ ~due THEN c ELSE TimerExpires(c, f),
                  Spent(c) \/ (idle /\ c.state = "LAST_ACK"), idle, f)

ClosePending(c, f) ==
  IF "CLOSEPEND" \in c.flags /\ c.state \in {"ESTABLISHED", "CLOSE_WAIT"}
  THEN CloseShutdownFin(ClearFlags(c, {"CLOSEPEND"}), f)
  ELSE ClearFlags(c, {"CLOSEPEND"})

\* tcp_fasttmr, on active control blocks.
FastTmr(c, f) ==
  ClosePending(IF "ACK_DELAY" \in c.flags
               THEN ClearFlags(Output(AckNow(c), f), {"ACK_DELAY", "ACK_NOW"}) ELSE c, f)
=============================================================================
