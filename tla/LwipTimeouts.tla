---------------------------- MODULE LwipTimeouts ----------------------------
(***************************************************************************)
(* lwIP's timers (core/timeouts.c) as the main loop drives them: the list  *)
(* of timeouts ordered by a clock that wraps, the cyclic timers, and the   *)
(* TCP timer that runs only while there are connections.                   *)
(*                                                                         *)
(* sys_check_timeouts is a loop whose handlers take time: one iteration is *)
(* one step, Poll to CheckEnd the whole call.  Each timeout carries        *)
(* left, the time that truly remains until it is due, which the code does  *)
(* not have: it compares 32-bit times by subtraction.                      *)
(***************************************************************************)
EXTENDS Integers, Sequences, FiniteSets

CONSTANTS
  ClockMod,            \* 2^32, where sys_now wraps
  lwip_cyclic_timers,  \* the sequence of the cyclic timers other than TCP's
  Interval,            \* their periods; Interval["tcp"] is TCP_TMR_INTERVAL
  MEMP_NUM_SYS_TIMEOUT,
  MaxPause,            \* the longest time between two steps
  MaxLag               \* the longest run of a handler

Cyclic == {lwip_cyclic_timers[k] : k \in 1..Len(lwip_cyclic_timers)}
Timers == Cyclic \cup {"tcp"}

\* One run of every handler.
LongestCheck == MaxLag * (Len(lwip_cyclic_timers) + 1)

\* The periods are those sys_timeout allows, there is an entry of the pool for every timer
\* (opt.h: LWIP_NUM_SYS_TIMEOUT_INTERNAL), and the clock does not get half way round between
\* two calls of sys_check_timeouts.
ASSUME TimeoutsAssumption ==
  /\ ClockMod \in Nat /\ ClockMod % 2 = 0
  /\ lwip_cyclic_timers \in Seq(Cyclic) /\ "tcp" \notin Cyclic
  /\ \A j, k \in 1..Len(lwip_cyclic_timers) :
       lwip_cyclic_timers[j] = lwip_cyclic_timers[k] => j = k
  /\ MEMP_NUM_SYS_TIMEOUT \in Nat /\ MEMP_NUM_SYS_TIMEOUT > Len(lwip_cyclic_timers)
  /\ MaxPause \in Nat /\ MaxLag \in Nat
  /\ \A h \in Timers :
       /\ Interval[h] \in 1..(ClockMod \div 4)
       /\ Interval[h] + MaxPause + 2 * LongestCheck < ClockMod \div 2

VARIABLES
  clock,               \* sys_now()
  timeouts,            \* the list next_timeout, of [time, h, left]
  phase,               \* "check" in sys_check_timeouts, else "round"
  since,               \* the time that passed since sys_check_timeouts began
  tcpip_tcp_timer_active,
  connections,         \* tcp_active_pcbs or tcp_tw_pcbs is not empty
  ranLast              \* the handler that ran in the last step, or none

timeoutsVars ==
  <<clock, timeouts, phase, since, tcpip_tcp_timer_active, connections, ranLast>>

\* TIME_LESS_THAN.
TimeLessThanPlain(t, u) == t < u

TimeLessThan(t, u) == (t - u) % ClockMod > ClockMod \div 2 - 1

\* sys_timeout_abs: in front of the first timeout that is later.  When the pool
\* is empty the timeout is lost; the assertion does nothing in this port.
Insert(list, t) ==
  LET later == {i \in 1..Len(list) : TimeLessThan(t.time, list[i].time)}
      first == CHOOSE i \in later : \A j \in later : i <= j
  IN IF Len(list) = MEMP_NUM_SYS_TIMEOUT THEN list
     ELSE IF later = {} THEN Append(list, t)
     ELSE SubSeq(list, 1, first - 1) \o <<t>> \o SubSeq(list, first, Len(list))

\* A timeout of h that is due left after the time now.
At(now, h, left) == [time |-> (now + left) % ClockMod, h |-> h, left |-> left]

Elapse(list, n) == [i \in 1..Len(list) |-> [list[i] EXCEPT !.left = @ - n]]

\* sys_timeouts_init: the list after k iterations of its loop.
Started[k \in 0..Len(lwip_cyclic_timers)] ==
  IF k = 0 THEN <<>>
  ELSE LET h == lwip_cyclic_timers[k] IN Insert(Started[k - 1], At(clock, h, Interval[h]))

TimeoutsInit ==
  /\ clock = ClockMod - 1
  /\ timeouts = Started[Len(lwip_cyclic_timers)]
  /\ phase = "round" /\ since = 0 /\ ranLast = "none"
  /\ tcpip_tcp_timer_active = FALSE /\ connections = FALSE

\* tcp_timer_needed, which TCP_REG calls for a new connection.
Connect ==
  /\ phase = "round" /\ ~connections
  /\ connections' = TRUE /\ tcpip_tcp_timer_active' = TRUE
  /\ timeouts' = IF tcpip_tcp_timer_active THEN timeouts
                 ELSE Insert(timeouts, At(clock, "tcp", Interval["tcp"]))
  /\ ranLast' = "none"
  /\ UNCHANGED <<clock, phase, since>>

\* The last connection goes without the timer: a reset, or tcp_abort.
Disconnect ==
  /\ phase = "round" /\ connections /\ connections' = FALSE
  /\ ranLast' = "none"
  /\ UNCHANGED <<clock, timeouts, phase, since, tcpip_tcp_timer_active>>

-----------------------------------------------------------------------------
(* sys_check_timeouts *)

\* The rest of a round of the main loop, in which the console may sleep, and
\* awg_netif_poll.
Poll ==
  /\ phase = "round" /\ phase' = "check" /\ since' = 0
  /\ \E n \in 0..MaxPause :
       /\ clock' = (clock + n) % ClockMod
       /\ timeouts' = Elapse(timeouts, n)
  /\ ranLast' = "none"
  /\ UNCHANGED <<tcpip_tcp_timer_active, connections>>

\* The time sys_check_timeouts read when it began.
Start == (clock - since) % ClockMod

Expired == timeouts # <<>> /\ ~TimeLessThan(Start, Head(timeouts).time)

\* lwip_cyclic_timer, after its handler took lag: the next period follows the
\* last one, unless it is over already.
Rescheduled(due, now, h, late) ==
  LET next == (due + Interval[h]) % ClockMod
  IN IF TimeLessThan(next, now) THEN At(now, h, Interval[h])
     ELSE [time |-> next, h |-> h, left |-> Interval[h] - late]

\* How long ago the first timeout of the list was due, when its handler is done.
Late(lag) == lag - Head(timeouts).left

RunCyclic ==
  /\ phase = "check" /\ Expired /\ Head(timeouts).h # "tcp"
  /\ \E lag \in 0..MaxLag :
       LET t   == Head(timeouts)
           now == (clock + lag) % ClockMod
       IN /\ clock' = now /\ since' = since + lag
          /\ timeouts' = Insert(Elapse(Tail(timeouts), lag),
                                Rescheduled(t.time, now, t.h, Late(lag)))
          /\ ranLast' = t.h
  /\ UNCHANGED <<phase, tcpip_tcp_timer_active, connections>>

\* A mutant: the timer is not started again, though it stays active.
TcpTimerOnce(now, rest, still) ==
  connections' = still /\ timeouts' = rest /\ tcpip_tcp_timer_active' = still

\* tcpip_tcp_timer: tcp_tmr may close the last connection.
TcpTimer(now, rest, still) ==
  /\ connections' = still
  /\ timeouts' = IF still THEN Insert(rest, At(now, "tcp", Interval["tcp"])) ELSE rest
  /\ tcpip_tcp_timer_active' = still

RunTcp ==
  /\ phase = "check" /\ Expired /\ Head(timeouts).h = "tcp"
  /\ \E lag \in 0..MaxLag, still \in {FALSE, connections} :
       LET now == (clock + lag) % ClockMod
       IN /\ clock' = now /\ since' = since + lag
          /\ TcpTimer(now, Elapse(Tail(timeouts), lag), still)
  /\ ranLast' = "tcp" /\ UNCHANGED phase

CheckEnd ==
  /\ phase = "check" /\ ~Expired
  /\ phase' = "round" /\ since' = 0 /\ ranLast' = "none"
  /\ UNCHANGED <<clock, timeouts, tcpip_tcp_timer_active, connections>>

TimeoutsNext ==
  Connect \/ Disconnect \/ Poll \/ RunCyclic \/ RunTcp \/ CheckEnd

TimeoutsSpec == TimeoutsInit /\ [][TimeoutsNext]_timeoutsVars

\* Time goes on, and only a round of the main loop and the handlers take any: so
\* the loop goes round, and sys_check_timeouts goes on while a timeout has expired.
TimeoutsFairSpec ==
  TimeoutsSpec /\ []<>(clock < ClockMod \div 2) /\ []<>(clock >= ClockMod \div 2)

-----------------------------------------------------------------------------
(* Properties *)

\* Every variable stays in its range: no time is beyond the width of sys_now
\* (sys_timeout_abs).
TimeoutsTypeOK ==
  /\ clock \in 0..(ClockMod - 1) /\ since \in Nat /\ phase \in {"round", "check"}
  /\ \A i \in 1..Len(timeouts) :
       timeouts[i].time \in 0..(ClockMod - 1) /\ timeouts[i].h \in Timers
  /\ tcpip_tcp_timer_active \in BOOLEAN /\ connections \in BOOLEAN

\* The list is in the order in which the timeouts are truly due, across the wrap
\* of the clock, and the 32-bit times agree with the time that is left
\* (TIME_LESS_THAN; sys_arch.c: "Wrapping after 49 days is fine").
DueInOrder ==
  /\ \A i \in 1..Len(timeouts) : timeouts[i].time = (clock + timeouts[i].left) % ClockMod
  /\ \A i \in 1..(Len(timeouts) - 1) : timeouts[i].left <= timeouts[i + 1].left

\* No timer is lost or doubled: each cyclic timer is in the list once, the TCP
\* timer once if it is active and not at all otherwise, and it is active
\* whenever there are connections (tcp_timer_needed, tcpip_tcp_timer).
TimersRun ==
  LET Count(h) == Cardinality({i \in 1..Len(timeouts) : timeouts[i].h = h})
  IN /\ \A h \in Cyclic : Count(h) = 1
     /\ Count("tcp") = IF tcpip_tcp_timer_active THEN 1 ELSE 0
     /\ connections => tcpip_tcp_timer_active

\* However long the pause was, up to MaxPause, one call of sys_check_timeouts takes no longer
\* than one run of every handler: it does not make up for the periods missed
\* (lwip_cyclic_timer's "overload"), and so it returns.
NoCatchUp == since <= LongestCheck

\* No timer is lost, doubled or misplaced in the list, across the wrap of the clock, and
\* none runs more than once to make up for a pause.
TimersConsistent == TimeoutsTypeOK /\ DueInOrder /\ TimersRun /\ NoCatchUp

\* A handler runs when its time has come, never before, and what was due when
\* sys_check_timeouts began has run when it returns.
OnTime ==
  [][/\ (RunCyclic \/ RunTcp) => Head(timeouts).left + since <= 0
     /\ CheckEnd => \A i \in 1..Len(timeouts) : timeouts[i].left + since > 0]_timeoutsVars

\* Every cyclic timer runs again and again, and so does the TCP timer while
\* there are connections.
TimersKeepRunning ==
  /\ \A h \in Cyclic : []<>(ranLast = h)
  /\ []<>(ranLast = "tcp" \/ ~connections)
=============================================================================
