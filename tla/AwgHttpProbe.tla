---------------------------- MODULE AwgHttpProbe ----------------------------
(***************************************************************************)
(* The liveness check of the main loop (main_switch.c): every five minutes *)
(* a page is fetched through the tunnel over lwIP's raw TCP interface.     *)
(*                                                                         *)
(* A pass of the loop rebuilds the tunnel when it is lost, starts a fetch  *)
(* when one is due, reports one that has ended, and then drains the socket *)
(* and serves lwIP's timers, during which lwIP calls back, any number of   *)
(* times.  conn is lwIP's side: the connection the probe opened last.      *)
(***************************************************************************)
EXTENDS Naturals

CONSTANT MaxFetches    \* bound on the fetches of a behaviour

ASSUME ProbeAssumption == MaxFetches \in Nat

VARIABLES
  pass,                \* where the pass is: "start", "report", "callbacks"
  g_http,
  g_pcb,               \* does it point to a pcb?
  g_http_bytes,        \* has anything come?
  conn,                \* [state, recv, err]: its state, and are the callbacks set?
  orphans,             \* history: pcbs nobody points to any more
  due,                 \* now >= next_fetch, with the interface and the session up
  fetches, fetches_ok, fetches_failed

probeVars ==
  <<pass, g_http, g_pcb, g_http_bytes, conn, orphans, due, fetches, fetches_ok, fetches_failed>>

Busy == g_http \in {"CONNECTING", "SENT", "GOT_DATA"}

NoConn == [state |-> "none", recv |-> FALSE, err |-> FALSE]

Live == conn.state # "none"

ProbeInit ==
  /\ pass = "start" /\ g_http = "IDLE" /\ g_pcb = FALSE /\ g_http_bytes = FALSE
  /\ conn = NoConn /\ orphans = 0 /\ due \in BOOLEAN
  /\ fetches = 0 /\ fetches_ok = 0 /\ fetches_failed = 0

\* http_reset, as part of another step: tcp_abort frees the pcb without a callback.
HttpReset(then) ==
  /\ orphans' = orphans + (IF Live /\ ~ g_pcb THEN 1 ELSE 0)
  /\ conn' = then

\* http_start: tcp_new may find no pcb, and tcp_connect no route or no port.
HttpStart ==
  /\ g_http_bytes' = FALSE
  /\ \/ g_http' = "FAILED" /\ g_pcb' = FALSE /\ HttpReset(NoConn)
     \/ g_http' = "FAILED" /\ g_pcb' = TRUE
        /\ HttpReset([state |-> "closed", recv |-> FALSE, err |-> TRUE])
     \/ g_http' = "CONNECTING" /\ g_pcb' = TRUE
        /\ HttpReset([state |-> "connecting", recv |-> FALSE, err |-> TRUE])

Start ==
  /\ pass = "start" /\ pass' = "report"
  /\ IF due /\ ~ Busy /\ fetches < MaxFetches
     THEN HttpStart /\ fetches' = fetches + 1 /\ due' = FALSE
     ELSE UNCHANGED <<g_http, g_pcb, g_http_bytes, conn, orphans, fetches, due>>
  /\ UNCHANGED <<fetches_ok, fetches_failed>>

\* The tunnel is rebuilt while the old connection goes on.
RebuiltKeepsConnection ==
  /\ pass = "start" /\ pass' = "report"
  /\ g_http' = "IDLE" /\ due' = FALSE
  /\ UNCHANGED <<g_pcb, conn, orphans, g_http_bytes, fetches, fetches_ok, fetches_failed>>

\* A rebuild that got its socket lets go of the fetch, wherever it is.  None is started in
\* this pass: next_fetch is 0, but there is no session yet.
Rebuilt ==
  /\ pass = "start" /\ pass' = "report"
  /\ HttpReset(NoConn) /\ g_pcb' = FALSE /\ g_http' = "IDLE" /\ due' = FALSE
  /\ UNCHANGED <<g_http_bytes, fetches, fetches_ok, fetches_failed>>

\* A finished fetch is reported and forgotten.
Report ==
  /\ pass = "report" /\ pass' = "callbacks"
  /\ IF g_http \in {"DONE", "FAILED"}
     THEN /\ fetches_ok' = fetches_ok + (IF g_http = "DONE" THEN 1 ELSE 0)
          /\ fetches_failed' = fetches_failed + (IF g_http = "FAILED" THEN 1 ELSE 0)
          /\ HttpReset(NoConn) /\ g_pcb' = FALSE /\ g_http' = "IDLE"
     ELSE UNCHANGED <<g_http, g_pcb, conn, orphans, fetches_ok, fetches_failed>>
  /\ UNCHANGED <<g_http_bytes, due, fetches>>

Calling == pass = "callbacks" /\ UNCHANGED <<pass, due, orphans, fetches, fetches_ok, fetches_failed>>

\* http_on_connected; tcp_write may find no memory.
OnConnected ==
  /\ Calling /\ conn.state = "connecting"
  /\ conn' = [conn EXCEPT !.state = "open", !.recv = TRUE]
  /\ g_http' \in {"SENT", "FAILED"}
  /\ UNCHANGED <<g_pcb, g_http_bytes>>

\* http_on_recv with data.
OnData ==
  /\ Calling /\ conn.state = "open" /\ conn.recv
  /\ g_http' = "GOT_DATA" /\ g_http_bytes' = TRUE
  /\ UNCHANGED <<g_pcb, conn>>

\* http_on_recv with the end of the stream.
OnEnd ==
  /\ Calling /\ conn.state = "open" /\ conn.recv
  /\ conn' = [conn EXCEPT !.state = "ended"]
  /\ g_http' = IF g_http_bytes THEN "DONE" ELSE "FAILED"
  /\ UNCHANGED <<g_pcb, g_http_bytes>>

\* A reset, a timeout, or another connection that needs the pcb: lwIP frees it, and calls
\* http_on_err if it is set.
OnErr ==
  /\ Calling /\ conn.state \in {"connecting", "open", "ended"}
  /\ conn' = NoConn
  /\ IF conn.err THEN g_pcb' = FALSE /\ g_http' = "FAILED" ELSE UNCHANGED <<g_pcb, g_http>>
  /\ UNCHANGED g_http_bytes

\* The rest of the pass; time goes by, the session comes and goes.
PassOver ==
  /\ pass = "callbacks" /\ pass' = "start" /\ due' \in BOOLEAN
  /\ UNCHANGED <<g_http, g_pcb, g_http_bytes, conn, orphans, fetches, fetches_ok, fetches_failed>>

ProbeNext == Rebuilt \/ Start \/ Report \/ OnConnected \/ OnData \/ OnEnd \/ OnErr \/ PassOver

ProbeSpec == ProbeInit /\ [][ProbeNext]_probeVars

-----------------------------------------------------------------------------
\* Every variable is in its range.
ProbeTypeOK ==
  /\ g_http \in {"IDLE", "CONNECTING", "SENT", "GOT_DATA", "DONE", "FAILED"}
  /\ g_pcb \in BOOLEAN
  /\ conn \in [state : {"none", "closed", "connecting", "open", "ended"},
               recv : BOOLEAN, err : BOOLEAN]
  /\ fetches \in 0..MaxFetches /\ orphans \in Nat
  /\ fetches_ok \in 0..MaxFetches /\ fetches_failed \in 0..MaxFetches

\* While the probe is busy it has a connection whose end it will be told of: nothing else
\* makes it idle again (main_switch.c:658).
BusyIsConnected == Busy => g_pcb /\ Live /\ conn.err

\* The probe holds no more than the one pcb it points to, of a pool of twelve that the
\* proxy lives on, and none at all when it is idle, whatever order lwIP's callbacks come
\* in: no callback of a fetch that was given up can be taken for one of the next.
OnePcb == orphans = 0 /\ (g_pcb <=> Live) /\ (g_http = "IDLE" => ~ Live)

\* No fetch is reported twice.  Not every one is reported once (main_switch.c:668): one that
\* ends after the next is due is replaced before it is looked at, and a rebuild drops one in
\* whatever state it is.
NeverReportedTwice ==
  fetches_ok + fetches_failed + (IF g_http = "IDLE" THEN 0 ELSE 1) <= fetches

\* The probe, lwIP's side of its connection and the counters agree, in whatever order lwIP
\* calls back and whenever the tunnel is rebuilt under a fetch.
ProbeConsistent == ProbeTypeOK /\ BusyIsConnected /\ OnePcb /\ NeverReportedTwice

\* The inductive invariant: every connection, also one that is over, has its error callback.
ProbeInv ==
  /\ ProbeTypeOK /\ BusyIsConnected /\ OnePcb /\ NeverReportedTwice
  /\ Live => conn.err
=============================================================================
