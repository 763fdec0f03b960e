--------------------------- MODULE AwgParts_proofs ---------------------------
(***************************************************************************)
(* What three of the small parts of the client guarantee: the reader of    *)
(* power transitions, the probe and the loader of the configuration.  They *)
(* share no state; each section is about one of them.                      *)
(***************************************************************************)
EXTENDS AwgPower, AwgHttpProbe, AwgConfig, TLAPS

-----------------------------------------------------------------------------
(***************************************************************************)
(* What awg_power_transition() guarantees, for every batch, every size of  *)
(* the log and every past.                                                 *)
(***************************************************************************)

USE PowerAssumption

\* Where a query starts, when there is something new in the log: after what was
\* read, no more than a batch back, and skipping only what is out of reach.
LEMMA FromReaches ==
  ASSUME NEW newest \in Int, g_last_end \in Int, first \in Int,
         g_last_end < newest, g_last_end >= 0, first <= newest
  PROVE  /\ From(newest) \in g_last_end + 1 .. newest
         /\ newest - From(newest) + 1 \in 1 .. EVENT_BATCH
         /\ \A x \in g_last_end + 1 .. From(newest) - 1 :
               x <= newest - EVENT_BATCH \/ x < first
BY DEF From, AtLeast

\* The invariant holds before the first query.
LEMMA PowerInitially == PowerInit => PowerInv
<1> SUFFICES ASSUME PowerInit PROVE PowerInv
  OBVIOUS
<1>1. log \in Seq(Kinds) /\ Len(log) \in Nat
  BY DEF PowerInit
<1>2. PowerTypeOK /\ first <= AtLeast(0, Newest)
  BY <1>1 DEF PowerInit, PowerTypeOK, Newest, AtLeast
<1> QED
  BY <1>2 DEF PowerInit, PowerInv, QueryFits, CallInv, ReportsInv, NeverTwice,
              NothingOld, NoSilentLoss

-----------------------------------------------------------------------------
(* The answered query *)

\* What a query brings is new, within what was announced, and a transition.
LEMMA GotIsNew ==
  ASSUME PowerInv, pc = "query"
  PROVE  /\ Got \subseteq g_last_end + 1 .. last
         /\ \A x \in from .. last : x >= first /\ IsTransition(x) => x \in Got
<1>1. /\ Want = last - from + 1 /\ from \in Nat /\ last \in Nat /\ Newest \in Int
      /\ g_last_end \in Int /\ from > g_last_end /\ last <= Newest
  BY DEF PowerInv, PowerTypeOK, QueryFits, CallInv, Want, Newest
<1> QED  BY <1>1 DEF Got

\* A query of the log keeps the invariant.
LEMMA QueryKeeps == PowerInv /\ Query => PowerInv'
<1> SUFFICES ASSUME PowerInv, Query PROVE PowerInv'
  OBVIOUS
<1> DEFINE gone == {x \in g_last_end + 1 .. last : x <= last - EVENT_BATCH \/ x < first}
<1>1. /\ pc = "query" /\ pc' = "idle" /\ g_last_end' = last
      /\ reports' = IF Got # {} THEN Append(reports, Got) ELSE reports
      /\ pushed' = pushed \cup gone
      /\ UNCHANGED <<log, first, g_ok, from, last, mark>>
  BY DEF Query, system
<1>2. /\ g_last_end \in Nat /\ last \in Nat /\ from \in Nat /\ first \in Nat
      /\ mark \in 0 .. g_last_end /\ Len(log) \in Nat
      /\ g_last_end < from /\ from <= last /\ last <= Newest
      /\ reports \in Seq(SUBSET Nat)
  BY <1>1 DEF PowerInv, PowerTypeOK, QueryFits, CallInv, ReportsInv, Newest
<1>3. Got \subseteq g_last_end + 1 .. last /\ Got \in SUBSET Nat
  BY <1>1, <1>2, GotIsNew
<1>4. Newest' = Newest
  BY <1>1 DEF Newest
<1>5. /\ reports' \in Seq(SUBSET Nat)
      /\ \A j \in DOMAIN reports : j \in DOMAIN reports' /\ reports'[j] = reports[j]
      /\ \A j \in DOMAIN reports' : j \notin DOMAIN reports => reports'[j] = Got
      /\ \A j, k \in DOMAIN reports' :
            j \notin DOMAIN reports /\ k \notin DOMAIN reports => j = k
      /\ Got # {} => \E j \in DOMAIN reports' : reports'[j] = Got
  <2>1. CASE Got = {}
    BY <1>1, <1>2, <2>1
  <2>2. CASE Got # {}
    <3>1. reports' = Append(reports, Got)
      BY <1>1, <2>2
    <3>2. /\ Len(reports') = Len(reports) + 1 /\ Len(reports) \in Nat
          /\ DOMAIN reports = 1 .. Len(reports) /\ DOMAIN reports' = 1 .. Len(reports')
          /\ reports' \in Seq(SUBSET Nat)
          /\ \A j \in 1 .. Len(reports) : reports'[j] = reports[j]
          /\ reports'[Len(reports) + 1] = Got
      BY <1>2, <1>3, <3>1
    <3> QED  BY <3>2
  <2> QED  BY <2>1, <2>2
<1>6. PowerTypeOK' /\ (first <= AtLeast(0, Newest))'
  <2>1. pushed' \subseteq Nat
    <3>1. gone \subseteq Nat
      BY <1>2
    <3>2. pushed \subseteq Nat
      BY DEF PowerInv, PowerTypeOK
    <3> HIDE DEF gone
    <3> QED  BY <1>1, <3>1, <3>2
  <2>2. g_ok' \in BOOLEAN
    BY <1>1 DEF PowerInv, PowerTypeOK
  <2>3. /\ log' \in Seq(Kinds) /\ Len(log') \in Nat
        /\ first' \in 0 .. Len(log') /\ first' <= AtLeast(0, Newest')
    BY <1>1, <1>4 DEF PowerInv, PowerTypeOK
  <2>4. /\ g_last_end' \in -1 .. Newest' /\ mark' \in -1 .. g_last_end'
        /\ from' \in 0 .. Len(log') /\ last' \in 0 .. Len(log')
    BY <1>1, <1>2, <1>4 DEF PowerInv, PowerTypeOK
  <2> QED  BY <1>1, <1>5, <2>1, <2>2, <2>3, <2>4 DEF PowerTypeOK
<1>7. QueryFits' /\ CallInv'
  BY <1>1 DEF QueryFits, CallInv
<1>8. ReportsInv'
  BY <1>1, <1>2, <1>3, <1>5 DEF PowerInv, ReportsInv
<1>9. NeverTwice'
  <2> SUFFICES ASSUME NEW j \in DOMAIN reports', NEW k \in DOMAIN reports', j # k,
                      NEW x \in reports'[j], x \in reports'[k]
               PROVE  FALSE
    BY DEF NeverTwice
  <2>1. \A m \in DOMAIN reports : \A n \in reports'[m] : n <= g_last_end
    BY <1>5 DEF PowerInv, ReportsInv
  <2>2. \A m \in DOMAIN reports' : m \notin DOMAIN reports
           => \A n \in reports'[m] : n > g_last_end /\ n \in Nat
    BY <1>2, <1>3, <1>5
  <2>3. CASE j \in DOMAIN reports /\ k \in DOMAIN reports
    BY <2>3, <1>5 DEF PowerInv, NeverTwice
  <2> QED  BY <2>1, <2>2, <2>3, <1>2, <1>5
<1>10. NothingOld'
  BY <1>1, <1>2, <1>3, <1>5 DEF PowerInv, NothingOld
<1>11. NoSilentLoss'
  <2> SUFFICES ASSUME NEW x \in mark + 1 .. last, IsTransition(x), x \notin pushed'
               PROVE  \E j \in DOMAIN reports' : x \in reports'[j]
    BY <1>1 DEF NoSilentLoss, IsTransition
  <2>1. CASE x <= g_last_end
    <3>1. PICK j \in DOMAIN reports : x \in reports[j]
      BY <1>1, <1>2, <2>1 DEF PowerInv, NoSilentLoss
    <3> QED  BY <3>1, <1>5
  <2>2. CASE x > g_last_end
    <3>1. x > last - EVENT_BATCH /\ x >= first
      BY <1>1, <1>2, <2>2
    <3>2. x >= from
      BY <1>1, <1>2, <2>2, <3>1 DEF PowerInv, CallInv
    <3>3. x \in Got
      BY <1>1, <1>2, <3>1, <3>2, GotIsNew
    <3> QED  BY <3>3, <1>5
  <2> QED  BY <1>2, <2>1, <2>2
<1> QED
  BY <1>6, <1>7, <1>8, <1>9, <1>10, <1>11 DEF PowerInv
-----------------------------------------------------------------------------
(* The other steps *)

\* The first look.
LEMMA FirstLookKeeps == PowerInv /\ FirstLook => PowerInv'
<1> SUFFICES ASSUME PowerInv, FirstLook PROVE PowerInv'
  OBVIOUS
<1>1. /\ pc = "idle" /\ g_last_end < 0 /\ Newest > g_last_end
      /\ g_last_end' = Newest /\ mark' = Newest
      /\ UNCHANGED <<log, first, g_ok, pc, from, last, reports, pushed>>
  BY DEF FirstLook, system
<1>2. /\ Newest \in Nat /\ Len(log) \in Nat /\ Newest' = Newest
      /\ g_last_end = -1 /\ mark = -1
  BY <1>1 DEF PowerInv, PowerTypeOK, ReportsInv, Newest
<1>3. \A j \in DOMAIN reports : reports[j] = {}
  BY <1>2 DEF PowerInv, NothingOld
<1>4. g_ok' \in BOOLEAN
  BY <1>1 DEF PowerInv, PowerTypeOK
<1>5. PowerTypeOK' /\ (first <= AtLeast(0, Newest))'
  BY <1>1, <1>2, <1>4 DEF PowerInv, PowerTypeOK, AtLeast
<1>6. QueryFits' /\ CallInv' /\ ReportsInv'
  BY <1>1, <1>2, <1>3 DEF QueryFits, CallInv, ReportsInv
<1>7. NeverTwice' /\ NothingOld' /\ NoSilentLoss'
  BY <1>1, <1>2, <1>3 DEF NeverTwice, NothingOld, NoSilentLoss
<1> QED  BY <1>5, <1>6, <1>7 DEF PowerInv

\* The range is known and the query is about to be made.
LEMMA AskRangeKeeps == PowerInv /\ AskRange => PowerInv'
<1> SUFFICES ASSUME PowerInv, AskRange PROVE PowerInv'
  OBVIOUS
<1>1. /\ pc' = "query" /\ last' = Newest /\ from' = From(Newest)
      /\ Newest > g_last_end /\ g_last_end >= 0
      /\ UNCHANGED <<log, first, g_ok, g_last_end, mark, reports, pushed>>
  BY DEF AskRange, system, history
<1>2. /\ Newest \in Nat /\ Len(log) = Newest + 1 /\ g_last_end \in Nat
      /\ first \in Nat /\ first <= Newest /\ Newest' = Newest
  BY <1>1 DEF PowerInv, PowerTypeOK, Newest, AtLeast
<1>3. /\ from' \in g_last_end + 1 .. Newest
      /\ Newest - from' + 1 \in 1 .. EVENT_BATCH
      /\ \A x \in g_last_end + 1 .. from' - 1 :
            x <= Newest - EVENT_BATCH \/ x < first
  BY <1>1, <1>2, FromReaches
<1>4. PowerTypeOK' /\ (first <= AtLeast(0, Newest))'
  <2>1. g_ok' \in BOOLEAN
    BY <1>1 DEF PowerInv, PowerTypeOK
  <2>2. from' \in 0 .. Len(log') /\ last' \in 0 .. Len(log')
    BY <1>1, <1>2, <1>3
  <2> QED  BY <1>1, <1>2, <2>1, <2>2 DEF PowerInv, PowerTypeOK
<1>5. QueryFits' /\ CallInv' /\ ReportsInv'
  BY <1>1, <1>2, <1>3 DEF PowerInv, QueryFits, CallInv, ReportsInv
<1>6. NeverTwice' /\ NothingOld' /\ NoSilentLoss'
  BY <1>1 DEF PowerInv, NeverTwice, NothingOld, NoSilentLoss, IsTransition
<1> QED  BY <1>4, <1>5, <1>6 DEF PowerInv

\* The system writes: indices keep their meaning, and what is skipped stays out
\* of reach.
LEMMA WriteKeeps == PowerInv /\ Write => PowerInv'
<1> SUFFICES ASSUME PowerInv, Write PROVE PowerInv'
  OBVIOUS
<1>1. PICK kind \in Kinds : log' = Append(log, kind)
  BY DEF Write
<1>2. /\ first' = AtLeast(first, Len(log) + 1 - LogSize)
      /\ UNCHANGED <<g_ok, g_last_end, pc, from, last, mark, reports, pushed>>
  BY DEF Write, history
<1>3. /\ log \in Seq(Kinds) /\ Len(log) \in Nat /\ log' \in Seq(Kinds)
      /\ Len(log') = Len(log) + 1
      /\ \A n \in 1 .. Len(log) : log'[n] = log[n]
  BY <1>1 DEF PowerInv, PowerTypeOK
<1>4. /\ first \in 0 .. Len(log) /\ first' \in first .. Len(log)
      /\ Newest = Len(log) - 1 /\ Newest' = Len(log)
  BY <1>2, <1>3 DEF PowerInv, PowerTypeOK, AtLeast, Newest
<1>5. PowerTypeOK' /\ (first <= AtLeast(0, Newest))'
  <2>1. g_ok' \in BOOLEAN
    BY <1>2 DEF PowerInv, PowerTypeOK
  <2>2. first' \in 0 .. Len(log') /\ first' <= AtLeast(0, Newest')
    BY <1>3, <1>4 DEF AtLeast
  <2>3. /\ g_last_end' \in -1 .. Newest' /\ mark' \in -1 .. g_last_end'
        /\ from' \in 0 .. Len(log') /\ last' \in 0 .. Len(log')
    BY <1>2, <1>3, <1>4 DEF PowerInv, PowerTypeOK
  <2> QED  BY <1>2, <1>3, <2>1, <2>2, <2>3 DEF PowerInv, PowerTypeOK
<1>6. QueryFits' /\ CallInv' /\ ReportsInv'
  <2>1. QueryFits' /\ ReportsInv'
    BY <1>2 DEF PowerInv, QueryFits, ReportsInv
  <2>2. CallInv'
    <3> SUFFICES ASSUME pc = "query"
                 PROVE  /\ g_last_end >= 0 /\ from > g_last_end /\ last <= Newest'
                        /\ \A x \in g_last_end + 1 .. from - 1 :
                              x <= last - EVENT_BATCH \/ x < first'
      BY <1>2 DEF CallInv
    <3>1. /\ g_last_end >= 0 /\ from > g_last_end /\ last <= Newest
          /\ \A x \in g_last_end + 1 .. from - 1 : x <= last - EVENT_BATCH \/ x < first
          /\ g_last_end \in Int /\ from \in Int /\ last \in Int
      <4>1. g_last_end \in Int /\ from \in Int /\ last \in Int
        BY <1>3 DEF PowerInv, PowerTypeOK
      <4>2. CallInv
        BY DEF PowerInv
      <4> QED  BY <4>1, <4>2 DEF CallInv
    <3>2. first \in Int /\ first' \in Int /\ first <= first'
      BY <1>3, <1>4
    <3>3. last <= Newest'
      BY <1>3, <1>4, <3>1
    <3> QED  BY <3>1, <3>2, <3>3
  <2> QED  BY <2>1, <2>2
<1>7. NeverTwice' /\ NothingOld'
  BY <1>2 DEF PowerInv, NeverTwice, NothingOld
<1>8. NoSilentLoss'
  <2> SUFFICES ASSUME NEW x \in mark + 1 .. g_last_end, mark >= 0,
                      log'[x + 1] = "power", x \notin pushed
               PROVE  \E j \in DOMAIN reports : x \in reports[j]
    BY <1>2 DEF NoSilentLoss, IsTransition
  <2>1. mark \in Int /\ g_last_end \in Int /\ g_last_end <= Newest
    BY <1>4, <1>3 DEF PowerInv, PowerTypeOK
  <2>2. x + 1 \in 1 .. Len(log)
    BY <1>3, <1>4, <2>1
  <2>3. IsTransition(x)
    BY <1>3, <2>2 DEF IsTransition
  <2> QED  BY <2>3 DEF PowerInv, NoSilentLoss
<1> QED  BY <1>5, <1>6, <1>7, <1>8 DEF PowerInv

\* A query that fails, the end of the module and a step that changes nothing.
LEMMA IdleKeeps ==
  PowerInv /\ (QueryFails \/ PowerStop \/ UNCHANGED powerVars) => PowerInv'
<1> SUFFICES ASSUME PowerInv, QueryFails \/ PowerStop \/ UNCHANGED powerVars
             PROVE  PowerInv'
  OBVIOUS
<1>1. /\ UNCHANGED <<log, first, g_last_end, from, last, mark, reports, pushed>>
      /\ pc' = "idle" \/ pc' = pc
      /\ g_ok' = g_ok \/ g_ok' = FALSE
  BY DEF QueryFails, PowerStop, powerVars, system, history
<1>2. g_ok' \in BOOLEAN /\ pc' \in {"idle", "query"}
  BY <1>1 DEF PowerInv, PowerTypeOK
<1>3. PowerTypeOK' /\ (first <= AtLeast(0, Newest))'
  BY <1>1, <1>2 DEF PowerInv, PowerTypeOK, Newest
<1>4. QueryFits' /\ CallInv' /\ ReportsInv'
  BY <1>1 DEF PowerInv, QueryFits, CallInv, ReportsInv, Newest
<1>5. NeverTwice' /\ NothingOld' /\ NoSilentLoss'
  BY <1>1 DEF PowerInv, NeverTwice, NothingOld, NoSilentLoss, IsTransition
<1> QED  BY <1>3, <1>4, <1>5 DEF PowerInv

-----------------------------------------------------------------------------
(* The results *)

\* The inductive invariant of awg_power.c: it holds at the start and every step
\* keeps it.
THEOREM PowerInvariance == PowerSpec => []PowerInv
<1>1. PowerInv /\ [PowerNext]_powerVars => PowerInv'
  BY QueryKeeps, FirstLookKeeps, AskRangeKeeps, WriteKeeps, IdleKeeps DEF PowerNext
<1> QED  BY PowerInitially, <1>1, PTL DEF PowerSpec

\* Every transition after the first look is behind one answer of awg_power_transition() or
\* was never to be had, and every query fits the buffer, for every size of batch and log.
THEOREM ReportsAreRight == PowerSpec => []EachReportedOnce
<1>1. PowerInv => EachReportedOnce
  BY DEF PowerInv, EachReportedOnce
<1> QED  BY PowerInvariance, <1>1, PTL

\* The log's and the reader's variables keep their ranges.
THEOREM PowerTypes == PowerSpec => []PowerTypeOK
<1>1. PowerInv => PowerTypeOK
  BY DEF PowerInv
<1> QED  BY PowerInvariance, <1>1, PTL

HIDE PowerAssumption

-----------------------------------------------------------------------------
(***************************************************************************)
(* The probe never loses its pcb, is never busy without one and reports no *)
(* fetch twice, however many fetches there are, in whatever order lwIP     *)
(* calls back and whenever the tunnel is rebuilt.                          *)
(***************************************************************************)

USE ProbeAssumption

\* Of counts that add up to no more than a bounded one, each is bounded.
LEMMA CountsBounded ==
  ASSUME NEW a \in Nat, NEW b \in Nat, NEW f \in 0..MaxFetches, a + b <= f
  PROVE  a \in 0..MaxFetches /\ b \in 0..MaxFetches
OBVIOUS

\* http_reset leaves no pcb behind: g_pcb points to the one there is.
LEMMA ResetLeaves ==
  ASSUME ProbeInv, NEW then, HttpReset(then)
  PROVE  orphans' = 0 /\ conn' = then
BY DEF ProbeInv, ProbeTypeOK, OnePcb, HttpReset

\* The start of a pass: a fetch that is due replaces the one before.
LEMMA StartKeeps ==
  ASSUME ProbeInv, Start
  PROVE  ProbeInv'
<1>0. fetches \in Nat /\ fetches_ok \in Nat /\ fetches_failed \in Nat
  BY DEF ProbeInv, ProbeTypeOK
<1>1. CASE due /\ ~ Busy /\ fetches < MaxFetches
  <2>1. HttpStart /\ fetches' = fetches + 1 /\ UNCHANGED <<fetches_ok, fetches_failed>>
    BY <1>1 DEF Start
  <2>2. g_http' # "IDLE" /\ fetches' \in 0..MaxFetches
    BY <1>0, <1>1, <2>1 DEF HttpStart
  <2>3. NeverReportedTwice'
    BY <1>0, <2>1, <2>2 DEF NeverReportedTwice, ProbeInv
  <2>4. orphans' = 0 /\ g_http' \in {"FAILED", "CONNECTING"}
    BY <2>1, ResetLeaves DEF HttpStart
  <2>5. CASE g_http' = "FAILED" /\ g_pcb' = FALSE /\ HttpReset(NoConn)
    <3>1. conn' = [state |-> "none", recv |-> FALSE, err |-> FALSE]
      BY <2>5, ResetLeaves DEF NoConn
    <3>2. ProbeTypeOK'
      BY <1>0, <2>1, <2>2, <2>4, <2>5, <3>1 DEF ProbeInv, ProbeTypeOK
    <3>3. ~ Live' /\ ~ Busy' /\ ~ g_pcb'
      BY <2>5, <3>1 DEF Live, Busy
    <3> QED
      BY <2>3, <2>4, <3>2, <3>3 DEF ProbeInv, BusyIsConnected, OnePcb
  <2>6. CASE /\ g_http' \in {"FAILED", "CONNECTING"} /\ g_pcb' = TRUE
             /\ \E st \in {"closed", "connecting"} :
                  HttpReset([state |-> st, recv |-> FALSE, err |-> TRUE])
    <3>1. /\ conn' \in [state : {"closed", "connecting"}, recv : BOOLEAN, err : BOOLEAN]
          /\ conn'.err
      <4>1. PICK st \in {"closed", "connecting"} :
              HttpReset([state |-> st, recv |-> FALSE, err |-> TRUE])
        BY <2>6
      <4>2. conn' = [state |-> st, recv |-> FALSE, err |-> TRUE]
        BY <4>1, ResetLeaves
      <4> QED
        BY <4>2
    <3>2. ProbeTypeOK'
      BY <1>0, <2>1, <2>2, <2>4, <2>6, <3>1 DEF ProbeInv, ProbeTypeOK
    <3>3. Live' /\ g_pcb'
      BY <2>6, <3>1 DEF Live
    <3> QED
      BY <2>2, <2>3, <2>4, <3>1, <3>2, <3>3 DEF ProbeInv, BusyIsConnected, OnePcb
  <2> QED
    BY <2>1, <2>5, <2>6 DEF HttpStart
<1>2. CASE ~ (due /\ ~ Busy /\ fetches < MaxFetches)
  <2>1. UNCHANGED <<g_http, g_pcb, conn, orphans, fetches, fetches_ok, fetches_failed>>
    BY <1>2 DEF Start
  <2> QED
    BY <2>1 DEF ProbeInv, ProbeTypeOK, BusyIsConnected, OnePcb, NeverReportedTwice, Busy, Live
<1> QED
  BY <1>1, <1>2

\* A rebuild of the tunnel under a fetch: the fetch is forgotten, and its pcb aborted.
LEMMA RebuiltKeeps ==
  ASSUME ProbeInv, Rebuilt
  PROVE  ProbeInv'
<1>0. fetches \in 0..MaxFetches /\ fetches_ok \in Nat /\ fetches_failed \in Nat
  BY DEF ProbeInv, ProbeTypeOK
<1>1. /\ HttpReset(NoConn) /\ g_pcb' = FALSE /\ g_http' = "IDLE"
      /\ UNCHANGED <<fetches, fetches_ok, fetches_failed>>
  BY DEF Rebuilt
<1>2. fetches_ok + fetches_failed <= fetches
  BY <1>0 DEF ProbeInv, NeverReportedTwice
<1>3. NeverReportedTwice'
  BY <1>0, <1>1, <1>2 DEF NeverReportedTwice
<1>4. orphans' = 0 /\ conn' = [state |-> "none", recv |-> FALSE, err |-> FALSE]
  BY <1>1, ResetLeaves DEF NoConn
<1>5. ProbeTypeOK'
  BY <1>1, <1>4 DEF ProbeInv, ProbeTypeOK
<1>6. ~ Live' /\ ~ Busy' /\ ~ g_pcb'
  BY <1>1, <1>4 DEF Live, Busy
<1> QED
  BY <1>3, <1>4, <1>5, <1>6 DEF ProbeInv, BusyIsConnected, OnePcb

\* The report of a finished fetch.
LEMMA ReportKeeps ==
  ASSUME ProbeInv, Report
  PROVE  ProbeInv'
<1>0. fetches \in 0..MaxFetches /\ fetches_ok \in Nat /\ fetches_failed \in Nat
  BY DEF ProbeInv, ProbeTypeOK
<1>1. CASE g_http \in {"DONE", "FAILED"}
  <2>1. /\ HttpReset(NoConn) /\ g_pcb' = FALSE /\ g_http' = "IDLE" /\ fetches' = fetches
        /\ fetches_ok' + fetches_failed' = fetches_ok + fetches_failed + 1
        /\ fetches_ok' \in Nat /\ fetches_failed' \in Nat
    BY <1>0, <1>1 DEF Report
  <2>2. fetches_ok + fetches_failed + 1 <= fetches
    BY <1>0, <1>1 DEF ProbeInv, NeverReportedTwice
  <2>3. fetches_ok' + fetches_failed' <= fetches
    BY <1>0, <2>1, <2>2
  <2>4. /\ NeverReportedTwice'
        /\ fetches_ok' \in 0..MaxFetches /\ fetches_failed' \in 0..MaxFetches
    <3>1. fetches_ok' \in Nat /\ fetches_failed' \in Nat /\ fetches' = fetches /\ g_http' = "IDLE"
      BY <2>1
    <3>2. fetches_ok' \in 0..MaxFetches /\ fetches_failed' \in 0..MaxFetches
      BY <1>0, <2>3, <3>1, CountsBounded
    <3>3. fetches_ok' + fetches_failed' + 0 <= fetches'
      <4>1. fetches_ok' + fetches_failed' + 0 = fetches_ok' + fetches_failed'
        BY <3>1
      <4> QED
        BY <2>3, <3>1, <4>1
    <3>4. NeverReportedTwice'
      BY <3>1, <3>3 DEF NeverReportedTwice
    <3> QED
      BY <3>2, <3>4
  <2>5. orphans' = 0 /\ conn' = [state |-> "none", recv |-> FALSE, err |-> FALSE]
    BY <2>1, ResetLeaves DEF NoConn
  <2>6. ProbeTypeOK'
    BY <1>0, <2>1, <2>4, <2>5 DEF ProbeTypeOK
  <2>7. ~ Live' /\ ~ Busy' /\ ~ g_pcb'
    BY <2>1, <2>5 DEF Live, Busy
  <2> QED
    BY <2>4, <2>5, <2>6, <2>7 DEF ProbeInv, BusyIsConnected, OnePcb
<1>2. CASE g_http \notin {"DONE", "FAILED"}
  <2>1. UNCHANGED <<g_http, g_pcb, conn, orphans, fetches, fetches_ok, fetches_failed>>
    BY <1>2 DEF Report
  <2> QED
    BY <2>1 DEF ProbeInv, ProbeTypeOK, BusyIsConnected, OnePcb, NeverReportedTwice, Busy, Live
<1> QED
  BY <1>1, <1>2

\* A callback of lwIP: there is a connection, so a fetch that is not reported yet.
LEMMA CallbackKeeps ==
  ASSUME ProbeInv, OnConnected \/ OnData \/ OnEnd \/ OnErr
  PROVE  ProbeInv'
<1>1. Live /\ UNCHANGED <<orphans, fetches, fetches_ok, fetches_failed>>
  BY DEF OnConnected, OnData, OnEnd, OnErr, Calling, Live
<1>2. g_http # "IDLE" /\ conn.err /\ g_pcb
  BY <1>1 DEF ProbeInv, OnePcb
<1>3. g_http' \in {"SENT", "GOT_DATA", "DONE", "FAILED"}
  BY <1>2 DEF OnConnected, OnData, OnEnd, OnErr
<1>4. NeverReportedTwice'
  BY <1>1, <1>2, <1>3 DEF NeverReportedTwice, ProbeInv
<1>5. CASE OnConnected
  BY <1>1, <1>2, <1>3, <1>4, <1>5
  DEF OnConnected, ProbeInv, ProbeTypeOK, BusyIsConnected, OnePcb, Busy, Live
<1>6. CASE OnData
  BY <1>1, <1>2, <1>3, <1>4, <1>6
  DEF OnData, ProbeInv, ProbeTypeOK, BusyIsConnected, OnePcb, Busy, Live
<1>7. CASE OnEnd
  BY <1>1, <1>2, <1>3, <1>4, <1>7
  DEF OnEnd, ProbeInv, ProbeTypeOK, BusyIsConnected, OnePcb, Busy, Live
<1>8. CASE OnErr
  BY <1>1, <1>2, <1>3, <1>4, <1>8
  DEF OnErr, ProbeInv, ProbeTypeOK, BusyIsConnected, OnePcb, Busy, Live, NoConn
<1> QED
  BY <1>5, <1>6, <1>7, <1>8

\* The probe's invariant, for any number of fetches.
THEOREM ProbeSafe == ProbeSpec => []ProbeInv
<1>1. ProbeInit => ProbeInv
  <2> SUFFICES ASSUME ProbeInit PROVE ProbeInv
    OBVIOUS
  <2>1. ProbeTypeOK
    <3>1. g_pcb \in BOOLEAN
      BY DEF ProbeInit
    <3>2. /\ fetches \in 0..MaxFetches /\ fetches_ok \in 0..MaxFetches
          /\ fetches_failed \in 0..MaxFetches /\ orphans \in Nat
      BY DEF ProbeInit
    <3>3. conn = [state |-> "none", recv |-> FALSE, err |-> FALSE] /\ g_http = "IDLE"
      BY DEF ProbeInit, NoConn
    <3> QED
      BY <3>1, <3>2, <3>3 DEF ProbeTypeOK
  <2>2. ~ Live /\ ~ Busy /\ ~ g_pcb
    BY DEF ProbeInit, Live, Busy, NoConn
  <2>3. orphans = 0 /\ NeverReportedTwice
    BY DEF ProbeInit, NeverReportedTwice
  <2> QED
    BY <2>1, <2>2, <2>3 DEF ProbeInv, BusyIsConnected, OnePcb
<1>2. ProbeInv /\ [ProbeNext]_probeVars => ProbeInv'
  <2> SUFFICES ASSUME ProbeInv, [ProbeNext]_probeVars PROVE ProbeInv'
    OBVIOUS
  <2>1. CASE PassOver \/ UNCHANGED probeVars
    <3>1. UNCHANGED <<g_http, g_pcb, conn, orphans, fetches, fetches_ok, fetches_failed>>
      BY <2>1 DEF PassOver, probeVars
    <3> QED
      BY <3>1 DEF ProbeInv, ProbeTypeOK, BusyIsConnected, OnePcb, NeverReportedTwice, Busy, Live
  <2> QED
    BY <2>1, RebuiltKeeps, StartKeeps, ReportKeeps, CallbackKeeps DEF ProbeNext
<1> QED
  BY <1>1, <1>2, PTL DEF ProbeSpec

\* The probe holds one pcb or none, is never busy without a connection whose end it will be
\* told of, and counts no fetch twice, for any number of fetches and of rebuilds under them.
THEOREM ProbeStaysConsistent == ProbeSpec => []ProbeConsistent
<1>1. ProbeInv => ProbeConsistent
  BY DEF ProbeInv, ProbeConsistent
<1> QED
  BY <1>1, ProbeSafe, PTL

HIDE ProbeAssumption

-----------------------------------------------------------------------------
(***************************************************************************)
(* Who owns the templates of a configuration, and which of them leak, for  *)
(* any number of slots, lines and addresses: the loader's three invariants *)
(* hold together.                                                          *)
(***************************************************************************)

USE ConfigAssumption

\* No template is pointed to when all slots are empty.
LEMMA NonePointed ==
  ASSUME i = NoTemplates
  PROVE  Pointed = {}
BY DEF NoTemplates, Pointed

\* awg_config_free leaves what has leaked, and nothing else.
LEMMA FreeLeaves ==
  ASSUME ConfigTypeOK, TemplatesOwned, FreeTemplates(i)
  PROVE  i' = NoTemplates /\ chains' = leaked
<1>1. {i[k] : k \in Slots} \cap leaked = {}
  BY DEF ConfigTypeOK, TemplatesOwned, Pointed
<1>2. 0 \notin chains
  BY DEF ConfigTypeOK
<1> QED
  BY <1>1, <1>2 DEF FreeTemplates, TemplatesOwned, Pointed

\* A state in which all slots are empty and only what has leaked is allocated.
LEMMA EmptyIsOwned ==
  ASSUME i' = NoTemplates, chains' = leaked', leaked' \subseteq Chains
  PROVE  /\ TemplatesOwned' /\ NothingHeld'
         /\ i' \in [Slots -> Chains \cup {0}] /\ chains' \subseteq Chains
         /\ leaked' \subseteq chains'
BY DEF TemplatesOwned, NothingHeld, Pointed, NoTemplates

\* A line that is refused before it touched a slot.
LEMMA RefuseKeeps ==
  ASSUME ConfigTypeOK, TemplatesOwned, FreeTemplates(i), UNCHANGED leaked
  PROVE  /\ TemplatesOwned' /\ NothingHeld'
         /\ i' \in [Slots -> Chains \cup {0}] /\ chains' \subseteq Chains
         /\ leaked' \subseteq chains'
<1>1. i' = NoTemplates /\ chains' = leaked' /\ leaked' \subseteq Chains
  BY FreeLeaves DEF ConfigTypeOK
<1> QED
  BY <1>1, EmptyIsOwned

\* A step that leaves the templates alone and does not end the loading.
LEMMA RestKeeps ==
  ASSUME ConfigTypeOK, TemplatesOwned, UNCHANGED <<i, chains, leaked>>,
         loader' \notin {"closed", "refused", "freed"}
  PROVE  /\ TemplatesOwned' /\ NothingHeld'
         /\ i' \in [Slots -> Chains \cup {0}] /\ chains' \subseteq Chains
         /\ leaked' \subseteq chains'
BY DEF ConfigTypeOK, TemplatesOwned, NothingHeld, Pointed

\* A template line: the old chain of the slot leaks, in all three outcomes.
LEMMA TemplateKeeps ==
  ASSUME ConfigTypeOK, TemplatesOwned, NEW k \in Slots, Template(k)
  PROVE  /\ TemplatesOwned' /\ NothingHeld'
         /\ i' \in [Slots -> Chains \cup {0}] /\ chains' \subseteq Chains
         /\ leaked' \subseteq chains'
<1> DEFINE t == [i EXCEPT ![k] = 0]
<1>0. /\ i \in [Slots -> Chains \cup {0}] /\ chains \subseteq Chains /\ leaked \subseteq chains
      /\ 0 \notin chains
  BY DEF ConfigTypeOK
<1>1. leaked' = leaked \cup ({i[k]} \ {0}) /\ loader = "reading"
  BY DEF Template, NextLine
<1>2. /\ chains = ({i[j] : j \in Slots} \ {0}) \cup leaked
      /\ \A j \in Slots : i[j] \notin leaked
      /\ \A j, l \in Slots : i[j] = i[l] /\ i[j] # 0 => j = l
  BY <1>0 DEF TemplatesOwned, Pointed
<1>3. /\ chains = ({t[j] : j \in Slots} \ {0}) \cup leaked'
      /\ \A j \in Slots : t[j] \notin leaked'
      /\ \A j, l \in Slots : t[j] = t[l] /\ t[j] # 0 => j = l
      /\ leaked' \subseteq chains
  BY <1>0, <1>1, <1>2
<1>4. CASE Refuse(t)
  <2>1. i' = NoTemplates /\ chains' = leaked'
    BY <1>0, <1>3, <1>4 DEF Refuse, FreeTemplates
  <2> QED
    BY <1>0, <1>3, <2>1, EmptyIsOwned
<1>5. CASE i' = t /\ UNCHANGED <<loader, chains>>
  BY <1>0, <1>1, <1>3, <1>5 DEF TemplatesOwned, Pointed, NothingHeld
<1>6. ASSUME NEW c \in Chains \ chains,
             i' = [i EXCEPT ![k] = c], chains' = chains \cup {c}, UNCHANGED loader
      PROVE  /\ TemplatesOwned' /\ NothingHeld'
             /\ i' \in [Slots -> Chains \cup {0}] /\ chains' \subseteq Chains
             /\ leaked' \subseteq chains'
  <2>1. i' \in [Slots -> Chains \cup {0}] /\ i'[k] = c /\ \A j \in Slots \ {k} : i'[j] = t[j]
    BY <1>0, <1>6
  <2>2. c \notin leaked' /\ c # 0 /\ t[k] = 0 /\ \A j \in Slots : t[j] # c
    BY <1>0, <1>3, <1>6
  <2>3. /\ chains' = ({i'[j] : j \in Slots} \ {0}) \cup leaked'
        /\ \A j \in Slots : i'[j] \notin leaked'
        /\ \A j, l \in Slots : i'[j] = i'[l] /\ i'[j] # 0 => j = l
    BY <1>3, <1>6, <2>1, <2>2
  <2> QED
    BY <1>0, <1>1, <1>3, <1>6, <2>1, <2>3 DEF TemplatesOwned, Pointed, NothingHeld
<1> QED
  BY <1>4, <1>5, <1>6 DEF Template

\* The scalars stay in range.
LEMMA ScalarsKeep ==
  ASSUME ConfigTypeOK, [ConfigNext]_configVars
  PROVE  /\ loader' \in {"closed", "reading", "loaded", "refused", "freed"}
         /\ in_peer' \in BOOLEAN /\ lineno' \in Nat
         /\ have' \subseteq InterfaceKeys \cup PeerKeys \cup {"Endpoint"}
         /\ dns_n' \in 0..AWG_MAX_DNS
<1>1. loader' \in {"closed", "reading", "loaded", "refused", "freed"}
  BY DEF ConfigTypeOK, ConfigNext, configVars, Open, Heading, OtherLine, Address, Endpoint, EndOfFile,
         ConfigFree, Key, Dns, Template, NextLine, Refuse
<1>2. in_peer' \in BOOLEAN
  <2>1. in_peer' \in BOOLEAN \/ UNCHANGED in_peer
    <3>1. CASE Heading
      BY <3>1 DEF Heading
    <3>2. CASE \E k \in InterfaceKeys \cup PeerKeys : Key(k)
      BY <3>2 DEF Key
    <3>3. CASE \E good \in 0..AWG_MAX_DNS + 1 : Dns(good)
      BY <3>3 DEF Dns
    <3>4. CASE \E k \in Slots : Template(k)
      BY <3>4 DEF Template
    <3>5. CASE Open \/ OtherLine \/ Address \/ Endpoint \/ EndOfFile \/ ConfigFree \/ UNCHANGED configVars
      BY <3>5 DEF Open, OtherLine, Address, Endpoint, EndOfFile, ConfigFree, configVars
    <3> QED
      BY <3>1, <3>2, <3>3, <3>4, <3>5 DEF ConfigNext
  <2> QED
    BY <2>1 DEF ConfigTypeOK
<1>3. lineno' \in Nat
  <2>1. NextLine \/ UNCHANGED lineno
    BY DEF ConfigNext, configVars, Open, Heading, OtherLine, Address, Endpoint, EndOfFile, ConfigFree, Key,
           Dns, Template
  <2> QED
    BY <2>1 DEF ConfigTypeOK, NextLine
<1>4. have' \subseteq InterfaceKeys \cup PeerKeys \cup {"Endpoint"}
  BY DEF ConfigTypeOK, ConfigNext, configVars, Open, Heading, OtherLine, Address, Endpoint, EndOfFile,
         ConfigFree, Key, Dns, Template
<1>5. dns_n' \in 0..AWG_MAX_DNS
  <2>1. \A good \in 0..AWG_MAX_DNS + 1 : DnsServers(good) \in 0..AWG_MAX_DNS
    BY DEF ConfigTypeOK, DnsServers
  <2> QED
    BY <2>1 DEF ConfigTypeOK, ConfigNext, configVars, Open, Heading, OtherLine, Address, Endpoint, EndOfFile,
                ConfigFree, Key, Dns, Template
<1> QED
  BY <1>1, <1>2, <1>3, <1>4, <1>5

\* Every line, and the end.
LEMMA OwnersKeep ==
  ASSUME OnlyRepeatsLeak, [ConfigNext]_configVars
  PROVE  /\ TemplatesOwned' /\ NothingHeld'
         /\ i' \in [Slots -> Chains \cup {0}] /\ chains' \subseteq Chains
         /\ leaked' \subseteq chains'
<1>0. ConfigTypeOK /\ TemplatesOwned /\ NothingHeld
  BY DEF OnlyRepeatsLeak
<1>1. CASE Open
  BY <1>0, <1>1, EmptyIsOwned DEF Open, ConfigTypeOK, NothingHeld
<1>2. CASE UNCHANGED configVars
  BY <1>0, <1>2 DEF configVars, ConfigTypeOK, TemplatesOwned, Pointed, NothingHeld
<1>3. CASE Heading \/ OtherLine \/ \E good \in 0..AWG_MAX_DNS + 1 : Dns(good)
  <2>1. UNCHANGED <<i, chains, leaked>> /\ loader' = "reading"
    BY <1>3 DEF Heading, OtherLine, Dns, NextLine
  <2> QED
    BY <1>0, <2>1, RestKeeps
<1>4. CASE Address \/ Endpoint \/ EndOfFile \/ \E k \in InterfaceKeys \cup PeerKeys : Key(k)
  <2>1. /\ UNCHANGED leaked
        /\ FreeTemplates(i) \/ (UNCHANGED <<i, chains>> /\ loader' \in {"reading", "loaded"})
    BY <1>4 DEF Address, Endpoint, EndOfFile, Key, NextLine, Refuse
  <2> QED
    BY <1>0, <2>1, RestKeeps, RefuseKeeps
<1>5. CASE ConfigFree
  BY <1>0, <1>5, RefuseKeeps DEF ConfigFree
<1>6. CASE \E k \in Slots : Template(k)
  BY <1>0, <1>6, TemplateKeeps
<1> QED
  BY <1>1, <1>2, <1>3, <1>4, <1>5, <1>6 DEF ConfigNext

\* A template leaks when a line with its key comes a second time, and never otherwise: every
\* other one is freed with the configuration, once.  That a refused configuration holds
\* nothing needs every chain to be owned or leaked, and that it is owned needs that no slot
\* points to what was freed.
THEOREM ConfigSafe == ConfigSpec => []OnlyRepeatsLeak
<1>1. ConfigInit => OnlyRepeatsLeak
  <2> SUFFICES ASSUME ConfigInit PROVE OnlyRepeatsLeak
    OBVIOUS
  <2>1. in_peer \in BOOLEAN
    BY DEF ConfigInit
  <2>2. i \in [Slots -> Chains \cup {0}] /\ Pointed = {} /\ \A k \in Slots : i[k] = 0
    BY DEF ConfigInit, NoTemplates, Pointed
  <2>3. ConfigTypeOK
    BY <2>1, <2>2 DEF ConfigInit, ConfigTypeOK
  <2>4. TemplatesOwned /\ NothingHeld
    BY <2>2 DEF ConfigInit, TemplatesOwned, NothingHeld
  <2> QED
    BY <2>3, <2>4 DEF OnlyRepeatsLeak
<1>2. OnlyRepeatsLeak /\ [ConfigNext]_configVars => OnlyRepeatsLeak'
  BY ScalarsKeep, OwnersKeep DEF OnlyRepeatsLeak, ConfigTypeOK
<1> QED
  BY <1>1, <1>2, PTL DEF ConfigSpec

HIDE ConfigAssumption
=============================================================================
