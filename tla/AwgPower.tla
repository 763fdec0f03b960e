------------------------------ MODULE AwgPower ------------------------------
(***************************************************************************)
(* awg_power.c: power transitions, read out of the play-event log.         *)
(*                                                                         *)
(* One call of awg_power_transition() makes two requests of the system,    *)
(* the range of the log and then the entries; either may fail, and the log *)
(* may grow, and drop its oldest entries, between the two.  The entry with *)
(* index i is log[i + 1]; of all that were ever written the system still   *)
(* holds those from index first on.                                        *)
(*                                                                         *)
(* Left out: the clone of the service handle, which keeps no state here.   *)
(***************************************************************************)
EXTENDS Integers, Sequences

CONSTANTS
  EVENT_BATCH,         \* 16
  LogSize,             \* how many entries the system holds
  Pasts,               \* logs the module may find when it starts
  MaxEntries           \* bound on the entries ever written

Kinds == {"power", "other"}

ASSUME PowerAssumption ==
  /\ EVENT_BATCH \in Nat \ {0} /\ LogSize \in Nat \ {0} /\ MaxEntries \in Nat
  /\ Pasts \subseteq Seq(Kinds)

VARIABLES
  log, first,
  g_ok, g_last_end,
  pc,                  \* "idle", or "query" between the two requests
  from, last           \* locals of the call

(* History *)
VARIABLES
  mark,                \* where the log stood at the first look, -1 before it
  reports,             \* the transitions behind each answer of true
  pushed               \* entries beyond the batch or dropped by the system

system  == <<log, first>>
history == <<mark, reports, pushed>>
powerVars == <<system, g_ok, g_last_end, pc, from, last, history>>

Newest == Len(log) - 1

IsTransition(i) == log[i + 1] = "power"

\* The module starts on a console with a past; without the service it goes on
\* without (awg_power_start).
PowerInit ==
  /\ log \in Pasts /\ first = 0
  /\ g_ok \in BOOLEAN /\ g_last_end = -1
  /\ pc = "idle" /\ from = 0 /\ last = 0
  /\ mark = -1 /\ reports = <<>> /\ pushed = {}

-----------------------------------------------------------------------------
(* awg_power_transition *)

AtLeast(a, b) == IF a < b THEN b ELSE a

\* Where a query starts: after what was read, within the batch, within the log.
From(newest) ==
  AtLeast(AtLeast(AtLeast(g_last_end + 1, newest - (EVENT_BATCH - 1)), first), 0)

\* How many entries it asks for.  It is never 0 (QueryFits), so the return for
\* an empty query is not an action.
Want == IF last - from + 1 > EVENT_BATCH THEN EVENT_BATCH ELSE last - from + 1

\* The first look only marks where the log stands.
FirstLook ==
  /\ pc = "idle" /\ g_ok
  /\ Newest > g_last_end /\ g_last_end < 0
  /\ g_last_end' = Newest /\ mark' = Newest
  /\ UNCHANGED <<system, g_ok, pc, from, last, reports, pushed>>

\* What was announced counts as read before it is.
AskRange_Early ==
  /\ pc = "idle" /\ g_ok
  /\ Newest > g_last_end /\ g_last_end >= 0
  /\ pc' = "query" /\ last' = Newest /\ from' = From(Newest)
  /\ g_last_end' = Newest
  /\ UNCHANGED <<system, g_ok, history>>

\* There is something new.  (A request for the range that fails and a log with
\* nothing new change nothing.)
AskRange ==
  /\ pc = "idle" /\ g_ok
  /\ Newest > g_last_end /\ g_last_end >= 0
  /\ pc' = "query" /\ last' = Newest /\ from' = From(Newest)
  /\ UNCHANGED <<system, g_ok, g_last_end, history>>

\* The call gives up; the next one tries again.
QueryFails ==
  /\ pc = "query" /\ pc' = "idle"
  /\ UNCHANGED <<system, g_ok, g_last_end, from, last, history>>

\* The transitions among the entries the system still has of those asked for.
Got == {i \in from .. from + Want - 1 : i >= first /\ i <= Newest /\ IsTransition(i)}

\* The answer is true when a transition is among them, however many.
Query ==
  /\ pc = "query" /\ pc' = "idle"
  /\ g_last_end' = last
  /\ reports' = IF Got # {} THEN Append(reports, Got) ELSE reports
  /\ pushed' = pushed \cup
       {i \in g_last_end + 1 .. last : i <= last - EVENT_BATCH \/ i < first}
  /\ UNCHANGED <<system, g_ok, from, last, mark>>

\* awg_power_stop, on the way out of the process.
PowerStop ==
  /\ pc = "idle" /\ g_ok
  /\ g_ok' = FALSE
  /\ UNCHANGED <<system, g_last_end, pc, from, last, history>>

-----------------------------------------------------------------------------
(* The system writes an entry and drops the oldest when it holds too many. *)
Write ==
  /\ Len(log) < MaxEntries
  /\ \E kind \in Kinds : log' = Append(log, kind)
  /\ first' = AtLeast(first, Len(log) + 1 - LogSize)
  /\ UNCHANGED <<g_ok, g_last_end, pc, from, last, history>>

PowerNext ==
  FirstLook \/ AskRange \/ QueryFails \/ Query \/ PowerStop \/ Write

PowerSpec == PowerInit /\ [][PowerNext]_powerVars

(***************************************************************************)
(* The main loop asks once a second for as long as it runs.  That the      *)
(* system does not refuse every single request is assumed of it.           *)
(***************************************************************************)
PowerFairness ==
  WF_powerVars(FirstLook) /\ WF_powerVars(AskRange) /\ SF_powerVars(Query)

PowerFairSpec == PowerSpec /\ PowerFairness

-----------------------------------------------------------------------------
(* Properties *)

\* Every variable stays in its range; no index is beyond the log.
PowerTypeOK ==
  /\ log \in Seq(Kinds) /\ first \in 0 .. Len(log)
  /\ g_ok \in BOOLEAN /\ g_last_end \in -1 .. Newest
  /\ pc \in {"idle", "query"} /\ from \in 0 .. Len(log) /\ last \in 0 .. Len(log)
  /\ mark \in -1 .. g_last_end
  /\ reports \in Seq(SUBSET Nat) /\ pushed \subseteq Nat

\* A query asks for at least one entry and for no more than the buffer takes,
\* wherever the log stands and however much was written since the last look.
QueryFits == pc = "query" => last - from + 1 \in 1 .. EVENT_BATCH

\* No transition is behind two answers, however queries fail and the log grows
\* in between: this is what AwgTunnel's flag stands for, which one answer
\* consumes.
NeverTwice ==
  \A j, k \in DOMAIN reports : j # k => reports[j] \cap reports[k] = {}

\* Nothing from before the first look is reported: "replaying them [...] would
\* tear down a tunnel that is working".
NothingOld == \A j \in DOMAIN reports : \A i \in reports[j] : mark >= 0 /\ i > mark

\* A transition counts as read without having been reported only if it was
\* beyond the batch or no longer in the log; a failed query loses nothing.
NoSilentLoss ==
  \A i \in mark + 1 .. g_last_end :
     mark >= 0 /\ IsTransition(i) /\ i \notin pushed
       => \E j \in DOMAIN reports : i \in reports[j]

\* However queries fail and the log grows in between, every transition is behind exactly
\* one answer, apart from those before the first look and those that were never to be had.
EachReportedOnce == QueryFits /\ NeverTwice /\ NothingOld /\ NoSilentLoss

\* Whatever is written to the log is looked at, as long as the module runs.
LookedAt ==
  \A n \in 1 .. MaxEntries : Len(log) >= n ~> (g_last_end >= n - 1 \/ ~g_ok)

(***************************************************************************)
(* The inductive invariant: during a call the query starts after what was  *)
(* read and skips only entries that are beyond the batch or gone, and all  *)
(* reports are about what was read after the first look.                   *)
(***************************************************************************)
CallInv ==
  pc = "query" =>
    /\ g_last_end >= 0
    /\ from > g_last_end /\ last <= Newest
    /\ \A i \in g_last_end + 1 .. from - 1 : i <= last - EVENT_BATCH \/ i < first

ReportsInv ==
  /\ mark = -1 <=> g_last_end = -1
  /\ \A j \in DOMAIN reports : \A i \in reports[j] : i <= g_last_end

PowerInv ==
  /\ PowerTypeOK /\ first <= AtLeast(0, Newest)
  /\ QueryFits /\ CallInv /\ ReportsInv
  /\ NeverTwice /\ NothingOld /\ NoSilentLoss
=============================================================================
