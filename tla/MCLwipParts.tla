---------------------------- MODULE MCLwipParts -----------------------------
(***************************************************************************)
(* Small instances of the parts of lwIP that share no state, side by side: *)
(* a behaviour is one of the part in focus, and the others rest.           *)
(***************************************************************************)
EXTENDS LwipDns, LwipTimeouts, LwipReass, LwipHeap

VARIABLE focus

Parts == {"dns", "timeouts", "reass", "heap"}

partsVars == <<focus, dnsVars, timeoutsVars, reassVars, heapVars>>

PartsInit ==
  /\ focus \in Parts /\ DnsInit /\ TimeoutsInit /\ ReassInit /\ HeapInit
  /\ focus # "dns" => dns_servers = <<"s1", "any">>

DnsSteps      == focus = "dns" /\ DnsNext
                 /\ UNCHANGED <<focus, timeoutsVars, reassVars, heapVars>>
TimeoutsSteps == focus = "timeouts" /\ TimeoutsNext
                 /\ UNCHANGED <<focus, dnsVars, reassVars, heapVars>>
ReassSteps    == focus = "reass" /\ ReassNext
                 /\ UNCHANGED <<focus, dnsVars, timeoutsVars, heapVars>>
HeapSteps     == focus = "heap" /\ HeapNext
                 /\ UNCHANGED <<focus, dnsVars, timeoutsVars, reassVars>>

PartsNext == DnsSteps \/ TimeoutsSteps \/ ReassSteps \/ HeapSteps

\* The fairness of DnsFairSpec, TimeoutsFairSpec and ReassFairSpec, of the part in focus.
PartsFairSpec ==
  /\ PartsInit /\ [][PartsNext]_partsVars
  /\ []<>(focus = "dns" => parity = 0) /\ []<>(focus = "dns" => parity = 1)
  /\ []<>(focus = "timeouts" => clock < ClockMod \div 2)
  /\ []<>(focus = "timeouts" => clock >= ClockMod \div 2)
  /\ []<>(focus = "reass" => reassParity = 0) /\ []<>(focus = "reass" => reassParity = 1)

\* A handler runs when it is due and not before, and every timer runs again and again (in
\* the behaviours in which timers are in focus).
TimersOnTime == OnTime /\ (focus = "timeouts" => TimersKeepRunning)

MCServerTables == {<<"s1", "any">>, <<"s1", "s2">>}
MCTimers == <<"reass", "dns">>
MCInterval == [h \in {"reass", "dns", "tcp"} |->
                 CASE h = "reass" -> 4 [] h = "dns" -> 4 [] OTHER -> 1]
MCSize == <<4, 3, 2>>
=============================================================================
