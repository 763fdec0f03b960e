------------------------------ MODULE LwipDns ------------------------------
(***************************************************************************)
(* lwIP's resolver (core/dns.c), through which the proxy turns the name in *)
(* a client's hello into an address: the table of names, the requests that *)
(* wait for one, the source ports, and the timer that asks again.          *)
(*                                                                         *)
(* The address of a name is the name itself.  Every query ever sent stays  *)
(* in asked: the server may answer it late, more than once or never, so    *)
(* that a query lost on the way, or for want of memory, is one that is     *)
(* never answered.  Time passes in DnsTmr, once a second.                  *)
(*                                                                         *)
(* Left out: multicast DNS, local host lists and IPv6, which are not       *)
(* compiled, and names that are addresses.  The callbacks of the proxy do  *)
(* not resolve names, so that dns_call_found is not entered again.         *)
(***************************************************************************)
EXTENDS Integers, Sequences, FiniteSets

CONSTANTS
  DNS_TABLE_SIZE, DNS_MAX_RETRIES,
  Names, Txids,
  ServerTables,        \* the possible contents of dns_servers
  NoServer,            \* the address of a server that is not set
  MEMP_NUM_UDP_PCB,
  DnsSeqMod,           \* 256, where dns_seqno wraps
  Ttls,                \* lifetimes of the answers, in seconds
  MaxQuestions         \* bound on the calls of dns_gethostbyname

ASSUME DnsAssumption ==
  /\ DNS_TABLE_SIZE \in Nat \ {0} /\ DNS_MAX_RETRIES \in Nat \ {0}
  /\ DnsSeqMod \in Nat \ {0} /\ Ttls \subseteq Nat /\ MaxQuestions \in Nat
  /\ NoServer \notin Names /\ {"", "none"} \cap Names = {}
  /\ \A t \in ServerTables : Len(t) \in Nat \ {0}

VARIABLES
  dns_servers,         \* set once, before the first question
  dns_table, dns_requests, dns_pcbs, dns_last_pcb_idx, dns_seqno,
  asked,               \* queries that were sent
  want,                \* the name of each question put so far
  told,                \* what came back: a name, "none", or "" while it waits
  parity               \* of the seconds that have passed

dnsVars == <<dns_servers, dns_table, dns_requests, dns_pcbs, dns_last_pcb_idx, dns_seqno,
             asked, want, told, parity>>

Idx       == 0..(DNS_TABLE_SIZE - 1)
Questions == 1..Len(want)
NoRequest == [arg |-> 0, idx |-> 0]
NoPort    == DNS_TABLE_SIZE

Unused == [state |-> "UNUSED", name |-> "", ipaddr |-> "", txid |-> 0, server |-> 1, tmr |-> 0,
           retries |-> 0, seqno |-> 0, ttl |-> 0, port |-> NoPort]

\* The whole of the resolver's memory, and what it sends and calls.
Memory == [table |-> dns_table, requests |-> dns_requests, pcbs |-> dns_pcbs,
           last |-> dns_last_pcb_idx, seqno |-> dns_seqno, asked |-> asked, told |-> told]

DnsBecomes(m) ==
  /\ dns_table' = m.table /\ dns_requests' = m.requests /\ dns_pcbs' = m.pcbs
  /\ dns_last_pcb_idx' = m.last /\ dns_seqno' = m.seqno
  /\ asked' = m.asked /\ told' = m.told

DnsInit ==
  /\ dns_servers \in ServerTables
  /\ dns_table = [i \in Idx |-> Unused]
  /\ dns_requests = [r \in Idx |-> NoRequest]
  /\ dns_pcbs = [p \in Idx |-> FALSE]
  /\ dns_last_pcb_idx = 0 /\ dns_seqno = 0
  /\ asked = {} /\ want = <<>> /\ told = <<>> /\ parity = 0

Least(S) == CHOOSE i \in S : \A j \in S : i <= j

-----------------------------------------------------------------------------
(* Calling back *)

\* Every request that waits for entry i is told.
Waiting(m, i) == {r \in Idx : m.requests[r].arg # 0 /\ m.requests[r].idx = i}

TellAll(m, i, addr) ==
  [m EXCEPT !.told = [q \in DOMAIN m.told |->
                        IF \E r \in Waiting(m, i) : m.requests[r].arg = q THEN addr ELSE m.told[q]],
            !.requests = [r \in Idx |-> IF r \in Waiting(m, i) THEN NoRequest ELSE m.requests[r]]]

\* The source port is closed unless another query uses it.
Close(m, i) ==
  LET p == m.table[i].port
      shared == \E j \in Idx \ {i} : m.table[j].state = "ASKING" /\ m.table[j].port = p
  IN [m EXCEPT !.table[i].port = NoPort,
               !.pcbs = IF shared \/ p = NoPort THEN @ ELSE [@ EXCEPT ![p] = FALSE]]

\* dns_call_found.
CallFound(m, i, addr) == Close(TellAll(m, i, addr), i)

-----------------------------------------------------------------------------
(* Asking *)

BackupAvailable(e) ==
  e.server + 1 <= Len(dns_servers) /\ dns_servers[e.server + 1] # NoServer

\* What is left in an entry that is not used is never read again.
Fail(m, i) == [CallFound(m, i, "none") EXCEPT !.table[i] = Unused]

\* dns_send.
Send(m, i) ==
  LET e == m.table[i] IN
  IF dns_servers[e.server] = NoServer THEN Fail(m, i)
  ELSE [m EXCEPT !.asked = @ \cup {[txid |-> e.txid, name |-> e.name,
                                    server |-> dns_servers[e.server]]}]

\* The case DNS_STATE_NEW of dns_check_entry.
CheckNew(m, i, txid) ==
  Send([m EXCEPT !.table[i] = [@ EXCEPT !.state = "ASKING", !.txid = txid, !.server = 1,
                                        !.tmr = 1, !.retries = 0]], i)

RetryForever(m, i) == Send([m EXCEPT !.table[i].tmr = 1], i)

\* The case DNS_STATE_ASKING, once the time is up.
Retry(m, i) ==
  LET e == m.table[i]
      n == e.retries + 1
  IN CASE n = DNS_MAX_RETRIES /\ BackupAvailable(e) ->
            Send([m EXCEPT !.table[i] = [e EXCEPT !.server = e.server + 1, !.tmr = 1,
                                                  !.retries = 0]], i)
       [] n = DNS_MAX_RETRIES /\ ~BackupAvailable(e) ->
            Fail([m EXCEPT !.table[i].retries = n], i)
       [] OTHER -> Send([m EXCEPT !.table[i] = [e EXCEPT !.retries = n, !.tmr = n]], i)

CheckEntryForgets(m, i) ==
  LET e == m.table[i] IN
  IF e.state = "ASKING" /\ e.retries = DNS_MAX_RETRIES - 1 /\ e.tmr = 1
  THEN [m EXCEPT !.table[i] = Unused] ELSE m

\* dns_check_entry, on an entry that is not new.
CheckEntry(m, i) ==
  LET e == m.table[i] IN
  CASE e.state = "ASKING" ->
         IF e.tmr = 1 THEN Retry([m EXCEPT !.table[i].tmr = 0], i)
                      ELSE [m EXCEPT !.table[i].tmr = @ - 1]
    [] e.state = "DONE" ->
         IF e.ttl <= 1 THEN [m EXCEPT !.table[i] = Unused]
                       ELSE [m EXCEPT !.table[i].ttl = @ - 1]
    [] OTHER -> m

-----------------------------------------------------------------------------
(* The operations *)

\* dns_alloc_pcb: a port of its own, or the next one that is open.
AllocPcb(m) ==
  LET free == {p \in Idx : ~m.pcbs[p]}
      open == {p \in Idx : m.pcbs[p]}
      after(p) == (p - m.last - 1) % DNS_TABLE_SIZE
  IN IF free # {} /\ Cardinality(open) < MEMP_NUM_UDP_PCB THEN Least(free)
     ELSE IF open # {} THEN CHOOSE p \in open : \A o \in open : after(p) <= after(o)
     ELSE NoPort

Age(m, i) == (m.seqno - m.table[i].seqno) % DnsSeqMod

\* The first unused entry, or the oldest completed one; DNS_TABLE_SIZE if there
\* is neither.
EntryFor(m) ==
  LET unused == {i \in Idx : m.table[i].state = "UNUSED"}
      done   == {i \in Idx : m.table[i].state = "DONE" /\ Age(m, i) > 0}
      oldest == {i \in done : \A j \in done : Age(m, j) <= Age(m, i)}
  IN CASE unused # {} -> Least(unused)
       [] unused = {} /\ done # {} -> Least(oldest)
       [] OTHER -> DNS_TABLE_SIZE

\* dns_create_txid: an id that no outstanding query has.
FreshTxids(m) == Txids \ {m.table[i].txid : i \in {j \in Idx : m.table[j].state = "ASKING"}}

\* dns_enqueue: the states it may leave, "none" in told standing for an error.
Enqueue(m, q, n) ==
  LET same == {i \in Idx : m.table[i].state = "ASKING" /\ m.table[i].name = n}
      room == {r \in Idx : m.requests[r].arg = 0}
      put(k, i) == [k EXCEPT !.requests[Least(room)] = [arg |-> q, idx |-> i]]
      i    == EntryFor(m)
      p    == AllocPcb(m)
      new  == [Unused EXCEPT !.state = "NEW", !.seqno = m.seqno, !.name = n, !.port = p]
      refuse(k) == [k EXCEPT !.told[q] = "none"]
  IN IF same # {} /\ room # {} THEN {put(m, Least(same))}
     ELSE IF room = {} \/ i = DNS_TABLE_SIZE THEN {refuse(m)}
     ELSE IF p = NoPort THEN {refuse([m EXCEPT !.table[i] = Unused])}
     ELSE {CheckNew([put(m, i) EXCEPT !.table[i] = new, !.last = p, !.pcbs[p] = TRUE,
                                      !.seqno = (@ + 1) % DnsSeqMod], i, t) : t \in FreshTxids(m)}

\* dns_gethostbyname, question q; an address from the table comes back at once.
GetHostByName ==
  \E n \in Names :
    LET q == Len(want) + 1
        m == [Memory EXCEPT !.told = Append(told, "")]
        cached == {i \in Idx : dns_table[i].state = "DONE" /\ dns_table[i].name = n}
    IN /\ q <= MaxQuestions
       /\ want' = Append(want, n)
       /\ UNCHANGED <<dns_servers, parity>>
       /\ CASE cached # {} ->
                 DnsBecomes([m EXCEPT !.told[q] = dns_table[Least(cached)].ipaddr])
            [] cached = {} /\ dns_servers[1] = NoServer -> DnsBecomes([m EXCEPT !.told[q] = "none"])
            [] OTHER -> \E k \in Enqueue(m, q, n) : DnsBecomes(k)

\* dns_check_entries: the memory after the first n entries.
Checked[n \in 0..DNS_TABLE_SIZE] ==
  IF n = 0 THEN Memory ELSE CheckEntry(Checked[n - 1], n - 1)

\* dns_tmr, once a second: every entry of the table in turn.
DnsTmr ==
  /\ DnsBecomes(Checked[DNS_TABLE_SIZE])
  /\ parity' = 1 - parity
  /\ UNCHANGED <<dns_servers, want>>

\* dns_correct_response.
CorrectResponse(m, i, addr, ttl) ==
  LET e    == m.table[i]
      done == [Unused EXCEPT !.state = "DONE", !.name = e.name, !.seqno = e.seqno,
                             !.ipaddr = addr, !.ttl = ttl]
  IN [CallFound([m EXCEPT !.table[i].state = "DONE"], i, addr)
        EXCEPT !.table[i] = IF ttl = 0 THEN Unused ELSE done]

AnswersAnyName(a, i) ==
  /\ dns_table[i].state = "ASKING" /\ dns_table[i].txid = a.txid
  /\ dns_servers[dns_table[i].server] = a.server

\* The entry an answer is for; the answer has the source and the question of
\* the query it answers.
Answers(a, i) ==
  LET e == dns_table[i] IN
  /\ e.state = "ASKING" /\ e.txid = a.txid
  /\ dns_servers[e.server] = a.server /\ e.name = a.name

\* dns_recv: an address, ...
AddressArrives ==
  \E a \in asked, ttl \in Ttls, i \in Idx :
    /\ Answers(a, i)
    /\ DnsBecomes(CorrectResponse(Memory, i, a.name, ttl))
    /\ UNCHANGED <<dns_servers, want, parity>>

\* ... an error, after which the next server is asked, if there is one, ...
ErrorArrives ==
  \E a \in asked, i \in Idx :
    /\ Answers(a, i)
    /\ DnsBecomes(IF BackupAvailable(dns_table[i])
                  THEN CheckEntry([Memory EXCEPT !.table[i].retries = DNS_MAX_RETRIES - 1,
                                                 !.table[i].tmr = 1], i)
                  ELSE Fail(Memory, i))
    /\ UNCHANGED <<dns_servers, want, parity>>

\* ... or an answer without an address.
NothingArrives ==
  \E a \in asked, i \in Idx :
    /\ Answers(a, i)
    /\ DnsBecomes(Fail(Memory, i))
    /\ UNCHANGED <<dns_servers, want, parity>>

DnsNext == GetHostByName \/ DnsTmr \/ AddressArrives \/ ErrorArrives \/ NothingArrives

DnsSpec == DnsInit /\ [][DnsNext]_dnsVars

\* The main loop calls sys_check_timeouts in every round, and that dns_tmr when
\* it is due: seconds go on passing.  (DnsTmr is always enabled, so that this
\* is its weak fairness.)
DnsFairSpec == DnsSpec /\ []<>(parity = 0) /\ []<>(parity = 1)

-----------------------------------------------------------------------------
(* Properties *)

\* Every variable stays in its range: an entry that asks has a server to ask and
\* retries left (dns_check_entry).
DnsTypeOK ==
  /\ dns_servers \in ServerTables
  /\ \A i \in Idx :
       /\ dns_table[i].state \in {"UNUSED", "ASKING", "DONE"}
       /\ dns_table[i].state = "ASKING" =>
            /\ dns_table[i].tmr \in 1..DNS_MAX_RETRIES
            /\ dns_table[i].retries \in 0..(DNS_MAX_RETRIES - 1)
            /\ dns_table[i].server \in 1..Len(dns_servers)
            /\ dns_servers[dns_table[i].server] # NoServer
       /\ dns_table[i].state = "DONE" => dns_table[i].ttl > 0
  /\ dns_pcbs \in [Idx -> BOOLEAN] /\ dns_last_pcb_idx \in Idx
  /\ dns_seqno \in 0..(DnsSeqMod - 1)
  /\ Len(told) = Len(want)

Asking == {i \in Idx : dns_table[i].state = "ASKING"}

\* A question that has no answer yet waits in exactly one request, at an entry
\* that is asking for its name; no request waits for a question that was
\* answered, so that no callback of the proxy runs twice or for a connection
\* that was told already (dns_call_found, dns_enqueue).
WaitsOnce ==
  /\ \A q \in Questions : told[q] = "" =>
       \E r \in Idx : /\ dns_requests[r].arg = q
                      /\ dns_requests[r].idx \in Asking
                      /\ dns_table[dns_requests[r].idx].name = want[q]
                      /\ \A s \in Idx \ {r} : dns_requests[s].arg # q
  /\ \A r \in Idx : dns_requests[r].arg # 0 => told[dns_requests[r].arg] = ""

\* Whatever arrives late, twice or from a server that was given up, the address
\* a connection is given is the one of the name it asked for (the checks of
\* dns_recv; the table entry may have changed hands since the query was sent).
RightAddress == \A q \in Questions : told[q] \in {"", "none", want[q]}

\* A source port is open exactly as long as a query uses it: none is closed
\* under another entry that shares it, none is left behind (dns_call_found).
PortsInUse == \A p \in Idx : dns_pcbs[p] <=> \E i \in Asking : dns_table[i].port = p

\* Two outstanding queries differ in their id and in their name
\* (dns_create_txid, and the search for duplicates of dns_enqueue).
QueriesDiffer ==
  \A i, j \in Asking : i # j =>
    dns_table[i].txid # dns_table[j].txid /\ dns_table[i].name # dns_table[j].name

\* Table, requests and ports agree with each other, whatever is asked, joined, answered
\* and given up: nobody waits where nobody asks, and no port is lost.
DnsConsistent == DnsTypeOK /\ WaitsOnce /\ PortsInUse /\ QueriesDiffer

Unanswered(q) == q <= Len(told) /\ told[q] = ""

\* Every question is answered, if only by giving up: no request outlives the
\* retries (dns_check_entry), whatever is lost and however often others ask.
EveryQuestionAnswered == \A q \in 1..MaxQuestions : Unanswered(q) ~> ~Unanswered(q)
=============================================================================
