--------------------------- MODULE LwipDns_proofs ---------------------------
(***************************************************************************)
(* That the resolver's table, its requests and its source ports agree with *)
(* each other, and that nobody is given the address of another name, for   *)
(* every size of the table, every number of retries, every set of servers, *)
(* names and ids, and any number of questions.                             *)
(*                                                                         *)
(* The argument is about memories (the record Memory): each operation of   *)
(* dns.c takes a good memory to a good one, and there are only five ways   *)
(* in which it does: an entry goes on asking, an entry that asks is        *)
(* settled, an entry that does not ask changes, an entry begins to ask,    *)
(* and a question is added that is answered at once or waits.              *)
(***************************************************************************)
EXTENDS LwipDns, SequenceTheorems, NaturalsInduction, WellFoundedInduction, TLAPS

Tell == Names \cup {"", "none"}

EntryType ==
  [state : {"UNUSED", "NEW", "ASKING", "DONE"}, name : Names \cup {""}, ipaddr : Tell,
   txid : Txids \cup {0}, server : Nat, tmr : Nat, retries : Nat, seqno : 0..(DnsSeqMod - 1),
   ttl : Nat, port : 0..DNS_TABLE_SIZE]

RequestType == [arg : Nat, idx : Idx]

IsMemory(m) ==
  m \in [table : [Idx -> EntryType], requests : [Idx -> RequestType], pcbs : [Idx -> BOOLEAN],
         last : Idx, seqno : 0..(DnsSeqMod - 1), asked : {m.asked}, told : Seq(Tell)]

\* An entry is unused, completed, or asks a server that is set for a name, from
\* an open port, with retries left.
EntryOK(e) ==
  /\ e \in EntryType
  /\ e.state \in {"UNUSED", "ASKING", "DONE"}
  /\ e.state = "ASKING" =>
       /\ e.tmr \in 1..DNS_MAX_RETRIES
       /\ e.retries \in 0..(DNS_MAX_RETRIES - 1)
       /\ e.server \in 1..Len(dns_servers)
       /\ dns_servers[e.server] # NoServer
       /\ e.name \in Names
       /\ e.port \in Idx
  /\ e.state = "DONE" => e.ttl > 0 /\ e.name \in Names /\ e.ipaddr = e.name

Asks(t, i) == t[i].state = "ASKING"

TableOK(t, pcbs) ==
  /\ t \in [Idx -> EntryType] /\ pcbs \in [Idx -> BOOLEAN]
  /\ \A i \in Idx : EntryOK(t[i])
  /\ \A p \in Idx : pcbs[p] <=> \E i \in Idx : Asks(t, i) /\ t[i].port = p
  /\ \A i, j \in Idx : i # j /\ Asks(t, i) /\ Asks(t, j) =>
       t[i].txid # t[j].txid /\ t[i].name # t[j].name

\* Every question that waits has one request, every request an entry that asks
\* for the name of its question.
RequestsOK(t, rs, tell, w) ==
  /\ rs \in [Idx -> RequestType] /\ tell \in Seq(Tell)
  /\ w \in Seq(Names) /\ Len(tell) = Len(w)
  /\ \A q \in 1..Len(w) : tell[q] \in {"", "none", w[q]}
  /\ \A q \in 1..Len(w) : tell[q] = "" => \E r \in Idx : rs[r].arg = q
  /\ \A r \in Idx : rs[r].arg # 0 => /\ rs[r].arg \in 1..Len(w)
                                     /\ tell[rs[r].arg] = ""
                                     /\ Asks(t, rs[r].idx)
                                     /\ t[rs[r].idx].name = w[rs[r].arg]
  /\ \A r, s \in Idx : r # s /\ rs[r].arg # 0 => rs[r].arg # rs[s].arg

MemoryOK(m, w) ==
  /\ IsMemory(m)
  /\ TableOK(m.table, m.pcbs)
  /\ RequestsOK(m.table, m.requests, m.told, w)

\* The inductive invariant.
DnsInv == dns_servers \in ServerTables /\ MemoryOK(Memory, want)

-----------------------------------------------------------------------------
(* Numbers and choices *)

\* What the constants are.
LEMMA Sizes ==
  /\ DNS_TABLE_SIZE \in Nat \ {0} /\ DNS_MAX_RETRIES \in Nat \ {0} /\ DnsSeqMod \in Nat \ {0}
  /\ Idx \subseteq Nat /\ 0 \in Idx /\ NoPort \notin Idx /\ NoPort \in 0..DNS_TABLE_SIZE
  /\ Idx \subseteq 0..DNS_TABLE_SIZE
<1>1. DNS_TABLE_SIZE \in Nat \ {0} /\ DNS_MAX_RETRIES \in Nat \ {0} /\ DnsSeqMod \in Nat \ {0}
  BY DnsAssumption
<1>2. Idx \subseteq Nat /\ 0 \in Idx /\ Idx \subseteq 0..DNS_TABLE_SIZE
  BY <1>1 DEF Idx
<1>3. NoPort \notin Idx /\ NoPort \in 0..DNS_TABLE_SIZE
  BY <1>1 DEF Idx, NoPort
<1> QED  BY <1>1, <1>2, <1>3

\* An unused entry is a good one.
LEMMA UnusedOK == EntryOK(Unused) /\ Unused.state # "ASKING" /\ Unused \in EntryType
<1>1. 0 \in 0..(DnsSeqMod - 1)
  BY Sizes
<1> QED  BY <1>1, Sizes DEF EntryOK, Unused, EntryType, Tell

\* A remainder is smaller than the divisor.
LEMMA ModBound ==
  ASSUME NEW a \in Int, NEW n \in Nat \ {0}
  PROVE  a % n \in 0..(n - 1)
OBVIOUS

\* A function into the naturals is least somewhere.
LEMMA LeastSomewhere ==
  ASSUME NEW S, S # {}, NEW f \in [S -> Nat]
  PROVE  \E x \in S : \A y \in S : f[x] <= f[y]
<1> DEFINE R == {p \in Nat \X Nat : p[1] < p[2]}
           T == {f[x] : x \in S}
<1>1. IsWellFoundedOn(R, Nat)
  BY NatLessThanWellFounded, Zenon DEF OpToRel
<1>2. T \subseteq Nat /\ T # {}
  OBVIOUS
<1>3. \E a \in T : \A b \in T : ~(<<b, a>> \in R)
  <2> HIDE DEF R, T
  <2> QED  BY <1>1, <1>2, WFMin
<1>4. PICK x \in S : \A b \in T : ~(<<b, f[x]>> \in R)
  BY <1>3
<1>5. \A y \in S : f[x] <= f[y]
  <2> SUFFICES ASSUME NEW y \in S PROVE f[x] <= f[y]
    OBVIOUS
  <2>1. f[y] \in Nat /\ f[x] \in Nat /\ f[y] \in T
    OBVIOUS
  <2>2. ~(f[y] < f[x])
    BY <1>4, <2>1
  <2> QED  BY <2>1, <2>2
<1> QED  BY <1>5

\* Every set of naturals that is not empty has a least member.
LEMMA LeastOf ==
  ASSUME NEW S, S \subseteq Nat, S # {}
  PROVE  \E x \in S : \A y \in S : x <= y
<1> DEFINE f == [x \in S |-> x]
<1>1. f \in [S -> Nat]
  OBVIOUS
<1>2. \E x \in S : \A y \in S : f[x] <= f[y]
  <2> HIDE DEF f
  <2> QED  BY <1>1, LeastSomewhere
<1> QED  BY <1>2

\* The least member of a set of naturals is one of them.
LEMMA LeastIn ==
  ASSUME NEW S, S \subseteq Nat, S # {}
  PROVE  Least(S) \in S
BY LeastOf DEF Least

\* A function on 1..n is a sequence of length n.
LEMMA IsSequence ==
  ASSUME NEW n \in Nat, NEW S, NEW f \in [1..n -> S]
  PROVE  f \in Seq(S) /\ Len(f) = n
<1>1. f \in Seq(S)
  BY SeqDef
<1>2. Len(f) \in Nat /\ DOMAIN f = 1..Len(f)
  BY <1>1, LenProperties
<1>3. DOMAIN f = 1..n
  OBVIOUS
<1> QED  BY <1>1, <1>2, <1>3

-----------------------------------------------------------------------------
(* The ways in which the table, the requests and the ports change *)

\* A table in which the same entries ask the same is as good for the requests.
LEMMA RequestsKept ==
  ASSUME NEW t, NEW u, NEW rs, NEW tell, NEW w, RequestsOK(t, rs, tell, w),
         \A j \in Idx : Asks(t, j) => Asks(u, j) /\ u[j].name = t[j].name
  PROVE  RequestsOK(u, rs, tell, w)
<1>1. \A r \in Idx : rs[r].idx \in Idx
  BY DEF RequestsOK, RequestType
<1> QED  BY <1>1 DEF RequestsOK

\* An entry goes on asking, or one that does not ask changes.
LEMMA SameAskers ==
  ASSUME NEW t, NEW pcbs, TableOK(t, pcbs), NEW rs, NEW tell, NEW w, RequestsOK(t, rs, tell, w),
         NEW i \in Idx, NEW e, EntryOK(e), Asks(t, i) <=> e.state = "ASKING",
         Asks(t, i) => e.name = t[i].name /\ e.port = t[i].port /\ e.txid = t[i].txid
  PROVE  /\ TableOK([t EXCEPT ![i] = e], pcbs)
         /\ RequestsOK([t EXCEPT ![i] = e], rs, tell, w)
<1> DEFINE u == [t EXCEPT ![i] = e]
<1>1. e \in EntryType /\ t \in [Idx -> EntryType] /\ \A j \in Idx : EntryOK(t[j])
  BY DEF TableOK, EntryOK
<1>2. u \in [Idx -> EntryType] /\ \A j \in Idx : u[j] = IF j = i THEN e ELSE t[j]
  BY <1>1
<1> HIDE DEF u
<1>3. \A j \in Idx : EntryOK(u[j])
  BY <1>1, <1>2
<1>4. \A j \in Idx : Asks(u, j) <=> Asks(t, j)
  BY <1>2 DEF Asks
<1>5. \A j \in Idx : Asks(t, j) =>
        u[j].name = t[j].name /\ u[j].port = t[j].port /\ u[j].txid = t[j].txid
  BY <1>2
<1>6. TableOK(u, pcbs)
  BY <1>2, <1>3, <1>4, <1>5 DEF TableOK
<1>7. RequestsOK(u, rs, tell, w)
  BY <1>4, <1>5, RequestsKept
<1> QED  BY <1>6, <1>7 DEF u

\* An entry begins to ask, for a name and with an id that no other asks with,
\* from a port that is open now.
LEMMA Begins ==
  ASSUME NEW t, NEW pcbs, TableOK(t, pcbs), NEW rs, NEW tell, NEW w, RequestsOK(t, rs, tell, w),
         NEW i \in Idx, ~Asks(t, i), NEW e, EntryOK(e), e.state = "ASKING",
         \A j \in Idx : Asks(t, j) => t[j].name # e.name /\ t[j].txid # e.txid
  PROVE  /\ TableOK([t EXCEPT ![i] = e], [pcbs EXCEPT ![e.port] = TRUE])
         /\ RequestsOK([t EXCEPT ![i] = e], rs, tell, w)
<1> DEFINE u == [t EXCEPT ![i] = e]
           o == [pcbs EXCEPT ![e.port] = TRUE]
<1>1. /\ e \in EntryType /\ t \in [Idx -> EntryType] /\ pcbs \in [Idx -> BOOLEAN]
      /\ \A j \in Idx : EntryOK(t[j])
  BY DEF TableOK, EntryOK
<1>2. u \in [Idx -> EntryType] /\ \A j \in Idx : u[j] = IF j = i THEN e ELSE t[j]
  BY <1>1
<1>3. /\ o \in [Idx -> BOOLEAN] /\ e.port \in Idx /\ o[e.port]
      /\ \A p \in Idx : p # e.port => o[p] = pcbs[p]
  BY <1>1 DEF EntryOK
<1> HIDE DEF u, o
<1>4. \A j \in Idx : EntryOK(u[j])
  BY <1>1, <1>2
<1>5. \A j \in Idx : Asks(u, j) <=> (j = i \/ Asks(t, j))
  BY <1>2 DEF Asks
<1>6. \A p \in Idx : o[p] <=> \E j \in Idx : Asks(u, j) /\ u[j].port = p
  <2> SUFFICES ASSUME NEW p \in Idx
               PROVE  o[p] <=> \E j \in Idx : Asks(u, j) /\ u[j].port = p
    OBVIOUS
  <2>1. pcbs[p] <=> \E j \in Idx : Asks(t, j) /\ t[j].port = p
    BY DEF TableOK
  <2>2. CASE p = e.port
    <3>1. Asks(u, i) /\ u[i].port = p
      BY <1>2, <1>5, <2>2
    <3> QED  BY <1>3, <2>2, <3>1
  <2>3. CASE p # e.port
    <3>1. o[p] = pcbs[p]
      BY <1>3, <2>3
    <3>2. (\E j \in Idx : Asks(u, j) /\ u[j].port = p)
          <=> \E j \in Idx : Asks(t, j) /\ t[j].port = p
      BY <1>2, <1>5, <2>3
    <3> QED  BY <2>1, <3>1, <3>2
  <2> QED  BY <2>2, <2>3
<1>7. \A j, k \in Idx : j # k /\ Asks(u, j) /\ Asks(u, k) =>
        u[j].txid # u[k].txid /\ u[j].name # u[k].name
  <2>1. \A j, k \in Idx : j # k /\ Asks(t, j) /\ Asks(t, k) =>
          t[j].txid # t[k].txid /\ t[j].name # t[k].name
    BY DEF TableOK
  <2> QED  BY <1>2, <1>5, <2>1
<1>8. RequestsOK(u, rs, tell, w)
  <2>1. \A j \in Idx : Asks(t, j) => Asks(u, j) /\ u[j].name = t[j].name
    BY <1>2, <1>5
  <2> QED  BY <2>1, RequestsKept
<1>9. TableOK(u, o)
  BY <1>2, <1>3, <1>4, <1>6, <1>7 DEF TableOK
<1> QED  BY <1>8, <1>9 DEF u, o

\* What TellAll makes of the requests, and of what was told, ...
At(rs, i) == {r \in Idx : rs[r].arg # 0 /\ rs[r].idx = i}

Left(rs, i) == [r \in Idx |-> IF r \in At(rs, i) THEN NoRequest ELSE rs[r]]

Told(rs, tell, i, addr) ==
  [q \in DOMAIN tell |-> IF \E r \in At(rs, i) : rs[r].arg = q THEN addr ELSE tell[q]]

\* ... and Close of the ports.
Closed(t, pcbs, i) ==
  LET shared == \E j \in Idx \ {i} : t[j].state = "ASKING" /\ t[j].port = t[i].port
  IN  IF shared \/ t[i].port = NoPort THEN pcbs ELSE [pcbs EXCEPT ![t[i].port] = FALSE]

\* An entry that asks is settled: the port is closed unless it is shared.
LEMMA SettledTable ==
  ASSUME NEW t, NEW pcbs, TableOK(t, pcbs),
         NEW i \in Idx, Asks(t, i), NEW e, EntryOK(e), e.state # "ASKING"
  PROVE  TableOK([t EXCEPT ![i] = e], Closed(t, pcbs, i))
<1> DEFINE u == [t EXCEPT ![i] = e]
           o == Closed(t, pcbs, i)
           shared == \E j \in Idx \ {i} : Asks(t, j) /\ t[j].port = t[i].port
<1>1. /\ e \in EntryType /\ t \in [Idx -> EntryType] /\ pcbs \in [Idx -> BOOLEAN]
      /\ \A j \in Idx : EntryOK(t[j])
  BY DEF TableOK, EntryOK
<1>2. u \in [Idx -> EntryType] /\ \A j \in Idx : u[j] = IF j = i THEN e ELSE t[j]
  BY <1>1
<1>3. t[i].port \in Idx /\ t[i].port # NoPort
  BY <1>1, Sizes DEF EntryOK, Asks
<1>4. o = IF shared THEN pcbs ELSE [pcbs EXCEPT ![t[i].port] = FALSE]
  BY <1>3 DEF Closed, Asks
<1> HIDE DEF u, o
<1>5. \A j \in Idx : EntryOK(u[j])
  BY <1>1, <1>2
<1>6. \A j \in Idx : Asks(u, j) <=> (j # i /\ Asks(t, j))
  BY <1>2 DEF Asks
<1>7. o \in [Idx -> BOOLEAN] /\ \A p \in Idx : p # t[i].port => o[p] = pcbs[p]
  BY <1>1, <1>3, <1>4
<1>8. \A p \in Idx : o[p] <=> \E j \in Idx : Asks(u, j) /\ u[j].port = p
  <2> SUFFICES ASSUME NEW p \in Idx
               PROVE  o[p] <=> \E j \in Idx : Asks(u, j) /\ u[j].port = p
    OBVIOUS
  <2>1. pcbs[p] <=> \E j \in Idx : Asks(t, j) /\ t[j].port = p
    BY DEF TableOK
  <2>2. (\E j \in Idx : Asks(u, j) /\ u[j].port = p)
        <=> \E j \in Idx \ {i} : Asks(t, j) /\ t[j].port = p
    BY <1>2, <1>6
  <2>3. CASE p # t[i].port
    <3>1. o[p] = pcbs[p]
      BY <1>7, <2>3
    <3> QED  BY <2>1, <2>2, <2>3, <3>1
  <2>4. CASE p = t[i].port /\ shared
    <3>1. o = pcbs
      BY <1>4, <2>4
    <3> QED  BY <2>1, <2>2, <2>4, <3>1
  <2>5. CASE p = t[i].port /\ ~shared
    <3>1. o = [pcbs EXCEPT ![p] = FALSE]
      BY <1>4, <2>5
    <3>2. ~o[p]
      BY <1>1, <3>1
    <3> QED  BY <2>2, <2>5, <3>2
  <2> QED  BY <2>3, <2>4, <2>5
<1>9. \A j, k \in Idx : j # k /\ Asks(u, j) /\ Asks(u, k) =>
        u[j].txid # u[k].txid /\ u[j].name # u[k].name
  BY <1>2, <1>6 DEF TableOK
<1> QED  BY <1>2, <1>5, <1>7, <1>8, <1>9 DEF TableOK, u, o

\* Those who wait for the entry are told, and nobody else.
LEMMA SettledRequests ==
  ASSUME NEW t, t \in [Idx -> EntryType], NEW rs, NEW tell, NEW w, RequestsOK(t, rs, tell, w),
         NEW i \in Idx, t[i].name \in Names, NEW e, NEW addr \in {"none", t[i].name}
  PROVE  RequestsOK([t EXCEPT ![i] = e], Left(rs, i), Told(rs, tell, i, addr), w)
<1> DEFINE u == [t EXCEPT ![i] = e]
           left == Left(rs, i)
           new == Told(rs, tell, i, addr)
           waits == At(rs, i)
<1>1. \A j \in Idx : j # i => u[j] = t[j]
  OBVIOUS
<1>2. /\ rs \in [Idx -> RequestType] /\ tell \in Seq(Tell)
      /\ w \in Seq(Names) /\ Len(tell) = Len(w)
  BY DEF RequestsOK
<1>3. Len(w) \in Nat /\ DOMAIN tell = 1..Len(w) /\ \A q \in 1..Len(w) : tell[q] \in Tell
  BY <1>2, LenProperties
<1>4. \A q \in 1..Len(w) : new[q] = IF \E r \in waits : rs[r].arg = q THEN addr ELSE tell[q]
  BY <1>3 DEF Told
<1>5. addr \in Tell /\ addr # ""
  BY DnsAssumption DEF Tell
<1>6. new \in Seq(Tell) /\ Len(new) = Len(w)
  <2>1. new \in [1..Len(w) -> Tell]
    BY <1>3, <1>5 DEF Told
  <2> HIDE DEF new
  <2> QED  BY <1>3, <2>1, IsSequence
<1>7. left \in [Idx -> RequestType]
  BY <1>2, Sizes DEF Left, NoRequest, RequestType
<1>8. \A r \in Idx : /\ r \in waits <=> rs[r].arg # 0 /\ rs[r].idx = i
                     /\ r \in waits => left[r].arg = 0
                     /\ r \notin waits => left[r] = rs[r]
  BY DEF At, Left, NoRequest
<1>9. \A r \in Idx : rs[r].arg # 0 => /\ rs[r].arg \in 1..Len(w)
                                      /\ tell[rs[r].arg] = ""
                                      /\ Asks(t, rs[r].idx)
                                      /\ t[rs[r].idx].name = w[rs[r].arg]
                                      /\ rs[r].arg \in Nat /\ rs[r].idx \in Idx
  BY <1>2 DEF RequestsOK, RequestType
<1>10. \A r, s \in Idx : r # s /\ rs[r].arg # 0 => rs[r].arg # rs[s].arg
  BY DEF RequestsOK
<1>11. waits \subseteq Idx
  BY DEF At
<1> HIDE DEF u, left, new, waits
<1>12. \A q \in 1..Len(w) : new[q] \in {"", "none", w[q]}
  <2> SUFFICES ASSUME NEW q \in 1..Len(w) PROVE new[q] \in {"", "none", w[q]}
    OBVIOUS
  <2>1. CASE \E r \in waits : rs[r].arg = q
    <3>1. PICK r \in waits : rs[r].arg = q
      BY <2>1
    <3>2. t[i].name = w[q]
      BY <1>8, <1>9, <1>11, <3>1
    <3> QED  BY <1>4, <2>1, <3>2
  <2>2. CASE ~\E r \in waits : rs[r].arg = q
    <3>1. new[q] = tell[q]
      BY <1>4, <2>2
    <3> QED  BY <3>1 DEF RequestsOK
  <2> QED  BY <2>1, <2>2
<1>13. \A q \in 1..Len(w) : new[q] = "" => \E r \in Idx : left[r].arg = q
  <2> SUFFICES ASSUME NEW q \in 1..Len(w), new[q] = "" PROVE \E r \in Idx : left[r].arg = q
    OBVIOUS
  <2>1. ~\E r \in waits : rs[r].arg = q
    BY <1>4, <1>5
  <2>2. tell[q] = ""
    BY <1>4, <2>1
  <2>3. PICK r \in Idx : rs[r].arg = q
    BY <2>2 DEF RequestsOK
  <2> QED  BY <1>8, <2>1, <2>3
<1>14. \A r \in Idx : left[r].arg # 0 => /\ left[r].arg \in 1..Len(w)
                                         /\ new[left[r].arg] = ""
                                         /\ Asks(u, left[r].idx)
                                         /\ u[left[r].idx].name = w[left[r].arg]
  <2> SUFFICES ASSUME NEW r \in Idx, left[r].arg # 0
               PROVE  /\ left[r].arg \in 1..Len(w)
                      /\ new[left[r].arg] = ""
                      /\ Asks(u, left[r].idx)
                      /\ u[left[r].idx].name = w[left[r].arg]
    OBVIOUS
  <2>1. r \notin waits /\ left[r] = rs[r] /\ rs[r].idx # i
    BY <1>8
  <2>2. /\ rs[r].arg \in 1..Len(w) /\ tell[rs[r].arg] = "" /\ Asks(t, rs[r].idx)
        /\ t[rs[r].idx].name = w[rs[r].arg] /\ rs[r].idx \in Idx
    BY <1>9, <2>1
  <2>3. ~\E s \in waits : rs[s].arg = rs[r].arg
    BY <1>10, <1>11, <2>1
  <2>4. new[rs[r].arg] = ""
    BY <1>4, <2>2, <2>3
  <2>5. u[rs[r].idx] = t[rs[r].idx]
    BY <1>1, <2>1, <2>2
  <2> QED  BY <2>1, <2>2, <2>4, <2>5 DEF Asks
<1>15. \A r, s \in Idx : r # s /\ left[r].arg # 0 => left[r].arg # left[s].arg
  BY <1>8, <1>10
<1> QED  BY <1>2, <1>6, <1>7, <1>12, <1>13, <1>14, <1>15 DEF RequestsOK, u, left, new

\* A question is added that is answered at once, ...
LEMMA AnsweredAtOnce ==
  ASSUME NEW t, NEW rs, NEW tell, NEW w, RequestsOK(t, rs, tell, w),
         NEW n \in Names, NEW a \in {"none", n}, NEW new \in Seq(Tell),
         Len(new) = Len(w) + 1, \A q \in 1..Len(w) : new[q] = tell[q], new[Len(w) + 1] = a
  PROVE  RequestsOK(t, rs, new, Append(w, n))
<1> DEFINE x == Append(w, n)
<1>1. /\ rs \in [Idx -> RequestType] /\ tell \in Seq(Tell) /\ w \in Seq(Names)
      /\ Len(w) \in Nat
  BY LenProperties DEF RequestsOK
<1>2. /\ x \in Seq(Names) /\ Len(x) = Len(w) + 1
      /\ \A q \in 1..Len(w) : x[q] = w[q]
      /\ x[Len(w) + 1] = n
  BY <1>1, AppendProperties
<1> HIDE DEF x
<1>3. 1..Len(x) = 1..Len(w) \cup {Len(w) + 1}
  BY <1>1, <1>2
<1>4. a # ""
  BY DnsAssumption
<1>5. \A q \in 1..Len(x) : new[q] \in {"", "none", x[q]}
  BY <1>2, <1>3 DEF RequestsOK
<1>6. \A q \in 1..Len(x) : new[q] = "" => \E r \in Idx : rs[r].arg = q
  BY <1>3, <1>4 DEF RequestsOK
<1>7. \A r \in Idx : rs[r].arg # 0 => /\ rs[r].arg \in 1..Len(x)
                                      /\ new[rs[r].arg] = ""
                                      /\ Asks(t, rs[r].idx)
                                      /\ t[rs[r].idx].name = x[rs[r].arg]
  BY <1>2, <1>3 DEF RequestsOK
<1>8. \A r, s \in Idx : r # s /\ rs[r].arg # 0 => rs[r].arg # rs[s].arg
  BY DEF RequestsOK
<1> QED  BY <1>1, <1>2, <1>5, <1>6, <1>7, <1>8 DEF RequestsOK, x

Free(rs, r) == rs[r].arg = 0

IsBlank(a) == a = ""

\* ... or that waits for an entry that asks for its name.
LEMMA Joins ==
  ASSUME NEW t, NEW rs, NEW tell, NEW w, RequestsOK(t, rs, tell, w),
         NEW n \in Names, NEW a, IsBlank(a), NEW new \in Seq(Tell),
         Len(new) = Len(w) + 1, \A q \in 1..Len(w) : new[q] = tell[q], new[Len(w) + 1] = a,
         NEW r \in Idx, Free(rs, r), NEW i \in Idx, Asks(t, i), t[i].name = n
  PROVE  RequestsOK(t, [rs EXCEPT ![r] = [arg |-> Len(w) + 1, idx |-> i]], new, Append(w, n))
<1> DEFINE x == Append(w, n)
           y == [rs EXCEPT ![r] = [arg |-> Len(w) + 1, idx |-> i]]
<1>1. /\ rs \in [Idx -> RequestType] /\ tell \in Seq(Tell) /\ w \in Seq(Names)
      /\ Len(w) \in Nat
  BY LenProperties DEF RequestsOK
<1>2. /\ x \in Seq(Names) /\ Len(x) = Len(w) + 1
      /\ \A q \in 1..Len(w) : x[q] = w[q]
      /\ x[Len(w) + 1] = n
  BY <1>1, AppendProperties
<1>3. /\ y \in [Idx -> RequestType] /\ y[r].arg = Len(w) + 1 /\ y[r].idx = i
      /\ \A s \in Idx : s # r => y[s] = rs[s]
  BY <1>1 DEF RequestType
<1> HIDE DEF x, y
<1>4. 1..Len(x) = 1..Len(w) \cup {Len(w) + 1}
  BY <1>1, <1>2
<1>5. \A s \in Idx : rs[s].arg # 0 => rs[s].arg \in 1..Len(w) /\ rs[s].arg # Len(w) + 1
  <2>1. \A s \in Idx : rs[s].arg # 0 => rs[s].arg \in 1..Len(w)
    BY DEF RequestsOK
  <2>2. Len(w) + 1 \notin 1..Len(w)
    BY <1>1
  <2> QED  BY <2>1, <2>2
<1>6. \A q \in 1..Len(x) : new[q] \in {"", "none", x[q]}
  BY <1>2, <1>4 DEF RequestsOK, IsBlank
<1>7. 0 \notin 1..Len(w)
  BY <1>1
<1>8. \A q \in 1..Len(x) : new[q] = "" => \E s \in Idx : y[s].arg = q
  <2> SUFFICES ASSUME NEW q \in 1..Len(x), new[q] = "" PROVE \E s \in Idx : y[s].arg = q
    OBVIOUS
  <2>1. CASE q = Len(w) + 1
    BY <1>3, <2>1
  <2>2. CASE q \in 1..Len(w)
    <3>1. PICK s \in Idx : rs[s].arg = q
      BY <2>2 DEF RequestsOK
    <3>2. s # r
      BY <1>7, <2>2, <3>1 DEF Free
    <3> QED  BY <1>3, <3>1, <3>2
  <2> QED  BY <1>4, <2>1, <2>2
<1>9. \A s \in Idx : y[s].arg # 0 => /\ y[s].arg \in 1..Len(x)
                                     /\ new[y[s].arg] = ""
                                     /\ Asks(t, y[s].idx)
                                     /\ t[y[s].idx].name = x[y[s].arg]
  <2> SUFFICES ASSUME NEW s \in Idx, y[s].arg # 0
               PROVE  /\ y[s].arg \in 1..Len(x)
                      /\ new[y[s].arg] = ""
                      /\ Asks(t, y[s].idx)
                      /\ t[y[s].idx].name = x[y[s].arg]
    OBVIOUS
  <2>1. CASE s = r
    BY <1>2, <1>3, <1>4, <2>1 DEF IsBlank
  <2>2. CASE s # r
    <3>1. y[s] = rs[s]
      BY <1>3, <2>2
    <3>2. /\ rs[s].arg \in 1..Len(w) /\ tell[rs[s].arg] = "" /\ Asks(t, rs[s].idx)
          /\ t[rs[s].idx].name = w[rs[s].arg]
      BY <3>1 DEF RequestsOK
    <3> QED  BY <1>2, <1>4, <3>1, <3>2
  <2> QED  BY <2>1, <2>2
<1>10. \A s, z \in Idx : s # z /\ y[s].arg # 0 => y[s].arg # y[z].arg
  <2>1. \A s, z \in Idx : s # z /\ rs[s].arg # 0 => rs[s].arg # rs[z].arg
    BY DEF RequestsOK
  <2>2. Len(w) + 1 # 0
    BY <1>1
  <2>3. \A s \in Idx : s # r => y[s].arg # Len(w) + 1
    BY <1>1, <1>3, <1>5
  <2> QED  BY <1>3, <2>1, <2>2, <2>3
<1> QED  BY <1>2, <1>3, <1>6, <1>8, <1>9, <1>10 DEF RequestsOK, x, y

-----------------------------------------------------------------------------
(* The operations on one entry *)

Put(m, i, e) == [m EXCEPT !.table = [m.table EXCEPT ![i] = e]]

Settled(m, i, addr, e) == [CallFound(m, i, addr) EXCEPT !.table[i] = e]

\* k is m with the entry of row i replaced by x.
IsPut(k, m, i, x) ==
  /\ IsMemory(k) /\ k.table = [m.table EXCEPT ![i] = x]
  /\ k.requests = m.requests /\ k.pcbs = m.pcbs /\ k.told = m.told
  /\ k.last = m.last /\ k.seqno = m.seqno /\ k.asked = m.asked

\* Put replaces one entry and leaves the rest of the memory.
LEMMA PutPuts ==
  ASSUME NEW m, IsMemory(m), NEW i \in Idx, NEW x \in EntryType
  PROVE  IsPut(Put(m, i, x), m, i, x)
BY DEF Put, IsMemory, IsPut


\* What a memory is after an entry is put into its table.
LEMMA PutIs ==
  ASSUME NEW m, IsMemory(m), NEW i \in Idx, NEW x \in EntryType
  PROVE  /\ IsMemory(Put(m, i, x))
         /\ Put(m, i, x).table = [m.table EXCEPT ![i] = x]
         /\ Put(m, i, x).requests = m.requests /\ Put(m, i, x).pcbs = m.pcbs
         /\ Put(m, i, x).told = m.told /\ Put(m, i, x).last = m.last
         /\ Put(m, i, x).seqno = m.seqno /\ Put(m, i, x).asked = m.asked
BY PutPuts DEF IsPut

\* The entry that was put is there.
LEMMA PutEntry ==
  ASSUME NEW m, IsMemory(m), NEW i \in Idx, NEW x \in EntryType
  PROVE  Put(m, i, x).table[i] = x
BY DEF Put, IsMemory

\* Only the last entry that is put at a place counts.
LEMMA PutPut ==
  ASSUME NEW m, IsMemory(m), NEW i \in Idx, NEW x \in EntryType, NEW y \in EntryType
  PROVE  Put(Put(m, i, x), i, y) = Put(m, i, y) /\ Put(m, i, m.table[i]) = m
<1>1. Put(Put(m, i, x), i, y) = Put(m, i, y)
  BY DEF Put, IsMemory
<1>2. [m.table EXCEPT ![i] = m.table[i]] = m.table
  BY DEF IsMemory
<1>3. Put(m, i, m.table[i]) = m
  BY <1>2 DEF Put, IsMemory
<1> QED  BY <1>1, <1>3

\* v is m with the requests of row i told addr and gone, its port closed, and its
\* entry replaced by e.
IsSettled(v, m, i, addr, e) ==
  v = [table |-> [m.table EXCEPT ![i] = e], requests |-> Left(m.requests, i),
       pcbs |-> Closed(m.table, m.pcbs, i), last |-> m.last, seqno |-> m.seqno,
       asked |-> m.asked, told |-> Told(m.requests, m.told, i, addr)]

\* What CallFound, and the write after it, leave.
LEMMA SettledIs ==
  ASSUME NEW m, IsMemory(m), NEW i \in Idx, NEW e \in EntryType, NEW addr
  PROVE  IsSettled(Settled(m, i, addr, e), m, i, addr, e)
<1> DEFINE k == TellAll(m, i, addr)
           left == Left(m.requests, i)
           tell == Told(m.requests, m.told, i, addr)
           c == Close(k, i)
<1>1. k = [m EXCEPT !.told = tell, !.requests = left]
  BY DEF TellAll, Waiting, Left, Told, At
<1> HIDE DEF k, left, tell
<1>2. k = [table |-> m.table, requests |-> left, pcbs |-> m.pcbs, last |-> m.last,
           seqno |-> m.seqno, asked |-> m.asked, told |-> tell]
  BY <1>1 DEF IsMemory
<1>3. k.table = m.table /\ k.pcbs = m.pcbs
  BY <1>2
<1> DEFINE shut == Closed(m.table, m.pcbs, i)
           open == [m.table[i] EXCEPT !.port = NoPort]
<1>4. c = [k EXCEPT !.table[i].port = NoPort, !.pcbs = shut]
  BY <1>3 DEF Close, Closed
<1> HIDE DEF shut
<1>5. c = [table |-> [m.table EXCEPT ![i] = open], requests |-> left, pcbs |-> shut,
           last |-> m.last, seqno |-> m.seqno, asked |-> m.asked, told |-> tell]
  BY <1>2, <1>4
<1> HIDE DEF c, open
<1>6. [[m.table EXCEPT ![i] = open] EXCEPT ![i] = e] = [m.table EXCEPT ![i] = e]
  BY DEF IsMemory
<1>7. [c EXCEPT !.table[i] = e]
        = [table |-> [m.table EXCEPT ![i] = e], requests |-> left, pcbs |-> shut,
           last |-> m.last, seqno |-> m.seqno, asked |-> m.asked, told |-> tell]
  BY <1>5, <1>6
<1>8. Settled(m, i, addr, e) = [c EXCEPT !.table[i] = e]
  BY DEF Settled, CallFound, c, k
<1> QED  BY <1>7, <1>8 DEF left, tell, shut, IsSettled

\* An entry that asks is settled, whatever it was made to look like before, as
\* long as its port is still the same.
LEMMA SettledKept ==
  ASSUME NEW m, NEW w, MemoryOK(m, w), NEW i \in Idx, Asks(m.table, i),
         NEW x \in EntryType, x.port = m.table[i].port,
         NEW e, EntryOK(e), e.state # "ASKING", NEW addr \in {"none", m.table[i].name}
  PROVE  MemoryOK(Settled(Put(m, i, x), i, addr, e), w)
<1> DEFINE k == Put(m, i, x)
           v == Settled(k, i, addr, e)
           u == [m.table EXCEPT ![i] = e]
<1>1. /\ IsMemory(m) /\ TableOK(m.table, m.pcbs) /\ RequestsOK(m.table, m.requests, m.told, w)
      /\ m.table \in [Idx -> EntryType] /\ e \in EntryType /\ m.table[i].name \in Names
  BY DEF MemoryOK, IsMemory, EntryOK, TableOK, Asks
<1>2. /\ IsMemory(k) /\ k.table = [m.table EXCEPT ![i] = x]
      /\ k.requests = m.requests /\ k.pcbs = m.pcbs /\ k.told = m.told /\ k.last = m.last
      /\ k.seqno = m.seqno /\ k.asked = m.asked
  <2>1. IsPut(k, m, i, x)
    BY <1>1, PutPuts
  <2> HIDE DEF k
  <2> QED  BY <2>1 DEF IsPut
<1>3. [k.table EXCEPT ![i] = e] = u
  BY <1>1, <1>2
<1>4. Closed(k.table, k.pcbs, i) = Closed(m.table, m.pcbs, i)
  <2>1. /\ k.table[i].port = m.table[i].port
        /\ \A j \in Idx \ {i} : k.table[j] = m.table[j]
    BY <1>1, <1>2
  <2> QED  BY <1>2, <2>1 DEF Closed
<1> HIDE DEF k, u
<1>5. /\ v.table = u /\ v.requests = Left(m.requests, i)
      /\ v.told = Told(m.requests, m.told, i, addr) /\ v.pcbs = Closed(m.table, m.pcbs, i)
      /\ v = [table |-> u, requests |-> Left(m.requests, i), pcbs |-> Closed(m.table, m.pcbs, i),
              last |-> m.last, seqno |-> m.seqno, asked |-> m.asked,
              told |-> Told(m.requests, m.told, i, addr)]
  <2>1. IsSettled(v, k, i, addr, e)
    BY <1>1, <1>2, SettledIs
  <2> HIDE DEF v
  <2>2. v = [table |-> u, requests |-> Left(m.requests, i), pcbs |-> Closed(m.table, m.pcbs, i),
             last |-> m.last, seqno |-> m.seqno, asked |-> m.asked,
             told |-> Told(m.requests, m.told, i, addr)]
    BY <1>2, <1>3, <1>4, <2>1 DEF IsSettled
  <2> QED  BY <2>2
<1>6. TableOK(u, Closed(m.table, m.pcbs, i))
  BY <1>1, SettledTable DEF u
<1>7. RequestsOK(u, Left(m.requests, i), Told(m.requests, m.told, i, addr), w)
  BY <1>1, SettledRequests DEF u
<1> HIDE DEF v
<1>8. m.last \in Idx /\ m.seqno \in 0..(DnsSeqMod - 1)
  BY <1>1 DEF IsMemory
<1>9. IsMemory(v)
  <2>1. /\ v.table \in [Idx -> EntryType] /\ v.pcbs \in [Idx -> BOOLEAN]
        /\ v.requests \in [Idx -> RequestType] /\ v.told \in Seq(Tell)
    BY <1>5, <1>6, <1>7 DEF TableOK, RequestsOK
  <2> QED  BY <1>5, <1>8, <2>1 DEF IsMemory
<1> QED  BY <1>5, <1>6, <1>7, <1>9 DEF MemoryOK, k, v

\* An entry goes on asking, or one that does not ask changes.
LEMMA PutKept ==
  ASSUME NEW m, NEW w, MemoryOK(m, w), NEW i \in Idx, NEW e, EntryOK(e),
         Asks(m.table, i) <=> e.state = "ASKING",
         Asks(m.table, i) => /\ e.name = m.table[i].name /\ e.port = m.table[i].port
                             /\ e.txid = m.table[i].txid
  PROVE  MemoryOK(Put(m, i, e), w)
<1> DEFINE k == Put(m, i, e)
           u == [m.table EXCEPT ![i] = e]
<1>1. /\ IsMemory(m) /\ TableOK(m.table, m.pcbs) /\ RequestsOK(m.table, m.requests, m.told, w)
      /\ e \in EntryType
  BY DEF MemoryOK, EntryOK
<1>2. /\ IsMemory(k) /\ k.table = u /\ k.requests = m.requests /\ k.pcbs = m.pcbs
      /\ k.told = m.told
  <2>1. IsPut(k, m, i, e)
    BY <1>1, PutPuts
  <2> HIDE DEF k
  <2> QED  BY <2>1 DEF IsPut
<1>3. TableOK(u, m.pcbs) /\ RequestsOK(u, m.requests, m.told, w)
  BY <1>1, SameAskers
<1> HIDE DEF k, u
<1> QED  BY <1>2, <1>3 DEF MemoryOK, k

\* The query of an entry that asks is sent: its server is one that is set.
LEMMA SendKept ==
  ASSUME NEW m, NEW w, MemoryOK(m, w), NEW i \in Idx, Asks(m.table, i)
  PROVE  MemoryOK(Send(m, i), w)
<1> DEFINE e == m.table[i]
           a == m.asked \cup {[txid |-> e.txid, name |-> e.name, server |-> dns_servers[e.server]]}
           v == [m EXCEPT !.asked = a]
<1>1. dns_servers[e.server] # NoServer
  BY DEF MemoryOK, TableOK, EntryOK, Asks
<1>2. Send(m, i) = v
  BY <1>1 DEF Send
<1> HIDE DEF e, a
<1>3. /\ IsMemory(v) /\ v.table = m.table /\ v.requests = m.requests /\ v.pcbs = m.pcbs
      /\ v.told = m.told
  BY DEF MemoryOK, IsMemory
<1> HIDE DEF v
<1>4. MemoryOK(v, w)
  BY <1>3 DEF MemoryOK
<1> QED  BY <1>2, <1>4

\* The time of an entry is up: it asks again, asks the next server or gives up.
LEMMA RetryKept ==
  ASSUME NEW m, NEW w, MemoryOK(m, w), NEW i \in Idx, Asks(m.table, i),
         NEW x \in EntryType, x.state = "ASKING", x.name = m.table[i].name,
         x.port = m.table[i].port, x.txid = m.table[i].txid, x.server = m.table[i].server,
         x.retries \in 0..(DNS_MAX_RETRIES - 1), dns_servers \in ServerTables
  PROVE  MemoryOK(Retry(Put(m, i, x), i), w)
<1> DEFINE k == Put(m, i, x)
           n == x.retries + 1
<1>1. IsMemory(m) /\ EntryOK(m.table[i]) /\ m.table[i].state = "ASKING"
  BY DEF MemoryOK, TableOK, Asks
<1>2. IsMemory(k) /\ k.table[i] = x
  <2>1. IsMemory(k)
    BY <1>1, PutIs
  <2>2. k.table[i] = x
    BY <1>1, PutEntry
  <2> QED  BY <2>1, <2>2
<1>3. /\ m.table[i].server \in 1..Len(dns_servers) /\ dns_servers[m.table[i].server] # NoServer
      /\ x.name \in Names /\ x.port \in Idx
  BY <1>1 DEF EntryOK
<1>4. Len(dns_servers) \in Nat /\ DNS_MAX_RETRIES \in Nat \ {0}
  BY DnsAssumption
<1>5. n \in 1..DNS_MAX_RETRIES /\ n \in Nat
  BY <1>4
<1> HIDE DEF k
<1>6. CASE n = DNS_MAX_RETRIES /\ BackupAvailable(x)
  <2> DEFINE z == x.server + 1
             y == [x EXCEPT !.server = z, !.tmr = 1, !.retries = 0]
  <2>0. z \in Nat
    BY <1>3, <1>4
  <2>1. Retry(k, i) = Send(Put(k, i, y), i)
    <3>1. [k EXCEPT !.table[i] = y] = Put(k, i, y)
      <4> HIDE DEF y
      <4> QED  BY <1>2 DEF Put, IsMemory
    <3> QED  BY <1>2, <1>6, <3>1 DEF Retry
  <2>3. z \in 1..Len(dns_servers) /\ dns_servers[z] # NoServer
    BY <1>3, <1>4, <1>6 DEF BackupAvailable
  <2> HIDE DEF z
  <2>2. /\ y \in EntryType /\ y.state = "ASKING" /\ y.name = x.name /\ y.port = x.port
        /\ y.txid = x.txid /\ y.server = z /\ y.tmr = 1 /\ y.retries = 0
    BY <2>0 DEF EntryType
  <2> HIDE DEF y
  <2>4. EntryOK(y)
    BY <1>3, <1>4, <2>2, <2>3 DEF EntryOK
  <2>5. Put(k, i, y) = Put(m, i, y)
    BY <1>1, <2>2, PutPut DEF k
  <2>6. MemoryOK(Put(m, i, y), w)
    BY <2>2, <2>4, PutKept
  <2>7. Asks(Put(m, i, y).table, i)
    BY <1>1, <2>2, PutEntry DEF Asks
  <2> QED  BY <2>1, <2>5, <2>6, <2>7, SendKept DEF k
<1>7. CASE n = DNS_MAX_RETRIES /\ ~BackupAvailable(x)
  <2> DEFINE y == [x EXCEPT !.retries = n]
  <2>1. Retry(k, i) = Fail(Put(k, i, y), i)
    BY <1>2, <1>7 DEF Retry, Put, IsMemory
  <2>2. y \in EntryType /\ y.port = x.port
    BY <1>5 DEF EntryType
  <2> HIDE DEF y
  <2>3. Put(k, i, y) = Put(m, i, y)
    BY <1>1, <2>2, PutPut DEF k
  <2>4. Fail(Put(m, i, y), i) = Settled(Put(m, i, y), i, "none", Unused)
    BY DEF Fail, Settled
  <2>5. EntryOK(Unused) /\ Unused.state # "ASKING"
    BY UnusedOK
  <2>6. MemoryOK(Settled(Put(m, i, y), i, "none", Unused), w)
    BY <2>2, <2>5, SettledKept
  <2> QED  BY <2>1, <2>3, <2>4, <2>6 DEF k
<1>8. CASE n # DNS_MAX_RETRIES
  <2> DEFINE y == [x EXCEPT !.retries = n, !.tmr = n]
  <2>1. Retry(k, i) = Send(Put(k, i, y), i)
    BY <1>2, <1>8 DEF Retry, Put, IsMemory
  <2>2. /\ y \in EntryType /\ y.state = "ASKING" /\ y.name = x.name /\ y.port = x.port
        /\ y.txid = x.txid /\ y.server = x.server /\ y.tmr = n /\ y.retries = n
    BY <1>5 DEF EntryType
  <2>3. n \in 0..(DNS_MAX_RETRIES - 1)
    BY <1>4, <1>5, <1>8
  <2> HIDE DEF y, n
  <2>4. EntryOK(y)
    BY <1>3, <1>5, <2>2, <2>3 DEF EntryOK
  <2>5. Put(k, i, y) = Put(m, i, y)
    BY <1>1, <2>2, PutPut DEF k
  <2>6. MemoryOK(Put(m, i, y), w)
    BY <2>2, <2>4, PutKept
  <2>7. Asks(Put(m, i, y).table, i)
    BY <1>1, <2>2, PutEntry DEF Asks
  <2> QED  BY <2>1, <2>5, <2>6, <2>7, SendKept DEF k
<1> QED  BY <1>6, <1>7, <1>8 DEF k

\* An entry that asks is made to look as if its time were up, and is checked.
LEMMA TimeUp ==
  ASSUME NEW m, NEW w, MemoryOK(m, w), NEW i \in Idx, Asks(m.table, i),
         NEW x \in EntryType, x.state = "ASKING", x.name = m.table[i].name,
         x.port = m.table[i].port, x.txid = m.table[i].txid, x.server = m.table[i].server,
         x.retries \in 0..(DNS_MAX_RETRIES - 1), x.tmr = 1, dns_servers \in ServerTables
  PROVE  MemoryOK(CheckEntry(Put(m, i, x), i), w)
<1> DEFINE k == Put(m, i, x)
           y == [x EXCEPT !.tmr = 0]
<1>1. IsMemory(m)
  BY DEF MemoryOK
<1>2. IsMemory(k)
  BY <1>1, PutIs
<1>3. k.table[i] = x
  BY <1>1, PutEntry
<1>4. /\ y \in EntryType /\ y.state = "ASKING" /\ y.name = x.name /\ y.port = x.port
      /\ y.txid = x.txid /\ y.server = x.server /\ y.retries = x.retries
  BY DEF EntryType
<1>5. Put(k, i, y) = Put(m, i, y)
  <2> HIDE DEF y
  <2> QED  BY <1>1, <1>4, PutPut
<1> HIDE DEF k
<1>6. [k EXCEPT !.table[i].tmr = 0] = Put(k, i, y)
  BY <1>2, <1>3 DEF Put, IsMemory
<1> HIDE DEF y
<1>7. CheckEntry(k, i) = Retry(Put(m, i, y), i)
  BY <1>3, <1>5, <1>6 DEF CheckEntry
<1>8. MemoryOK(Retry(Put(m, i, y), i), w)
  BY <1>4, RetryKept
<1> QED  BY <1>7, <1>8 DEF k

\* dns_check_entry.
LEMMA CheckEntryKept ==
  ASSUME NEW m, NEW w, MemoryOK(m, w), NEW i \in Idx, dns_servers \in ServerTables
  PROVE  MemoryOK(CheckEntry(m, i), w)
<1> DEFINE e == m.table[i]
<1>1. IsMemory(m) /\ EntryOK(e) /\ e \in EntryType
  BY DEF MemoryOK, TableOK, EntryOK
<1>2. DNS_MAX_RETRIES \in Nat \ {0}
  BY DnsAssumption
<1>3. CASE e.state = "ASKING" /\ e.tmr = 1
  <2>1. Put(m, i, e) = m
    BY <1>1, PutPut
  <2>2. Asks(m.table, i) /\ e.retries \in 0..(DNS_MAX_RETRIES - 1)
    BY <1>1, <1>3 DEF EntryOK, Asks
  <2>3. MemoryOK(CheckEntry(Put(m, i, e), i), w)
    BY <1>1, <1>3, <2>2, TimeUp
  <2> QED  BY <2>1, <2>3
<1>4. CASE e.state = "ASKING" /\ e.tmr # 1
  <2> DEFINE n == e.tmr - 1
             y == [e EXCEPT !.tmr = n]
  <2>1. n \in 1..DNS_MAX_RETRIES /\ n \in Nat
    BY <1>1, <1>2, <1>4 DEF EntryOK
  <2>2. CheckEntry(m, i) = [m EXCEPT !.table[i].tmr = n]
    BY <1>4 DEF CheckEntry
  <2> HIDE DEF n
  <2>3. [m EXCEPT !.table[i].tmr = n] = Put(m, i, y)
    BY <1>1 DEF Put, IsMemory
  <2>4. /\ y \in EntryType /\ y.state = "ASKING" /\ y.name = e.name /\ y.port = e.port
        /\ y.txid = e.txid /\ y.server = e.server /\ y.retries = e.retries /\ y.tmr = n
    BY <1>1, <1>4, <2>1 DEF EntryType
  <2> HIDE DEF y
  <2>5. EntryOK(y)
    BY <1>1, <1>4, <2>1, <2>4 DEF EntryOK
  <2>6. Asks(m.table, i)
    BY <1>4 DEF Asks
  <2>7. MemoryOK(Put(m, i, y), w)
    BY <2>4, <2>5, <2>6, PutKept
  <2> QED  BY <2>2, <2>3, <2>7
<1>5. CASE e.state = "DONE" /\ e.ttl <= 1
  <2>1. CheckEntry(m, i) = [m EXCEPT !.table[i] = Unused]
    BY <1>5 DEF CheckEntry
  <2>2. [m EXCEPT !.table[i] = Unused] = Put(m, i, Unused)
    BY <1>1 DEF Put, IsMemory
  <2>3. ~Asks(m.table, i)
    BY <1>5 DEF Asks
  <2>4. MemoryOK(Put(m, i, Unused), w)
    BY <2>3, UnusedOK, PutKept
  <2> QED  BY <2>1, <2>2, <2>4
<1>6. CASE e.state = "DONE" /\ ~(e.ttl <= 1)
  <2> DEFINE n == e.ttl - 1
             y == [e EXCEPT !.ttl = n]
  <2>1. n \in Nat /\ n > 0
    <3>1. e.ttl \in Nat
      BY <1>1 DEF EntryType
    <3> QED  BY <1>6, <3>1
  <2>2. CheckEntry(m, i) = [m EXCEPT !.table[i].ttl = n]
    BY <1>6 DEF CheckEntry
  <2> HIDE DEF n
  <2>3. [m EXCEPT !.table[i].ttl = n] = Put(m, i, y)
    BY <1>1 DEF Put, IsMemory
  <2>4. /\ y \in EntryType /\ y.state = "DONE" /\ y.name = e.name /\ y.ipaddr = e.ipaddr
        /\ y.ttl = n
    BY <1>1, <1>6, <2>1 DEF EntryType
  <2> HIDE DEF y
  <2>5. EntryOK(y)
    BY <1>1, <1>6, <2>1, <2>4 DEF EntryOK
  <2>6. ~Asks(m.table, i)
    BY <1>6 DEF Asks
  <2>7. MemoryOK(Put(m, i, y), w)
    BY <2>4, <2>5, <2>6, PutKept
  <2> QED  BY <2>2, <2>3, <2>7
<1>7. CASE e.state = "UNUSED"
  BY <1>7 DEF CheckEntry
<1> QED  BY <1>1, <1>3, <1>4, <1>5, <1>6, <1>7 DEF EntryOK

-----------------------------------------------------------------------------
(* The timer *)

Run(f, k) ==
  f = [n \in 0..k |-> IF n = 0 THEN Memory ELSE CheckEntry(f[n - 1], n - 1)]

\* The recursion that defines Checked has a solution of every length.
LEMMA RunExists ==
  ASSUME NEW k \in Nat
  PROVE  \E f : Run(f, k)
<1> SUFFICES ASSUME ~\E f : Run(f, k) PROVE FALSE
  OBVIOUS
<1> DEFINE Bad == {n \in Nat : ~\E f : Run(f, n)}
<1>1. Bad \subseteq Nat /\ Bad # {}
  OBVIOUS
<1>2. PICK b \in Bad : \A y \in Bad : b <= y
  <2> HIDE DEF Bad
  <2> QED  BY <1>1, LeastOf
<1>3. b \in Nat /\ ~\E f : Run(f, b)
  OBVIOUS
<1>4. CASE b = 0
  <2> DEFINE f == [n \in 0..0 |-> Memory]
  <2>1. f = [n \in 0..0 |-> IF n = 0 THEN Memory ELSE CheckEntry(f[n - 1], n - 1)]
    OBVIOUS
  <2>2. Run(f, 0)
    BY <2>1 DEF Run
  <2> QED  BY <1>3, <1>4, <2>2
<1>5. CASE b # 0
  <2>1. b - 1 \in Nat /\ b - 1 \notin Bad
    BY <1>2, <1>3, <1>5
  <2>2. PICK f : Run(f, b - 1)
    BY <2>1
  <2> DEFINE g == [n \in 0..b |-> IF n = b THEN CheckEntry(f[b - 1], b - 1) ELSE f[n]]
  <2>3. \A n \in 0..(b - 1) : f[n] = IF n = 0 THEN Memory ELSE CheckEntry(f[n - 1], n - 1)
    BY <2>2 DEF Run
  <2>4. \A n \in 0..b : g[n] = IF n = 0 THEN Memory ELSE CheckEntry(g[n - 1], n - 1)
    <3> SUFFICES ASSUME NEW n \in 0..b
                 PROVE  g[n] = IF n = 0 THEN Memory ELSE CheckEntry(g[n - 1], n - 1)
      OBVIOUS
    <3>1. CASE n = b
      <4>1. b - 1 \in 0..b /\ b - 1 # b
        BY <1>3, <1>5
      <4>2. g[b - 1] = f[b - 1]
        BY <4>1
      <4>3. g[b] = CheckEntry(f[b - 1], b - 1)
        BY <1>3
      <4> QED  BY <1>5, <3>1, <4>2, <4>3
    <3>2. CASE n # b
      <4>1. n \in 0..(b - 1) /\ g[n] = f[n]
        BY <1>3, <3>2
      <4>2. CASE n = 0
        BY <2>3, <4>1, <4>2
      <4>3. CASE n # 0
        <5>1. n - 1 \in 0..b /\ n - 1 # b
          BY <1>3, <4>1, <4>3
        <5>2. g[n - 1] = f[n - 1]
          BY <5>1
        <5> QED  BY <2>3, <4>1, <4>3, <5>2
      <4> QED  BY <4>2, <4>3
    <3> QED  BY <3>1, <3>2
  <2>5. g = [n \in 0..b |-> g[n]]
    OBVIOUS
  <2> HIDE DEF g
  <2>6. g = [n \in 0..b |-> IF n = 0 THEN Memory ELSE CheckEntry(g[n - 1], n - 1)]
    BY <2>4, <2>5
  <2>7. Run(g, b)
    BY <2>6 DEF Run
  <2> QED  BY <1>3, <2>7
<1> QED  BY <1>4, <1>5

\* dns_check_entries: whatever the table holds, checking its entries one after
\* the other keeps the memory good.
LEMMA CheckedKept ==
  ASSUME MemoryOK(Memory, want), dns_servers \in ServerTables
  PROVE  MemoryOK(Checked[DNS_TABLE_SIZE], want)
<1>1. Run(Checked, DNS_TABLE_SIZE)
  <2>1. \E f : Run(f, DNS_TABLE_SIZE)
    BY Sizes, RunExists
  <2>2. \E f : f = [n \in 0..DNS_TABLE_SIZE |->
                      IF n = 0 THEN Memory ELSE CheckEntry(f[n - 1], n - 1)]
    BY <2>1 DEF Run
  <2> QED  BY <2>2 DEF Checked, Run
<1>2. \A n \in 0..DNS_TABLE_SIZE :
        Checked[n] = IF n = 0 THEN Memory ELSE CheckEntry(Checked[n - 1], n - 1)
  BY <1>1 DEF Run
<1> DEFINE Bad == {n \in 0..DNS_TABLE_SIZE : ~MemoryOK(Checked[n], want)}
<1>3. Bad = {}
  <2> SUFFICES ASSUME Bad # {} PROVE FALSE
    OBVIOUS
  <2>1. Bad \subseteq Nat
    OBVIOUS
  <2>2. PICK b \in Bad : \A y \in Bad : b <= y
    <3> HIDE DEF Bad
    <3> QED  BY <2>1, LeastOf
  <2>3. b \in 0..DNS_TABLE_SIZE /\ ~MemoryOK(Checked[b], want)
    OBVIOUS
  <2>4. b # 0
    BY <1>2, <2>3
  <2>5. b - 1 \in Idx /\ b - 1 \in 0..DNS_TABLE_SIZE
    BY <2>3, <2>4, Sizes DEF Idx
  <2>6. MemoryOK(Checked[b - 1], want)
    BY <2>2, <2>3, <2>5
  <2>7. MemoryOK(CheckEntry(Checked[b - 1], b - 1), want)
    BY <2>5, <2>6, CheckEntryKept
  <2> QED  BY <1>2, <2>3, <2>4, <2>7
<1>4. DNS_TABLE_SIZE \in 0..DNS_TABLE_SIZE
  BY Sizes
<1> QED  BY <1>3, <1>4

-----------------------------------------------------------------------------
(* Questions *)

\* dns_alloc_pcb returns a source port, or none.
LEMMA AllocPcbIn ==
  ASSUME NEW m, IsMemory(m)
  PROVE  AllocPcb(m) = NoPort \/ AllocPcb(m) \in Idx
<1> DEFINE free == {p \in Idx : ~m.pcbs[p]}
           open == {p \in Idx : m.pcbs[p]}
           after(p) == (p - m.last - 1) % DNS_TABLE_SIZE
<1>1. CASE free # {} /\ Cardinality(open) < MEMP_NUM_UDP_PCB
  <2>1. Least(free) \in free
    BY <1>1, Sizes, LeastIn
  <2>2. AllocPcb(m) = Least(free)
    BY <1>1 DEF AllocPcb
  <2> QED  BY <2>1, <2>2
<1>2. CASE ~(free # {} /\ Cardinality(open) < MEMP_NUM_UDP_PCB) /\ open # {}
  <2> DEFINE f == [p \in open |-> after(p)]
  <2>1. \A p \in open : after(p) \in Nat
    <3> SUFFICES ASSUME NEW p \in Idx PROVE after(p) \in Nat
      OBVIOUS
    <3>1. p - m.last - 1 \in Int
      BY Sizes DEF IsMemory
    <3>2. after(p) \in 0..(DNS_TABLE_SIZE - 1)
      BY <3>1, Sizes, ModBound
    <3> QED  BY <3>2, Sizes
  <2>2. f \in [open -> Nat]
    BY <2>1
  <2>3. \E p \in open : \A o \in open : f[p] <= f[o]
    <3> HIDE DEF f, open
    <3> QED  BY <1>2, <2>2, LeastSomewhere
  <2>4. \E p \in open : \A o \in open : after(p) <= after(o)
    <3> HIDE DEF open, after
    <3> QED  BY <2>3
  <2>5. AllocPcb(m) = CHOOSE p \in open : \A o \in open : after(p) <= after(o)
    BY <1>2 DEF AllocPcb
  <2>6. AllocPcb(m) \in open
    <3> HIDE DEF open, after
    <3> QED  BY <2>4, <2>5
  <2> QED  BY <2>6
<1>3. CASE ~(free # {} /\ Cardinality(open) < MEMP_NUM_UDP_PCB) /\ ~(open # {})
  BY <1>3 DEF AllocPcb
<1> QED  BY <1>1, <1>2, <1>3

\* dns_enqueue takes an entry that does not ask, if it takes one.
LEMMA EntryForIdle ==
  ASSUME NEW m, IsMemory(m)
  PROVE  EntryFor(m) = DNS_TABLE_SIZE \/ (EntryFor(m) \in Idx /\ ~Asks(m.table, EntryFor(m)))
<1> DEFINE unused == {i \in Idx : m.table[i].state = "UNUSED"}
           done   == {i \in Idx : m.table[i].state = "DONE" /\ Age(m, i) > 0}
           oldest == {i \in done : \A j \in done : Age(m, j) <= Age(m, i)}
<1>1. CASE unused # {}
  <2>1. Least(unused) \in unused
    BY <1>1, Sizes, LeastIn
  <2>2. EntryFor(m) = Least(unused)
    BY <1>1 DEF EntryFor
  <2> QED  BY <2>1, <2>2 DEF Asks
<1>2. CASE unused = {} /\ done # {}
  <2>1. \A i \in Idx : Age(m, i) \in 0..(DnsSeqMod - 1)
    <3> SUFFICES ASSUME NEW i \in Idx PROVE Age(m, i) \in 0..(DnsSeqMod - 1)
      OBVIOUS
    <3>1. m.seqno \in 0..(DnsSeqMod - 1) /\ m.table[i].seqno \in 0..(DnsSeqMod - 1)
      BY DEF IsMemory, EntryType
    <3>2. m.seqno - m.table[i].seqno \in Int
      BY <3>1, Sizes
    <3> QED  BY <3>2, Sizes, ModBound DEF Age
  <2> DEFINE f == [i \in done |-> DnsSeqMod - Age(m, i)]
  <2>2. f \in [done -> Nat]
    <3>1. \A i \in Idx : DnsSeqMod - Age(m, i) \in Nat
      BY <2>1, Sizes
    <3> QED  BY <3>1
  <2>3. \E i \in done : \A j \in done : f[i] <= f[j]
    <3> HIDE DEF f, done
    <3> QED  BY <1>2, <2>2, LeastSomewhere
  <2>4. \A i, j \in done : f[i] <= f[j] => Age(m, j) <= Age(m, i)
    <3> SUFFICES ASSUME NEW i \in done, NEW j \in done, f[i] <= f[j]
                 PROVE  Age(m, j) <= Age(m, i)
      OBVIOUS
    <3>1. DnsSeqMod - Age(m, i) <= DnsSeqMod - Age(m, j)
      OBVIOUS
    <3>2. Age(m, i) \in Int /\ Age(m, j) \in Int
      BY <2>1
    <3> QED  BY <3>1, <3>2, Sizes
  <2>5. oldest # {} /\ oldest \subseteq Idx
    <3> HIDE DEF f
    <3> QED  BY <2>3, <2>4
  <2>6. Least(oldest) \in oldest
    <3> HIDE DEF oldest
    <3> QED  BY <2>5, Sizes, LeastIn
  <2>7. EntryFor(m) = Least(oldest)
    BY <1>2 DEF EntryFor
  <2> QED  BY <2>6, <2>7 DEF Asks
<1>3. CASE unused = {} /\ done = {}
  BY <1>3 DEF EntryFor
<1> QED  BY <1>1, <1>2, <1>3

More(m) == [m EXCEPT !.told = Append(m.told, "")]

Answer(m, q, a) == [More(m) EXCEPT !.told[q] = a]

Blank == ""

\* A question more, and nothing told yet.
LEMMA MoreIs ==
  ASSUME NEW m, IsMemory(m)
  PROVE  /\ IsMemory(More(m))
         /\ More(m).table = m.table /\ More(m).requests = m.requests
         /\ More(m).pcbs = m.pcbs /\ More(m).last = m.last
         /\ More(m).seqno = m.seqno /\ More(m).asked = m.asked
         /\ More(m).told \in Seq(Tell) /\ Len(More(m).told) = Len(m.told) + 1
         /\ \A q \in 1..Len(m.told) : More(m).told[q] = m.told[q]
         /\ More(m).told[Len(m.told) + 1] = Blank
<1>1. m.told \in Seq(Tell) /\ Blank \in Tell
  BY DEF IsMemory, Tell, Blank
<1> DEFINE f == Append(m.told, Blank)
<1>2. /\ f \in Seq(Tell) /\ Len(f) = Len(m.told) + 1
      /\ \A q \in 1..Len(m.told) : f[q] = m.told[q]
      /\ f[Len(m.told) + 1] = Blank
  BY <1>1, AppendProperties
<1>3. More(m) = [m EXCEPT !.told = f]
  BY DEF More, Blank
<1> HIDE DEF f
<1>4. /\ IsMemory(More(m)) /\ More(m).told = f
      /\ More(m).table = m.table /\ More(m).requests = m.requests
      /\ More(m).pcbs = m.pcbs /\ More(m).last = m.last
      /\ More(m).seqno = m.seqno /\ More(m).asked = m.asked
  BY <1>2, <1>3 DEF IsMemory
<1> QED  BY <1>2, <1>4

\* f is s with its element q replaced by a.
IsExcept(f, s, q, a) ==
  /\ f \in Seq(Tell) /\ Len(f) = Len(s)
  /\ \A j \in 1..Len(s) : f[j] = IF j = q THEN a ELSE s[j]

\* What was told, with one element of it replaced.
LEMMA TellExcept ==
  ASSUME NEW s \in Seq(Tell), NEW q \in 1..Len(s), NEW a \in Tell
  PROVE  IsExcept([s EXCEPT ![q] = a], s, q, a)
BY ExceptSeq DEF IsExcept

\* The question is answered at once.
LEMMA AnswerKept ==
  ASSUME NEW m, NEW w, MemoryOK(m, w), NEW n \in Names, NEW a \in {"none", n}
  PROVE  MemoryOK(Answer(m, Len(w) + 1, a), Append(w, n))
<1> DEFINE k == More(m)
           q == Len(w) + 1
           f == [k.told EXCEPT ![q] = a]
           v == Answer(m, q, a)
<1>1. /\ IsMemory(m) /\ TableOK(m.table, m.pcbs) /\ RequestsOK(m.table, m.requests, m.told, w)
      /\ Len(m.told) = Len(w) /\ m.told \in Seq(Tell) /\ Len(w) \in Nat
  BY LenProperties DEF MemoryOK, RequestsOK
<1>2. a \in Tell
  BY DEF Tell
<1>3. /\ IsMemory(k) /\ k.table = m.table /\ k.requests = m.requests /\ k.pcbs = m.pcbs
      /\ k.told \in Seq(Tell) /\ Len(k.told) = Len(w) + 1
      /\ \A p \in 1..Len(w) : k.told[p] = m.told[p]
  BY <1>1, MoreIs
<1> HIDE DEF k
<1>4. q \in 1..Len(k.told)
  BY <1>1, <1>3
<1>5. /\ f \in Seq(Tell) /\ Len(f) = Len(w) + 1
      /\ \A j \in 1..Len(k.told) : f[j] = IF j = q THEN a ELSE k.told[j]
  <2>1. /\ f \in Seq(Tell) /\ Len(f) = Len(k.told)
        /\ \A j \in 1..Len(k.told) : f[j] = IF j = q THEN a ELSE k.told[j]
    <3>1. IsExcept(f, k.told, q, a)
      BY <1>2, <1>3, <1>4, TellExcept
    <3> HIDE DEF f, q
    <3> QED  BY <3>1 DEF IsExcept
  <2> HIDE DEF f, q
  <2> QED  BY <1>3, <2>1
<1>6. \A p \in 1..Len(w) : p \in 1..Len(k.told) /\ p # q
  BY <1>1, <1>3
<1>7. v = [k EXCEPT !.told = f]
  BY <1>3 DEF Answer, IsMemory, k
<1> HIDE DEF f
<1>8. /\ IsMemory(v) /\ v.table = m.table /\ v.requests = m.requests /\ v.pcbs = m.pcbs
      /\ v.told = f
  BY <1>3, <1>5, <1>7 DEF IsMemory
<1>9. \A p \in 1..Len(w) : f[p] = m.told[p]
  BY <1>3, <1>5, <1>6
<1>10. f[Len(w) + 1] = a
  BY <1>4, <1>5
<1>11. RequestsOK(m.table, m.requests, f, Append(w, n))
  BY <1>1, <1>5, <1>9, <1>10, AnsweredAtOnce
<1> HIDE DEF v
<1>12. MemoryOK(v, Append(w, n))
  BY <1>1, <1>8, <1>11 DEF MemoryOK
<1> QED  BY <1>12 DEF v

Join(m, r, q, i) == [More(m) EXCEPT !.requests[r] = [arg |-> q, idx |-> i]]

\* The question waits, with others, for an entry that asks.
LEMMA JoinKept ==
  ASSUME NEW m, NEW w, MemoryOK(m, w), NEW n \in Names,
         NEW r \in Idx, Free(m.requests, r), NEW i \in Idx, Asks(m.table, i), m.table[i].name = n
  PROVE  MemoryOK(Join(m, r, Len(w) + 1, i), Append(w, n))
<1> DEFINE k == More(m)
           q == Len(w) + 1
           y == [m.requests EXCEPT ![r] = [arg |-> q, idx |-> i]]
           v == Join(m, r, q, i)
<1>1. /\ IsMemory(m) /\ TableOK(m.table, m.pcbs) /\ RequestsOK(m.table, m.requests, m.told, w)
      /\ Len(m.told) = Len(w) /\ m.told \in Seq(Tell) /\ Len(w) \in Nat
  BY LenProperties DEF MemoryOK, RequestsOK
<1>2. /\ IsMemory(k) /\ k.table = m.table /\ k.requests = m.requests /\ k.pcbs = m.pcbs
      /\ k.told \in Seq(Tell) /\ Len(k.told) = Len(w) + 1
      /\ \A p \in 1..Len(w) : k.told[p] = m.told[p]
      /\ k.told[Len(w) + 1] = Blank
  BY <1>1, MoreIs
<1> HIDE DEF k
<1>3. IsBlank(Blank)
  BY DEF IsBlank, Blank
<1>4. RequestsOK(m.table, y, k.told, Append(w, n))
  BY <1>1, <1>2, <1>3, Joins
<1>5. y \in [Idx -> RequestType]
  BY <1>4 DEF RequestsOK
<1>6. v = [k EXCEPT !.requests = y]
  BY <1>2 DEF Join, IsMemory, k
<1> HIDE DEF y
<1>7. /\ IsMemory(v) /\ v.table = m.table /\ v.requests = y /\ v.pcbs = m.pcbs
      /\ v.told = k.told
  BY <1>2, <1>5, <1>6 DEF IsMemory
<1> HIDE DEF v
<1>8. MemoryOK(v, Append(w, n))
  BY <1>1, <1>4, <1>7 DEF MemoryOK
<1> QED  BY <1>8 DEF v

Begun(m, i, e) ==
  [m EXCEPT !.table = [m.table EXCEPT ![i] = e], !.last = e.port,
            !.pcbs = [m.pcbs EXCEPT ![e.port] = TRUE], !.seqno = (m.seqno + 1) % DnsSeqMod]

\* An entry begins to ask, before anyone waits for it.
LEMMA BegunKept ==
  ASSUME NEW m, NEW w, MemoryOK(m, w), NEW i \in Idx, ~Asks(m.table, i),
         NEW e, EntryOK(e), e.state = "ASKING",
         \A j \in Idx : Asks(m.table, j) =>
           m.table[j].name # e.name /\ m.table[j].txid # e.txid
  PROVE  MemoryOK(Begun(m, i, e), w)
<1> DEFINE u == [m.table EXCEPT ![i] = e]
           o == [m.pcbs EXCEPT ![e.port] = TRUE]
           z == (m.seqno + 1) % DnsSeqMod
           v == Begun(m, i, e)
<1>1. /\ IsMemory(m) /\ TableOK(m.table, m.pcbs) /\ RequestsOK(m.table, m.requests, m.told, w)
      /\ e.port \in Idx
  BY DEF MemoryOK, EntryOK
<1>2. TableOK(u, o) /\ RequestsOK(u, m.requests, m.told, w)
  BY <1>1, Begins
<1>3. z \in 0..(DnsSeqMod - 1)
  <2>1. m.seqno \in 0..(DnsSeqMod - 1)
    BY <1>1 DEF IsMemory
  <2>2. m.seqno + 1 \in Int
    BY <2>1, Sizes
  <2> QED  BY <2>2, Sizes, ModBound
<1>4. u \in [Idx -> EntryType] /\ o \in [Idx -> BOOLEAN]
  BY <1>2 DEF TableOK
<1>5. v = [m EXCEPT !.table = u, !.last = e.port, !.pcbs = o, !.seqno = z]
  BY DEF Begun
<1> HIDE DEF u, o, z, v
<1>6. /\ IsMemory(v) /\ v.table = u /\ v.requests = m.requests /\ v.pcbs = o
      /\ v.told = m.told
  BY <1>1, <1>3, <1>4, <1>5 DEF IsMemory
<1>7. MemoryOK(v, w)
  BY <1>2, <1>6 DEF MemoryOK
<1> QED  BY <1>7 DEF v

\* dns_enqueue: a question joins those who wait for the same name, is refused,
\* or has an entry, a port and a query of its own.
LEMMA EnqueueKept ==
  ASSUME NEW m, NEW w, MemoryOK(m, w), NEW n \in Names, dns_servers \in ServerTables,
         dns_servers[1] # NoServer, NEW k \in Enqueue(More(m), Len(w) + 1, n)
  PROVE  MemoryOK(k, Append(w, n))
<1> DEFINE l == More(m)
           q == Len(w) + 1
           same == {i \in Idx : l.table[i].state = "ASKING" /\ l.table[i].name = n}
           room == {r \in Idx : l.requests[r].arg = 0}
           i == EntryFor(l)
           p == AllocPcb(l)
           r == Least(room)
           new == [Unused EXCEPT !.state = "NEW", !.seqno = l.seqno, !.name = n, !.port = p]
<1>1. IsMemory(m)
  BY DEF MemoryOK
<1>2. /\ IsMemory(l) /\ l.table = m.table /\ l.requests = m.requests /\ l.pcbs = m.pcbs
      /\ l.last = m.last /\ l.seqno = m.seqno /\ l.asked = m.asked
  BY <1>1, MoreIs
<1>4. room # {} => r \in Idx /\ Free(m.requests, r)
  <2> SUFFICES ASSUME room # {} PROVE r \in Idx /\ Free(m.requests, r)
    OBVIOUS
  <2>1. r \in room
    <3>1. room \subseteq Nat
      BY Sizes
    <3> HIDE DEF room
    <3> QED  BY <3>1, LeastIn
  <2> QED  BY <1>2, <2>1 DEF Free
<1>5. same # {} => Least(same) \in same
  <2>1. same \subseteq Nat
    BY Sizes
  <2> HIDE DEF same
  <2> QED  BY <2>1, LeastIn
<1>6. i = DNS_TABLE_SIZE \/ (i \in Idx /\ ~Asks(m.table, i))
  BY <1>2, EntryForIdle
<1>7. p = NoPort \/ p \in Idx
  BY <1>2, AllocPcbIn
<1>8. CASE same # {} /\ room # {}
  <2>1. Least(same) \in Idx /\ Asks(m.table, Least(same)) /\ m.table[Least(same)].name = n
    BY <1>2, <1>5, <1>8 DEF Asks
  <2>2. k = [l EXCEPT !.requests[r] = [arg |-> q, idx |-> Least(same)]]
    BY <1>8 DEF Enqueue
  <2>3. k = Join(m, r, q, Least(same))
    BY <2>2 DEF Join
  <2> HIDE DEF r, same
  <2> QED  BY <1>4, <1>8, <2>1, <2>3, JoinKept
<1>9. CASE ~(same # {} /\ room # {}) /\ (room = {} \/ i = DNS_TABLE_SIZE)
  <2>1. k = [l EXCEPT !.told[q] = "none"]
    BY <1>9 DEF Enqueue
  <2>2. k = Answer(m, q, "none")
    BY <2>1 DEF Answer
  <2> QED  BY <2>2, AnswerKept
<1>10. CASE ~(same # {} /\ room # {}) /\ ~(room = {} \/ i = DNS_TABLE_SIZE) /\ p = NoPort
  <2>1. i \in Idx /\ ~Asks(m.table, i)
    BY <1>6, <1>10
  <2> DEFINE x == Put(m, i, Unused)
  <2>2. MemoryOK(x, w)
    BY <2>1, UnusedOK, PutKept
  <2>3. k = [[l EXCEPT !.table[i] = Unused] EXCEPT !.told[q] = "none"]
    BY <1>10 DEF Enqueue
  <2>4. k = Answer(x, q, "none")
    <3> HIDE DEF i, q
    <3>1. [l EXCEPT !.table[i] = Unused] = More(x)
      BY <1>1, <2>1 DEF Put, More, IsMemory
    <3> HIDE DEF x, l
    <3> QED  BY <2>3, <3>1 DEF Answer
  <2> HIDE DEF x
  <2> QED  BY <2>2, <2>4, AnswerKept
<1>11. CASE ~(same # {} /\ room # {}) /\ ~(room = {} \/ i = DNS_TABLE_SIZE) /\ p # NoPort
  <2>1. i \in Idx /\ ~Asks(m.table, i) /\ p \in Idx /\ r \in Idx /\ Free(m.requests, r)
    BY <1>4, <1>6, <1>7, <1>11
  <2> DEFINE held == [l EXCEPT !.requests[r] = [arg |-> q, idx |-> i]]
             got == [held EXCEPT !.table[i] = new, !.last = p, !.pcbs[p] = TRUE,
                                 !.seqno = (@ + 1) % DnsSeqMod]
  <2>2. PICK t \in FreshTxids(l) : k = CheckNew(got, i, t)
    BY <1>11 DEF Enqueue
  <2>3. t \in Txids /\ \A j \in Idx : Asks(m.table, j) => m.table[j].txid # t
    BY <1>2, <2>2 DEF FreshTxids, Asks
  <2> DEFINE e == [Unused EXCEPT !.state = "ASKING", !.seqno = m.seqno, !.name = n, !.port = p,
                                 !.txid = t, !.server = 1, !.tmr = 1, !.retries = 0]
             x == Begun(m, i, e)
             y == Join(x, r, q, i)
  <2>4. /\ e \in EntryType /\ e.state = "ASKING" /\ e.name = n /\ e.port = p /\ e.txid = t
        /\ e.server = 1 /\ e.tmr = 1 /\ e.retries = 0
    <3>1. m.seqno \in 0..(DnsSeqMod - 1) /\ p \in 0..DNS_TABLE_SIZE
      BY <1>1, <2>1, Sizes DEF IsMemory
    <3> HIDE DEF p
    <3> QED  BY <2>3, <3>1, UnusedOK DEF EntryType, Unused
  <2>5. EntryOK(e)
    <3> HIDE DEF e, p
    <3>1. Len(dns_servers) \in Nat \ {0} /\ DNS_MAX_RETRIES \in Nat \ {0}
      BY DnsAssumption
    <3>2. 1 \in 1..Len(dns_servers) /\ 1 \in 1..DNS_MAX_RETRIES /\ 0 \in 0..(DNS_MAX_RETRIES - 1)
      BY <3>1
    <3> QED  BY <2>1, <2>4, <3>2 DEF EntryOK
  <2>6. \A j \in Idx : Asks(m.table, j) => m.table[j].name # e.name /\ m.table[j].txid # e.txid
    <3>1. same = {}
      BY <1>11
    <3>2. \A j \in Idx : Asks(m.table, j) => m.table[j].name # n
      BY <1>2, <3>1 DEF Asks
    <3> HIDE DEF e
    <3> QED  BY <2>3, <2>4, <3>2
  <2>7. CheckNew(got, i, t) = Send(y, i)
    <3> DEFINE rq == [arg |-> q, idx |-> i]
               rs == [m.requests EXCEPT ![r] = rq]
               z == (m.seqno + 1) % DnsSeqMod
               o == [m.pcbs EXCEPT ![p] = TRUE]
    <3>1. [new EXCEPT !.state = "ASKING", !.txid = t, !.server = 1, !.tmr = 1, !.retries = 0] = e
      BY <1>2 DEF Unused
    <3> HIDE DEF new, z, rq, i, p, r
    <3>2. held = [table |-> m.table, requests |-> rs, pcbs |-> m.pcbs, last |-> m.last,
                  seqno |-> m.seqno, asked |-> m.asked, told |-> l.told]
      <4> HIDE DEF l
      <4> QED  BY <1>2 DEF IsMemory, rq
    <3> HIDE DEF held, rs
    <3>3. held.table = m.table /\ held.pcbs = m.pcbs /\ held.seqno = m.seqno
      BY <3>2
    <3> DEFINE tn == [m.table EXCEPT ![i] = new]
    <3>4. got = [held EXCEPT !.table = tn, !.last = p, !.pcbs = o, !.seqno = z]
      BY <3>3 DEF z
    <3>5. tn[i] = new
      BY <1>1, <2>1 DEF IsMemory
    <3> HIDE DEF o, got, tn
    <3>6. got = [table |-> tn, requests |-> rs, pcbs |-> o, last |-> p,
                 seqno |-> z, asked |-> m.asked, told |-> l.told]
      BY <3>2, <3>4
    <3>7. got.table[i] = new
      BY <3>6, <3>5
    <3>8. CheckNew(got, i, t) = Send([got EXCEPT !.table[i] = e], i)
      BY <3>1, <3>7 DEF CheckNew
    <3> HIDE DEF e
    <3> DEFINE te == [m.table EXCEPT ![i] = e]
    <3>9. [tn EXCEPT ![i] = e] = te
      BY <1>1, <2>1 DEF IsMemory, tn
    <3>10. x = [m EXCEPT !.table = te, !.last = p, !.pcbs = o, !.seqno = z]
      BY <2>4 DEF Begun, o, z
    <3> HIDE DEF te
    <3>11. [got EXCEPT !.table[i] = e]
            = [table |-> te, requests |-> rs, pcbs |-> o, last |-> p,
               seqno |-> z, asked |-> m.asked, told |-> l.told]
      BY <3>6, <3>9
    <3>12. x = [table |-> te, requests |-> m.requests, pcbs |-> o,
               last |-> p, seqno |-> z, asked |-> m.asked, told |-> m.told]
      BY <1>1, <3>10 DEF IsMemory
    <3>13. l.told = Append(m.told, "")
      BY <1>1 DEF More, IsMemory
    <3> HIDE DEF x, l
    <3>14. More(x) = [table |-> te, requests |-> m.requests, pcbs |-> o,
               last |-> p, seqno |-> z, asked |-> m.asked, told |-> l.told]
      <4>1. x.told = m.told
        BY <3>12
      <4>2. More(x) = [x EXCEPT !.told = l.told]
        BY <3>13, <4>1 DEF More
      <4> QED  BY <3>12, <4>2
    <3>15. y = [table |-> te, requests |-> rs, pcbs |-> o,
                last |-> p, seqno |-> z, asked |-> m.asked, told |-> l.told]
      BY <3>14 DEF Join, rs, rq
    <3> QED  BY <3>8, <3>11, <3>15
  <2> HIDE DEF e, i
  <2>8. MemoryOK(x, w)
    BY <2>1, <2>4, <2>5, <2>6, BegunKept
  <2>9. x.table = [m.table EXCEPT ![i] = e] /\ x.requests = m.requests
    BY <1>1 DEF Begun, IsMemory
  <2>10. x.table[i] = e
    BY <1>1, <2>1, <2>9 DEF IsMemory
  <2> HIDE DEF x, r
  <2>11. Asks(x.table, i) /\ x.table[i].name = n /\ Free(x.requests, r)
    BY <2>1, <2>4, <2>9, <2>10 DEF Asks
  <2>12. MemoryOK(y, Append(w, n))
    BY <2>1, <2>8, <2>11, JoinKept
  <2>13. y.table = x.table
    <3>1. IsMemory(x)
      BY <2>8 DEF MemoryOK
    <3>2. IsMemory(More(x)) /\ More(x).table = x.table
      BY <3>1, MoreIs
    <3> QED  BY <3>2 DEF Join, IsMemory
  <2> HIDE DEF y
  <2>14. MemoryOK(Send(y, i), Append(w, n))
    BY <2>1, <2>11, <2>12, <2>13, SendKept
  <2> QED  BY <2>2, <2>7, <2>14
<1> QED  BY <1>8, <1>9, <1>10, <1>11

-----------------------------------------------------------------------------
(* The steps *)

\* The variables are the memory that an operation leaves.
LEMMA InvStep ==
  ASSUME DnsInv, dns_servers' = dns_servers, NEW m, MemoryOK(m, want'), DnsBecomes(m)
  PROVE  DnsInv'
<1>1. IsMemory(m)
  BY DEF MemoryOK
<1>2. /\ dns_table' = m.table /\ dns_requests' = m.requests /\ dns_pcbs' = m.pcbs
      /\ dns_last_pcb_idx' = m.last /\ dns_seqno' = m.seqno /\ asked' = m.asked /\ told' = m.told
  BY DEF DnsBecomes
<1>3. Memory' = m
  BY <1>1, <1>2 DEF Memory, IsMemory
<1>4. IsMemory(Memory)'
  BY <1>1, <1>3 DEF IsMemory
<1>5. TableOK(Memory.table, Memory.pcbs)'
  <2>1. TableOK(m.table, m.pcbs)
    BY DEF MemoryOK
  <2> QED  BY <1>3, <2>1 DEF TableOK, EntryOK, Asks
<1>6. RequestsOK(Memory.table, Memory.requests, Memory.told, want)'
  <2>1. RequestsOK(m.table, m.requests, m.told, want')
    BY DEF MemoryOK
  <2> QED  BY <1>3, <2>1 DEF RequestsOK, Asks
<1> QED  BY <1>4, <1>5, <1>6 DEF DnsInv, MemoryOK

\* At the start nothing is asked and nobody waits.
LEMMA InvInit == DnsInit => DnsInv
<1> SUFFICES ASSUME DnsInit PROVE DnsInv
  OBVIOUS
<1>1. /\ Memory = [table |-> [i \in Idx |-> Unused], requests |-> [r \in Idx |-> NoRequest],
                   pcbs |-> [p \in Idx |-> FALSE], last |-> 0, seqno |-> 0, asked |-> {},
                   told |-> << >>]
      /\ want = << >> /\ dns_servers \in ServerTables
  BY DEF DnsInit, Memory
<1> DEFINE t == [i \in Idx |-> Unused]
           rs == [r \in Idx |-> NoRequest]
           o == [p \in Idx |-> FALSE]
<1>2. t \in [Idx -> EntryType] /\ \A i \in Idx : EntryOK(t[i]) /\ ~Asks(t, i)
  BY UnusedOK DEF Asks
<1>3. rs \in [Idx -> RequestType] /\ \A r \in Idx : rs[r].arg = 0
  BY Sizes DEF NoRequest, RequestType
<1>4. << >> \in Seq(Tell) /\ << >> \in Seq(Names) /\ Len(<< >>) = 0
  BY EmptySeq
<1>5. o \in [Idx -> BOOLEAN] /\ \A p \in Idx : ~o[p]
  OBVIOUS
<1> HIDE DEF t, rs, o
<1>6. TableOK(t, o)
  BY <1>2, <1>5 DEF TableOK
<1>7. RequestsOK(t, rs, << >>, << >>)
  <2>1. 1..Len(<< >>) = {}
    BY <1>4
  <2> QED  BY <1>3, <1>4, <2>1 DEF RequestsOK
<1>8. 0 \in Idx /\ 0 \in 0..(DnsSeqMod - 1)
  BY Sizes
<1>9. Memory = [table |-> t, requests |-> rs, pcbs |-> o, last |-> 0, seqno |-> 0, asked |-> {},
                told |-> << >>]
  BY <1>1 DEF t, rs, o
<1>10. IsMemory(Memory)
  BY <1>2, <1>3, <1>4, <1>5, <1>8, <1>9 DEF IsMemory
<1>11. Memory.table = t /\ Memory.pcbs = o /\ Memory.requests = rs /\ Memory.told = << >>
  BY <1>9
<1>12. want = << >> /\ dns_servers \in ServerTables
  BY <1>1
<1>13. TableOK(Memory.table, Memory.pcbs)
  BY <1>6, <1>11
<1>14. RequestsOK(Memory.table, Memory.requests, Memory.told, want)
  BY <1>7, <1>11, <1>12
<1> QED  BY <1>10, <1>12, <1>13, <1>14 DEF DnsInv, MemoryOK

\* dns_gethostbyname.
LEMMA GetHostByNameStep == DnsInv /\ GetHostByName => DnsInv'
<1> SUFFICES ASSUME DnsInv, GetHostByName PROVE DnsInv'
  OBVIOUS
<1> DEFINE q == Len(want) + 1
           l == [Memory EXCEPT !.told = Append(told, "")]
<1>1. PICK n \in Names :
        LET cached == {i \in Idx : dns_table[i].state = "DONE" /\ dns_table[i].name = n}
        IN /\ want' = Append(want, n)
           /\ dns_servers' = dns_servers
           /\ CASE cached # {} ->
                     DnsBecomes([l EXCEPT !.told[q] = dns_table[Least(cached)].ipaddr])
                [] cached = {} /\ dns_servers[1] = NoServer ->
                     DnsBecomes([l EXCEPT !.told[q] = "none"])
                [] OTHER -> \E k \in Enqueue(l, q, n) : DnsBecomes(k)
  BY DEF GetHostByName
<1> DEFINE cached == {i \in Idx : dns_table[i].state = "DONE" /\ dns_table[i].name = n}
<1>2. MemoryOK(Memory, want) /\ dns_servers \in ServerTables
  BY DEF DnsInv
<1>3. Memory.table = dns_table /\ Memory.told = told
  BY DEF Memory
<1>4. l = More(Memory)
  BY <1>3 DEF More
<1> HIDE DEF l
<1>5. CASE cached # {}
  <2>1. Least(cached) \in cached
    <3>1. cached \subseteq Nat
      BY Sizes
    <3> HIDE DEF cached
    <3> QED  BY <1>5, <3>1, LeastIn
  <2> DEFINE a == dns_table[Least(cached)].ipaddr
  <2>2. a = n
    <3>1. \A i \in Idx : EntryOK(dns_table[i])
      BY <1>2, <1>3 DEF MemoryOK, TableOK
    <3> QED  BY <2>1, <3>1 DEF EntryOK
  <2>3. DnsBecomes([l EXCEPT !.told[q] = a])
    BY <1>1, <1>5
  <2> HIDE DEF a
  <2>4. DnsBecomes(Answer(Memory, q, a))
    BY <1>4, <2>3 DEF Answer
  <2>5. MemoryOK(Answer(Memory, q, a), Append(want, n))
    BY <1>2, <2>2, AnswerKept
  <2> QED  BY <1>1, <2>4, <2>5, InvStep
<1>6. CASE cached = {} /\ dns_servers[1] = NoServer
  <2>1. DnsBecomes([l EXCEPT !.told[q] = "none"])
    BY <1>1, <1>6
  <2>2. DnsBecomes(Answer(Memory, q, "none"))
    BY <1>4, <2>1 DEF Answer
  <2>3. MemoryOK(Answer(Memory, q, "none"), Append(want, n))
    BY <1>2, AnswerKept
  <2> QED  BY <1>1, <2>2, <2>3, InvStep
<1>7. CASE cached = {} /\ dns_servers[1] # NoServer
  <2>1. PICK k \in Enqueue(l, q, n) : DnsBecomes(k)
    BY <1>1, <1>7
  <2>2. k \in Enqueue(More(Memory), Len(want) + 1, n)
    BY <1>4, <2>1
  <2>3. MemoryOK(k, Append(want, n))
    BY <1>2, <1>7, <2>2, EnqueueKept
  <2> QED  BY <1>1, <2>1, <2>3, InvStep
<1> QED  BY <1>5, <1>6, <1>7

\* dns_tmr.
LEMMA DnsTmrStep == DnsInv /\ DnsTmr => DnsInv'
BY CheckedKept, InvStep DEF DnsInv, DnsTmr

\* An answer is for an entry that asks.
LEMMA AnswersAsked ==
  ASSUME DnsInv, NEW a, NEW i \in Idx, Answers(a, i)
  PROVE  /\ MemoryOK(Memory, want) /\ IsMemory(Memory) /\ Memory.table = dns_table
         /\ Asks(Memory.table, i) /\ EntryOK(dns_table[i]) /\ dns_table[i] \in EntryType
         /\ dns_table[i].state = "ASKING" /\ dns_table[i].name = a.name /\ a.name \in Names
         /\ Put(Memory, i, dns_table[i]) = Memory
<1>1. MemoryOK(Memory, want) /\ IsMemory(Memory) /\ Memory.table = dns_table
  BY DEF DnsInv, MemoryOK, Memory
<1>2. dns_table[i].state = "ASKING" /\ dns_table[i].name = a.name
  BY DEF Answers
<1>3. EntryOK(dns_table[i])
  BY <1>1 DEF MemoryOK, TableOK
<1>4. dns_table[i] \in EntryType /\ a.name \in Names
  BY <1>2, <1>3 DEF EntryOK
<1>5. Put(Memory, i, dns_table[i]) = Memory
  BY <1>1, <1>4, PutPut
<1> QED  BY <1>1, <1>2, <1>3, <1>4, <1>5 DEF Asks

\* Giving up an entry that asks.
LEMMA FailKept ==
  ASSUME DnsInv, NEW a, NEW i \in Idx, Answers(a, i)
  PROVE  MemoryOK(Fail(Memory, i), want)
<1>1. /\ MemoryOK(Memory, want) /\ Memory.table = dns_table /\ Asks(Memory.table, i)
      /\ dns_table[i] \in EntryType /\ Put(Memory, i, dns_table[i]) = Memory
  BY AnswersAsked
<1>2. MemoryOK(Settled(Put(Memory, i, dns_table[i]), i, "none", Unused), want)
  BY <1>1, UnusedOK, SettledKept
<1> QED  BY <1>1, <1>2 DEF Fail, Settled

\* dns_recv, an answer without an address.
LEMMA NothingArrivesStep == DnsInv /\ NothingArrives => DnsInv'
BY FailKept, InvStep DEF NothingArrives

\* dns_recv, an error.
LEMMA ErrorArrivesStep == DnsInv /\ ErrorArrives => DnsInv'
<1> SUFFICES ASSUME DnsInv, NEW a \in asked, NEW i \in Idx, Answers(a, i),
                    DnsBecomes(IF BackupAvailable(dns_table[i])
                               THEN CheckEntry([Memory EXCEPT
                                                  !.table[i].retries = DNS_MAX_RETRIES - 1,
                                                  !.table[i].tmr = 1], i)
                               ELSE Fail(Memory, i)),
                    dns_servers' = dns_servers, want' = want
             PROVE  DnsInv'
  BY DEF ErrorArrives
<1>1. CASE ~BackupAvailable(dns_table[i])
  BY <1>1, FailKept, InvStep
<1>2. CASE BackupAvailable(dns_table[i])
  <2> DEFINE e == dns_table[i]
             n == DNS_MAX_RETRIES - 1
             x == [e EXCEPT !.retries = n, !.tmr = 1]
             k == [Memory EXCEPT !.table[i].retries = n, !.table[i].tmr = 1]
  <2>1. /\ MemoryOK(Memory, want) /\ IsMemory(Memory) /\ Memory.table = dns_table
        /\ Asks(Memory.table, i) /\ e \in EntryType /\ e.state = "ASKING"
    BY AnswersAsked
  <2>2. n \in Nat /\ n \in 0..(DNS_MAX_RETRIES - 1)
    BY Sizes
  <2>3. DnsBecomes(CheckEntry(k, i))
    BY <1>2
  <2> HIDE DEF n
  <2>4. k = Put(Memory, i, x)
    BY <2>1 DEF Put, IsMemory
  <2>5. /\ x \in EntryType /\ x.state = "ASKING" /\ x.name = e.name /\ x.port = e.port
        /\ x.txid = e.txid /\ x.server = e.server /\ x.retries = n /\ x.tmr = 1
    BY <2>1, <2>2 DEF EntryType
  <2> HIDE DEF x, k
  <2>6. MemoryOK(CheckEntry(Put(Memory, i, x), i), want)
    <3>1. dns_servers \in ServerTables
      BY DEF DnsInv
    <3> QED  BY <2>1, <2>2, <2>5, <3>1, TimeUp
  <2> QED  BY <2>3, <2>4, <2>6, InvStep
<1> QED  BY <1>1, <1>2

\* dns_recv, an address: it is the one of the name that the entry asked for.
LEMMA AddressArrivesStep == DnsInv /\ AddressArrives => DnsInv'
<1> SUFFICES ASSUME DnsInv, NEW a \in asked, NEW ttl \in Ttls, NEW i \in Idx, Answers(a, i),
                    DnsBecomes(CorrectResponse(Memory, i, a.name, ttl)),
                    dns_servers' = dns_servers, want' = want
             PROVE  DnsInv'
  BY DEF AddressArrives
<1> DEFINE e == dns_table[i]
           x == [e EXCEPT !.state = "DONE"]
           done == [Unused EXCEPT !.state = "DONE", !.name = e.name, !.seqno = e.seqno,
                                  !.ipaddr = a.name, !.ttl = ttl]
           d == IF ttl = 0 THEN Unused ELSE done
<1>1. /\ MemoryOK(Memory, want) /\ IsMemory(Memory) /\ Memory.table = dns_table
      /\ Asks(Memory.table, i) /\ e \in EntryType /\ e.name = a.name /\ a.name \in Names
  BY AnswersAsked
<1>2. x \in EntryType /\ x.port = e.port
  BY <1>1 DEF EntryType
<1>3. EntryOK(d) /\ d.state # "ASKING"
  <2>1. CASE ttl = 0
    BY <2>1, UnusedOK
  <2>2. CASE ttl # 0
    <3>1. ttl \in Nat /\ ttl > 0
      <4>1. Ttls \subseteq Nat
        BY DnsAssumption
      <4>2. ttl \in Nat
        BY <4>1
      <4> QED  BY <2>2, <4>2
    <3>2. done \in EntryType
      <4>1. e.seqno \in 0..(DnsSeqMod - 1)
        BY <1>1 DEF EntryType
      <4>2. a.name \in Tell /\ e.name \in Names \cup {""}
        BY <1>1 DEF Tell
      <4>3. Unused \in EntryType
        BY UnusedOK
      <4> HIDE DEF e
      <4> QED  BY <3>1, <4>1, <4>2, <4>3 DEF EntryType
    <3>3. done.state = "DONE" /\ done.name = a.name /\ done.ipaddr = a.name /\ done.ttl = ttl
      BY <1>1 DEF Unused
    <3>4. d = done
      BY <2>2
    <3> HIDE DEF done, d
    <3> QED  BY <1>1, <3>1, <3>2, <3>3, <3>4 DEF EntryOK
  <2> QED  BY <2>1, <2>2
<1>4. [Memory EXCEPT !.table[i].state = "DONE"] = Put(Memory, i, x)
  BY <1>1 DEF Put, IsMemory
<1>5. CorrectResponse(Memory, i, a.name, ttl) = Settled(Put(Memory, i, x), i, a.name, d)
  <2> HIDE DEF x
  <2> QED  BY <1>1, <1>4 DEF CorrectResponse, Settled
<1> HIDE DEF x, d
<1>6. MemoryOK(Settled(Put(Memory, i, x), i, a.name, d), want)
  BY <1>1, <1>2, <1>3, SettledKept
<1> QED  BY <1>5, <1>6, InvStep

\* Nothing changes.
LEMMA DnsStutter == DnsInv /\ UNCHANGED dnsVars => DnsInv'
<1> SUFFICES ASSUME DnsInv, UNCHANGED dnsVars PROVE DnsInv'
  OBVIOUS
<1>1. DnsBecomes(Memory) /\ dns_servers' = dns_servers /\ want' = want
  BY DEF dnsVars, DnsBecomes, Memory
<1>2. MemoryOK(Memory, want')
  BY <1>1 DEF DnsInv
<1> QED  BY <1>1, <1>2, InvStep

-----------------------------------------------------------------------------
(* The theorems *)

\* The inductive invariant: whatever is asked, joined, answered, lost and given
\* up, the memory of the resolver is good (dns_enqueue, dns_check_entry,
\* dns_call_found, dns_recv).
THEOREM DnsInvariant == DnsSpec => []DnsInv
<1>1. DnsInit => DnsInv
  BY InvInit
<1>2. DnsInv /\ [DnsNext]_dnsVars => DnsInv'
  BY GetHostByNameStep, DnsTmrStep, AddressArrivesStep, ErrorArrivesStep, NothingArrivesStep,
     DnsStutter DEF DnsNext
<1> QED  BY <1>1, <1>2, PTL DEF DnsSpec

\* Table, requests and ports always agree: every question that has no answer
\* waits in exactly one request at an entry that asks for its name, no request
\* waits for a question that was answered, a source port is open exactly as long
\* as a query uses it, and two outstanding queries differ in id and name.
THEOREM AlwaysConsistent == DnsSpec => []DnsConsistent
<1>1. DnsInv => DnsConsistent
  <2> SUFFICES ASSUME DnsInv PROVE DnsConsistent
    OBVIOUS
  <2>1. /\ IsMemory(Memory) /\ TableOK(dns_table, dns_pcbs)
        /\ RequestsOK(dns_table, dns_requests, told, want) /\ dns_servers \in ServerTables
    BY DEF DnsInv, MemoryOK, Memory
  <2>2. DnsTypeOK
    <3>1. /\ dns_last_pcb_idx \in Idx /\ dns_seqno \in 0..(DnsSeqMod - 1)
      BY <2>1 DEF IsMemory, Memory
    <3> QED  BY <2>1, <3>1 DEF DnsTypeOK, TableOK, RequestsOK, EntryOK
  <2>3. WaitsOnce
    <3>1. \A r \in Idx : dns_requests[r].arg # 0 => told[dns_requests[r].arg] = ""
      BY <2>1 DEF RequestsOK
    <3>2. ASSUME NEW q \in Questions, told[q] = ""
          PROVE  \E r \in Idx : /\ dns_requests[r].arg = q
                                /\ dns_requests[r].idx \in Asking
                                /\ dns_table[dns_requests[r].idx].name = want[q]
                                /\ \A s \in Idx \ {r} : dns_requests[s].arg # q
      <4>1. PICK r \in Idx : dns_requests[r].arg = q
        BY <2>1, <3>2 DEF RequestsOK, Questions
      <4>2. q # 0
        <5>1. Len(want) \in Nat
          BY <2>1, LenProperties DEF RequestsOK
        <5>2. 0 \notin 1..Len(want)
          BY <5>1
        <5> QED  BY <5>2 DEF Questions
      <4>3. Asks(dns_table, dns_requests[r].idx) /\ dns_table[dns_requests[r].idx].name = want[q]
        BY <2>1, <4>1, <4>2 DEF RequestsOK
      <4>4. dns_requests[r].idx \in Idx
        BY <2>1 DEF RequestsOK, RequestType
      <4>5. \A s \in Idx \ {r} : dns_requests[s].arg # q
        BY <2>1, <4>1, <4>2 DEF RequestsOK
      <4> QED  BY <4>1, <4>3, <4>4, <4>5 DEF Asks, Asking
    <3> QED  BY <3>1, <3>2 DEF WaitsOnce
  <2>4. PortsInUse
    <3>1. \A p \in Idx : dns_pcbs[p] <=> \E i \in Idx : Asks(dns_table, i) /\ dns_table[i].port = p
      BY <2>1 DEF TableOK
    <3> QED  BY <3>1 DEF PortsInUse, Asking, Asks
  <2>5. QueriesDiffer
    BY <2>1 DEF TableOK, QueriesDiffer, Asking, Asks
  <2> QED  BY <2>2, <2>3, <2>4, <2>5 DEF DnsConsistent
<1> QED  BY <1>1, DnsInvariant, PTL

\* Nobody is ever given the address of another name, however late, often or from
\* whatever server the answers arrive (the checks of dns_recv).
THEOREM AlwaysRightAddress == DnsSpec => []RightAddress
<1>1. DnsInv => RightAddress
  <2> SUFFICES ASSUME DnsInv PROVE RightAddress
    OBVIOUS
  <2>1. RequestsOK(dns_table, dns_requests, told, want)
    BY DEF DnsInv, MemoryOK, Memory
  <2> QED  BY <2>1 DEF RequestsOK, RightAddress, Questions
<1> QED  BY <1>1, DnsInvariant, PTL

=============================================================================
