------------------------------ MODULE AwgHello ------------------------------
(***************************************************************************)
(* How the proxy finds the name in what has arrived of a ClientHello, and  *)
(* which names it visits (awg_proxy.c).  sniffed is one hello or one name; *)
(* nothing changes it.                                                     *)
(*                                                                         *)
(* Bytes are numbers, an offset counts from 0, and a name is the sequence  *)
(* of its characters.  A hello may hold any of them; from a NUL on, C sees *)
(* no more of a string.                                                    *)
(***************************************************************************)
EXTENDS Integers, Sequences, FiniteSets

LOCAL INSTANCE SequencesExt

CONSTANTS
  HOST_CAP,            \* sizeof(c->host)
  MAX_NAME,            \* the longest name that is visited
  g_deny_suffix,       \* a set of names
  Hellos,              \* [session, ciphers, compression: bytes, exts: [type, data] in order]
  Hosts                \* names as they are sent

VARIABLE sniffed

NoName == <<>>

U16(b, p) == b[p + 1] * 256 + b[p + 2]

-----------------------------------------------------------------------------
(* find_sni *)

\* Where a vector ends whose length is the byte at p, or the two bytes; -1 beyond b.
Past1(b, p) == IF p < 0 \/ p + 1 > Len(b) THEN -1 ELSE p + 1 + b[p + 1]
Past2(b, p) == IF p < 0 \/ p + 2 > Len(b) THEN -1 ELSE p + 2 + U16(b, p)

\* The first name of the list in a server_name extension.
ServerName(b, q, end) ==
  IF q + 5 > end \/ b[q + 3] # 0 THEN NoName
  ELSE LET nlen == U16(b, q + 3)
       IN IF q + 5 + nlen > end THEN NoName ELSE SubSeq(b, q + 6, q + 5 + nlen)

\* The extensions between p and end, up to the first server_name.
Extensions(b, p, end) ==
  LET walk[at \in 0..end] ==
        IF at + 4 > end THEN NoName
        ELSE LET next == at + 4 + U16(b, at + 2)
             IN IF next > end THEN NoName
                ELSE IF U16(b, at) = 0 THEN ServerName(b, at + 4, end) ELSE walk[next]
  IN IF p > end THEN NoName ELSE walk[p]

FindSni(b) ==
  IF Len(b) < 45 \/ b[1] # 22 \/ b[6] # 1 THEN NoName
  ELSE LET p   == Past1(b, Past2(b, Past1(b, 43)))
           end == Past2(b, p)
       IN IF end < 0 THEN NoName ELSE Extensions(b, p + 2, IF end > Len(b) THEN Len(b) ELSE end)

\* sni_hostname: a name that does not fit is none.
SniHostname(b) == LET name == FindSni(b) IN IF Len(name) >= HOST_CAP THEN NoName ELSE name

-----------------------------------------------------------------------------
(* host_normalise and host_denied *)

FullStop == 46
NUL == 0

\* What strlen sees of a name.
CString(h) ==
  LET nuls == {i \in DOMAIN h : h[i] = NUL}
  IN IF nuls = {} THEN h ELSE SubSeq(h, 1, (CHOOSE i \in nuls : \A k \in nuls : i <= k) - 1)

HostChar(c) == c \in 97..122 \/ c \in 65..90 \/ c \in 48..57 \/ c \in {45, 95}

\* Without the dots it ends with.
Stripped(h) ==
  LET kept == {i \in DOMAIN h : h[i] # FullStop}
  IN SubSeq(h, 1, IF kept = {} THEN 0 ELSE CHOOSE i \in kept : \A k \in kept : k <= i)

\* NoName if it is refused; a label is not empty.
Normalised(name) ==
  LET h  == Stripped(CString(name))
      ok == /\ Len(h) \in 1..MAX_NAME
            /\ \A i \in DOMAIN h :
                 IF h[i] = FullStop THEN i > 1 /\ h[i - 1] # FullStop ELSE HostChar(h[i])
  IN IF ok THEN h ELSE NoName

Lower(c) == IF c \in 65..90 THEN c + 32 ELSE c

SameName(a, b) ==
  Len(a) = Len(b) /\ \A i \in DOMAIN a : Lower(a[i]) = Lower(b[i])

DeniedName(h) ==
  \E s \in g_deny_suffix :
    LET from == Len(h) - Len(s)
    IN /\ from >= 0 /\ SameName(SubSeq(h, from + 1, Len(h)), s)
       /\ from = 0 \/ h[from] = FullStop

-----------------------------------------------------------------------------
HelloInit ==
  \/ \E h \in Hellos : sniffed = [what |-> "hello", hello |-> h]
  \/ \E h \in Hosts  : sniffed = [what |-> "host", host |-> h]

Vec1(data) == <<Len(data)>> \o data
Vec2(data) == <<Len(data) \div 256, Len(data) % 256>> \o data

Upto(exts, n) ==
  FoldLeft(LAMBDA b, e : b \o <<0, e.type>> \o Vec2(e.data), <<>>, SubSeq(exts, 1, n))

\* What comes before the extensions: the record, the handshake, version and random bytes.
Preamble(h) ==
  <<22, 3, 1, 0, 0, 1, 0, 0, 0, 3, 3>> \o [k \in 1..32 |-> 0]
    \o Vec1(h.session) \o Vec2(h.ciphers) \o Vec1(h.compression)

\* However a hello is cut into segments, its name is found as soon as the extension that
\* holds it is there, and never before: no part of a name is taken for it, and no other
\* bytes (find_sni reads a buffer that is still filling).
NameIsWhole ==
  sniffed.what = "hello" =>
    LET h      == sniffed.hello
        n      == Len(h.exts)
        bytes  == Preamble(h) \o Vec2(Upto(h.exts, n))
        named  == {i \in 1..n : h.exts[i].type = 0}
        first  == CHOOSE i \in named : \A k \in named : i <= k
        name   == SubSeq(h.exts[first].data, 6, Len(h.exts[first].data))
        there  == Len(Preamble(h)) + 2 + Len(Upto(h.exts, first))
    IN \A cut \in 0..Len(bytes) :
         SniHostname(SubSeq(bytes, 1, cut)) =
           IF named # {} /\ cut >= there /\ Len(name) < HOST_CAP THEN name ELSE NoName

\* The labels of a name.
Labels(h) ==
  LET dots == SetToSortSeq({0, Len(h) + 1} \cup {k \in DOMAIN h : h[k] = FullStop}, <)
  IN [k \in 1..Len(dots) - 1 |-> [i \in 1..dots[k + 1] - dots[k] - 1 |-> Lower(h[dots[k] + i])]]

\* What comes of a name, up to its first NUL: it is visited if it is made of labels that are
\* not empty, but not if its last labels are those of a name that is denied, in whatever
\* case it is written and with however many dots at its end (host_denied compares
\* characters).  What follows a NUL is neither looked at nor a reason to refuse the name.
HostsAgree ==
  sniffed.what = "host" =>
    LET name   == CString(sniffed.host)
        sent   == Labels(name)
        full   == {k \in DOMAIN sent : sent[k] # <<>>}
        labels == SubSeq(sent, 1, Cardinality(full))
        h      == Normalised(sniffed.host)
    IN /\ h # NoName <=>
            /\ full # {} /\ full = DOMAIN labels
            /\ \A k \in full : \A i \in DOMAIN sent[k] : HostChar(sent[k][i])
            /\ FoldLeft(LAMBDA len, l : len + 1 + Len(l), -1, labels) <= MAX_NAME
       /\ h # NoName =>
            /\ Labels(h) = labels /\ IsPrefix(h, name)
            /\ DeniedName(h) <=> \E s \in g_deny_suffix : IsSuffix(Labels(s), labels)

\* Names are found whole and refused by their labels.
HelloIsRead == NameIsWhole /\ HostsAgree
=============================================================================
