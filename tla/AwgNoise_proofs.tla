-------------------------- MODULE AwgNoise_proofs ---------------------------
(***************************************************************************)
(* Both ends of the handshake agree, for any number of attempts, answers   *)
(* and indices: proofs about AwgNoise.                                     *)
(*                                                                         *)
(* The handshakes and the messages that occur are given in closed form     *)
(* first; what mixing keeps apart, a chain keeps apart: it can be taken    *)
(* off again from the end.                                                 *)
(***************************************************************************)
EXTENDS AwgNoise, SequenceTheorems, TLAPS

-----------------------------------------------------------------------------
(* Chains *)

Chain(s) == \E S : s \in Seq(S)

\* What is mixed into a chain makes a longer one.
LEMMA Mixed ==
  ASSUME NEW s, Chain(s), NEW x
  PROVE  Chain(Append(s, x)) /\ Len(Append(s, x)) = Len(s) + 1 /\ Len(s) \in Nat
<1>1. PICK S : s \in Seq(S)
  BY DEF Chain
<1>2. s \in Seq(S \cup {x})
  BY <1>1, SeqMonotonic
<1>3. Append(s, x) \in Seq(S \cup {x}) /\ Len(Append(s, x)) = Len(s) + 1
  BY <1>2, AppendProperties
<1>4. Len(s) \in Nat
  BY <1>1, LenProperties
<1> QED  BY <1>3, <1>4 DEF Chain

\* Chains are equal only if the same was mixed into the same.
LEMMA Unmixed ==
  ASSUME NEW s, NEW t, Chain(s), Chain(t), NEW x, NEW y, Append(s, x) = Append(t, y)
  PROVE  s = t /\ x = y
<1>1. PICK S : s \in Seq(S)
  BY DEF Chain
<1>2. PICK T : t \in Seq(T)
  BY DEF Chain
<1> DEFINE U == S \cup T \cup {x, y}
<1>3. s \in Seq(U) /\ t \in Seq(U)
  BY <1>1, <1>2, SeqMonotonic
<1>4. x \in U /\ y \in U
  OBVIOUS
<1> HIDE DEF U
<1> QED  BY <1>3, <1>4, AppendInjective

\* The chain with which every handshake starts.
LEMMA FirstIsChain ==
  ASSUME NEW x
  PROVE  Chain(<<x>>) /\ Len(<<x>>) = 1
<1>1. <<x>> \in Seq({x})
  OBVIOUS
<1> QED  BY <1>1 DEF Chain

\* The same for the hash.
LEMMA FirstHashIsChain ==
  ASSUME NEW x, NEW y, NEW z
  PROVE  Chain(<<x, y, z>>) /\ Len(<<x, y, z>>) = 3
<1>1. <<x, y, z>> \in Seq({x, y, z})
  OBVIOUS
<1> QED  BY <1>1 DEF Chain

\* A secret is the same for both ends.
LEMMA DhAgrees == \A a, b : Dh(a, b) = Dh(b, a)
BY DEF Dh

\* A set of one shows what it holds.
LEMMA SingleIs ==
  ASSUME NEW a, NEW b, {a} = {b}
  PROVE  a = b
OBVIOUS

-----------------------------------------------------------------------------
(* Handshakes *)

Hs(s, peer, psk, local, e, peer_eph, remote, ck, h, send, recv) ==
  [s |-> s, peer |-> peer, psk |-> psk, local |-> local, e |-> e, peer_eph |-> peer_eph,
   remote |-> remote, ck |-> ck, h |-> h, send |-> send, recv |-> recv]

CkEph(e)    == Append(<<{"construction"}>>, {e})
CkStatic(e) == Append(CkEph(e), Dh(e, "R"))
CkInit(e)   == Append(CkStatic(e), Dh("I", "R"))

HashEph(e)  == Append(<<"construction", "identifier", "R">>, e)
StaticBox(e) == Box(<<2, CkStatic(e)>>, 0, HashEph(e), "I")
HashStatic(e) == Append(HashEph(e), StaticBox(e))
StampBox(e) == Box(<<2, CkInit(e)>>, 0, HashStatic(e), "stamp")
HashInit(e) == Append(HashStatic(e), StampBox(e))

\* The initiator's handshake when it has sent its initiation, and that.
InitHs(i, e) == Hs("I", "R", "psk", i, e, "none", 0, CkInit(e), HashInit(e), Zero, Zero)

InitMsg(i, e) ==
  [type |-> 1, index |-> i, eph |-> e, static |-> StaticBox(e), stamp |-> StampBox(e),
   mac |-> Mac1("R", <<1, i, e, StaticBox(e), StampBox(e)>>)]

\* The responder's, when it has accepted it.
AcceptedHs(i, e, q, j) ==
  Hs("R", "I", q, j, "none", e, i, CkInit(e), HashInit(e), Zero, Zero)

\* A chain, and a hash, into which an answer is mixed.
CkAnswer(ck, r, ee, se, q) == Append(Append(Append(Append(ck, {r}), ee), se), {q})
HashAnswer(h, r, ck) == Append(Append(h, r), <<2, ck>>)

\* What the responder with the key r answers, and its handshake after that.
CkResp(e, r, q) == CkAnswer(CkInit(e), r, Dh(r, e), Dh(r, "I"), q)
HashResp(e, r, q) == HashAnswer(HashInit(e), r, CkResp(e, r, q))
EmptyBox(e, r, q) == Box(<<3, CkResp(e, r, q)>>, 0, HashResp(e, r, q), "empty")
RespKey(e, r, q, n) == <<n, Append(CkResp(e, r, q), {})>>

RespHs(i, e, q, j, r) ==
  Hs("R", "I", q, j, r, e, i, CkResp(e, r, q), Append(HashResp(e, r, q), EmptyBox(e, r, q)),
     RespKey(e, r, q, 2), RespKey(e, r, q, 1))

RespMsg(i, e, q, j, r) ==
  [type |-> 2, index |-> j, receiver |-> i, eph |-> r, empty |-> EmptyBox(e, r, q),
   mac |-> Mac1("I", <<2, j, i, r, EmptyBox(e, r, q)>>)]

\* Mixing, in these terms.
LEMMA MixHashIs ==
  ASSUME NEW s, NEW peer, NEW psk, NEW local, NEW e, NEW pe, NEW rem, NEW ck, NEW h, NEW sn,
         NEW rc, NEW x
  PROVE  /\ MixHash(Hs(s, peer, psk, local, e, pe, rem, ck, h, sn, rc), x)
              = Hs(s, peer, psk, local, e, pe, rem, ck, Append(h, x), sn, rc)
         /\ MixKey(Hs(s, peer, psk, local, e, pe, rem, ck, h, sn, rc), x)
              = Hs(s, peer, psk, local, e, pe, rem, Append(ck, x), h, sn, rc)
<1> DEFINE hs == Hs(s, peer, psk, local, e, pe, rem, ck, h, sn, rc)
<1>1. MixHash(hs, x) = Hs(s, peer, psk, local, e, pe, rem, ck, Append(h, x), sn, rc)
  BY DEF MixHash, Hs
<1>2. MixKey(hs, x) = Hs(s, peer, psk, local, e, pe, rem, Append(ck, x), h, sn, rc)
  BY DEF MixKey, Hs
<1> QED  BY <1>1, <1>2

\* A handshake that is begun, and its chain.
LEMMA BeginIs ==
  ASSUME NEW s, NEW peer, NEW psk, NEW local, NEW x
  PROVE  ChainStart(Begin(s, peer, psk, local), x)
           = Hs(s, peer, psk, local, "none", "none", 0, <<{"construction"}>>,
                <<"construction", "identifier", x>>, Zero, Zero)
<1> DEFINE c == <<{"construction"}>>
           h == <<"construction", "identifier", x>>
           b == Hs(s, peer, psk, local, "none", "none", 0, Zero, Zero, Zero, Zero)
<1>1. Begin(s, peer, psk, local) = b
  BY DEF Begin, Hs
<1> HIDE DEF c, h
<1>2. [b EXCEPT !.ck = c, !.h = h] = Hs(s, peer, psk, local, "none", "none", 0, c, h, Zero, Zero)
  <2> DEFINE d == [b EXCEPT !.ck = c]
  <2>1. d = Hs(s, peer, psk, local, "none", "none", 0, c, Zero, Zero, Zero)
    BY DEF Hs
  <2>2. [d EXCEPT !.h = h] = Hs(s, peer, psk, local, "none", "none", 0, c, h, Zero, Zero)
    <3> HIDE DEF d
    <3> QED  BY <2>1 DEF Hs
  <2> HIDE DEF b
  <2>3. [d EXCEPT !.h = h] = [b EXCEPT !.ck = c, !.h = h]
    OBVIOUS
  <2> QED  BY <2>2, <2>3
<1> HIDE DEF b
<1>3. ChainStart(b, x) = [b EXCEPT !.ck = c, !.h = h]
  BY DEF ChainStart, c, h
<1> QED  BY <1>1, <1>2, <1>3 DEF c, h

\* An ephemeral key is mixed into both.
LEMMA AfterEphIs ==
  ASSUME NEW s, NEW peer, NEW psk, NEW local, NEW e, NEW pe, NEW rem, NEW ck, NEW h, NEW sn,
         NEW rc, NEW x
  PROVE  AfterEph(Hs(s, peer, psk, local, e, pe, rem, ck, h, sn, rc), x)
           = Hs(s, peer, psk, local, e, pe, rem, Append(ck, {x}), Append(h, x), sn, rc)
BY MixHashIs DEF AfterEph

\* A secret is mixed into the chain and a box into the hash.
LEMMA AfterBoxIs ==
  ASSUME NEW s, NEW peer, NEW psk, NEW local, NEW e, NEW pe, NEW rem, NEW ck, NEW h, NEW sn,
         NEW rc, NEW d, NEW x
  PROVE  AfterBox(Hs(s, peer, psk, local, e, pe, rem, ck, h, sn, rc), d, x)
           = Hs(s, peer, psk, local, e, pe, rem, Append(ck, d), Append(h, x), sn, rc)
BY MixHashIs DEF AfterBox

\* What is sealed next.
LEMMA SealNextIs ==
  ASSUME NEW s, NEW peer, NEW psk, NEW local, NEW e, NEW pe, NEW rem, NEW ck, NEW h, NEW sn,
         NEW rc, NEW d, NEW x
  PROVE  SealNext(Hs(s, peer, psk, local, e, pe, rem, ck, h, sn, rc), d, x)
           = Box(<<2, Append(ck, d)>>, 0, h, x)
<1> DEFINE hs == Hs(s, peer, psk, local, e, pe, rem, ck, h, sn, rc)
           m  == Hs(s, peer, psk, local, e, pe, rem, Append(ck, d), h, sn, rc)
<1>1. MixKey(hs, d) = m
  BY MixHashIs
<1>2. hs.h = h /\ m.ck = Append(ck, d)
  BY DEF Hs
<1> HIDE DEF hs, m
<1>3. SealNext(hs, d, x) = Box(<<2, Append(ck, d)>>, 0, h, x)
  BY <1>1, <1>2 DEF SealNext, Kdf
<1> QED  BY <1>3 DEF hs

\* The initiation that is created.
LEMMA InitiationIs ==
  ASSUME NEW i, NEW e
  PROVE  CreateInitiation(Begin("I", "R", "psk", i), e)
           = [hs |-> InitHs(i, e), msg |-> InitMsg(i, e)]
<1> DEFINE hs == Begin("I", "R", "psk", i)
           z  == Hs("I", "R", "psk", i, e, "none", 0, <<{"construction"}>>,
                    <<"construction", "identifier", "R">>, Zero, Zero)
           a  == Hs("I", "R", "psk", i, e, "none", 0, CkEph(e), HashEph(e), Zero, Zero)
           b  == Hs("I", "R", "psk", i, e, "none", 0, CkStatic(e), HashStatic(e), Zero, Zero)
<1>1. [ChainStart(hs, "R") EXCEPT !.e = e] = z
  <2> DEFINE c == <<{"construction"}>>
             h == <<"construction", "identifier", "R">>
             y == Hs("I", "R", "psk", i, "none", "none", 0, c, h, Zero, Zero)
  <2>1. ChainStart(hs, "R") = y
    BY BeginIs
  <2> HIDE DEF c, h
  <2>2. [y EXCEPT !.e = e] = Hs("I", "R", "psk", i, e, "none", 0, c, h, Zero, Zero)
    BY DEF Hs
  <2> QED  BY <2>1, <2>2 DEF c, h
<1>2. AfterEph(z, e) = a
  BY AfterEphIs DEF CkEph, HashEph
<1>3. SealNext(a, Dh(e, "R"), "I") = StaticBox(e)
  BY SealNextIs DEF StaticBox, CkStatic
<1>4. AfterBox(a, Dh(e, "R"), StaticBox(e)) = b
  BY AfterBoxIs DEF CkStatic, HashStatic
<1>5. SealNext(b, Dh("I", "R"), "stamp") = StampBox(e)
  BY SealNextIs DEF StampBox, CkInit
<1>6. AfterBox(b, Dh("I", "R"), StampBox(e)) = InitHs(i, e)
  BY AfterBoxIs DEF CkInit, HashInit, InitHs
<1>7. hs.peer = "R" /\ hs.s = "I" /\ hs.local = i
  BY DEF Begin
<1> HIDE DEF hs, z, a, b
<1>8. CreateInitiation(hs, e) = [hs |-> InitHs(i, e), msg |-> InitMsg(i, e)]
  BY <1>1, <1>2, <1>3, <1>4, <1>5, <1>6, <1>7 DEF CreateInitiation, InitMsg
<1> QED  BY <1>8 DEF hs

\* The responder accepts what the initiator sends, and has its chain then.
LEMMA InitiationAccepted ==
  ASSUME NEW i, NEW e, NEW q, NEW j
  PROVE  ConsumeInitiation(Begin("R", "none", q, j), InitMsg(i, e))
           = [ok |-> TRUE, hs |-> AcceptedHs(i, e, q, j)]
<1> DEFINE hs == Begin("R", "none", q, j)
           in == InitMsg(i, e)
           z  == Hs("R", "none", q, j, "none", e, i, <<{"construction"}>>,
                    <<"construction", "identifier", "R">>, Zero, Zero)
           a  == Hs("R", "none", q, j, "none", e, i, CkEph(e), HashEph(e), Zero, Zero)
           k  == Hs("R", "none", q, j, "none", e, i, CkStatic(e), HashEph(e), Zero, Zero)
           y  == Hs("R", "none", q, j, "none", e, i, CkStatic(e), HashStatic(e), Zero, Zero)
           b  == Hs("R", "I", q, j, "none", e, i, CkStatic(e), HashStatic(e), Zero, Zero)
           l  == Hs("R", "I", q, j, "none", e, i, CkInit(e), HashStatic(e), Zero, Zero)
<1>1. /\ in.type = 1 /\ in.index = i /\ in.eph = e /\ in.static = StaticBox(e)
      /\ in.stamp = StampBox(e) /\ in.mac = Mac1("R", InitFields(in)) /\ hs.s = "R"
  BY DEF InitMsg, InitFields, Begin
<1>2. [ChainStart(hs, "R") EXCEPT !.remote = i, !.peer_eph = e] = z
  <2> DEFINE c == <<{"construction"}>>
             f == <<"construction", "identifier", "R">>
             x == Hs("R", "none", q, j, "none", "none", 0, c, f, Zero, Zero)
  <2>1. ChainStart(hs, "R") = x
    BY BeginIs
  <2> HIDE DEF c, f
  <2>2. [x EXCEPT !.remote = i, !.peer_eph = e] = Hs("R", "none", q, j, "none", e, i, c, f, Zero, Zero)
    <3> DEFINE d == [x EXCEPT !.remote = i]
    <3>1. d = Hs("R", "none", q, j, "none", "none", i, c, f, Zero, Zero)
      BY DEF Hs
    <3>2. [d EXCEPT !.peer_eph = e] = Hs("R", "none", q, j, "none", e, i, c, f, Zero, Zero)
      <4> HIDE DEF d
      <4> QED  BY <3>1 DEF Hs
    <3> HIDE DEF x
    <3>3. [d EXCEPT !.peer_eph = e] = [x EXCEPT !.remote = i, !.peer_eph = e]
      OBVIOUS
    <3> QED  BY <3>2, <3>3
  <2> QED  BY <2>1, <2>2 DEF c, f
<1>3. AfterEph(z, e) = a
  BY AfterEphIs DEF CkEph, HashEph
<1>4. Dh("R", e) = Dh(e, "R") /\ Dh("R", "I") = Dh("I", "R")
  BY DhAgrees
<1>5. MixKey(a, Dh(e, "R")) = k
  BY MixHashIs DEF CkStatic
<1>6. AfterBox(a, Dh(e, "R"), StaticBox(e)) = y
  BY AfterBoxIs DEF CkStatic, HashStatic
<1>7. StaticBox(e).plain = "I" /\ [y EXCEPT !.peer = "I"] = b
  BY DEF StaticBox, Box, Hs
<1>8. MixKey(b, Dh("I", "R")) = l
  BY MixHashIs DEF CkInit
<1>9. AfterBox(b, Dh("I", "R"), StampBox(e)) = AcceptedHs(i, e, q, j)
  BY AfterBoxIs DEF CkInit, HashInit, AcceptedHs
<1>10. k.ck = CkStatic(e) /\ a.h = HashEph(e) /\ l.ck = CkInit(e) /\ b.h = HashStatic(e)
       /\ b.peer = "I"
  BY DEF Hs
<1>11. Opens(StaticBox(e), Kdf(k, 2), 0, a.h) /\ Opens(StampBox(e), Kdf(l, 2), 0, b.h)
  <2> HIDE DEF k, l, a, b
  <2> QED  BY <1>10 DEF Opens, Kdf, StaticBox, StampBox, Box
<1> HIDE DEF hs, in, z, a, k, y, b, l
<1>12. ConsumeInitiation(hs, in) = [ok |-> TRUE, hs |-> AcceptedHs(i, e, q, j)]
  <2>1. ~ (in.type # 1 \/ in.mac # Mac1(hs.s, InitFields(in)))
    BY <1>1
  <2>2. AfterEph([ChainStart(hs, hs.s) EXCEPT !.remote = in.index, !.peer_eph = in.eph], in.eph)
          = a
    BY <1>1, <1>2, <1>3
  <2>3. [AfterBox(a, Dh(hs.s, in.eph), in.static) EXCEPT !.peer = in.static.plain] = b
    BY <1>1, <1>4, <1>6, <1>7
  <2>4. Opens(in.static, Kdf(MixKey(a, Dh(hs.s, in.eph)), 2), 0, a.h)
    BY <1>1, <1>4, <1>5, <1>11
  <2>5. Opens(in.stamp, Kdf(MixKey(b, Dh(hs.s, b.peer)), 2), 0, b.h)
    BY <1>1, <1>4, <1>8, <1>10, <1>11
  <2>6. AfterBox(b, Dh(hs.s, b.peer), in.stamp) = AcceptedHs(i, e, q, j)
    BY <1>1, <1>4, <1>9, <1>10
  <2> QED  BY <2>1, <2>2, <2>3, <2>4, <2>5, <2>6 DEF ConsumeInitiation
<1> QED  BY <1>12 DEF hs, in

\* Both ends mix the answer the same way.
LEMMA MixAnswerIs ==
  ASSUME NEW s, NEW peer, NEW psk, NEW local, NEW e, NEW pe, NEW rem, NEW ck, NEW h, NEW sn,
         NEW rc, NEW r, NEW ee, NEW se
  PROVE  MixAnswer(Hs(s, peer, psk, local, e, pe, rem, ck, h, sn, rc), r, ee, se)
           = Hs(s, peer, psk, local, e, pe, rem, CkAnswer(ck, r, ee, se, psk),
                HashAnswer(h, r, CkAnswer(ck, r, ee, se, psk)), sn, rc)
<1> DEFINE hs == Hs(s, peer, psk, local, e, pe, rem, ck, h, sn, rc)
           A  == CkAnswer(ck, r, ee, se, psk)
           w  == Hs(s, peer, psk, local, e, pe, rem, Append(ck, {r}), Append(h, r), sn, rc)
           x  == Hs(s, peer, psk, local, e, pe, rem, Append(Append(ck, {r}), ee), Append(h, r),
                    sn, rc)
           y  == Hs(s, peer, psk, local, e, pe, rem, Append(Append(Append(ck, {r}), ee), se),
                    Append(h, r), sn, rc)
           z  == Hs(s, peer, psk, local, e, pe, rem, A, Append(h, r), sn, rc)
           o  == Hs(s, peer, psk, local, e, pe, rem, A, HashAnswer(h, r, A), sn, rc)
<1>1. AfterEph(hs, r) = w
  BY AfterEphIs
<1>2. MixKey(w, ee) = x /\ MixKey(x, se) = y
  BY MixHashIs
<1>3. MixKey(y, {psk}) = z
  BY MixHashIs DEF CkAnswer
<1>4. z.ck = A /\ hs.psk = psk
  BY DEF Hs
<1>5. MixHash(z, <<2, A>>) = o
  BY MixHashIs DEF HashAnswer
<1> HIDE DEF hs, w, x, y, z, o, A
<1>6. MixAnswer(hs, r, ee, se) = o
  BY <1>1, <1>2, <1>3, <1>4, <1>5 DEF MixAnswer, Kdf
<1> QED  BY <1>6 DEF hs, o, A

\* The keys of a handshake that is complete.
LEMMA FinalKeyIs ==
  ASSUME NEW s, NEW peer, NEW psk, NEW local, NEW e, NEW pe, NEW rem, NEW ck, NEW h, NEW sn,
         NEW rc, NEW n
  PROVE  FinalKey(Hs(s, peer, psk, local, e, pe, rem, ck, h, sn, rc), n) = <<n, Append(ck, {})>>
<1> DEFINE hs == Hs(s, peer, psk, local, e, pe, rem, ck, h, sn, rc)
           m  == Hs(s, peer, psk, local, e, pe, rem, Append(ck, {}), h, sn, rc)
<1>1. MixKey(hs, {}) = m
  BY MixHashIs
<1>2. m.ck = Append(ck, {})
  BY DEF Hs
<1> HIDE DEF hs, m
<1>3. FinalKey(hs, n) = <<n, Append(ck, {})>>
  BY <1>1, <1>2 DEF FinalKey, Kdf
<1> QED  BY <1>3 DEF hs

\* It gets its keys last, in either order.
KeyedFirst(hs, send, recv) == [hs EXCEPT !.send = send, !.recv = recv]
KeyedLast(hs, send, recv)  == [hs EXCEPT !.recv = recv, !.send = send]

\* The two orders make no difference.
LEMMA KeyedIs ==
  ASSUME NEW s, NEW peer, NEW psk, NEW local, NEW e, NEW pe, NEW rem, NEW ck, NEW h, NEW sn,
         NEW rc, NEW x, NEW y
  PROVE  /\ KeyedFirst(Hs(s, peer, psk, local, e, pe, rem, ck, h, sn, rc), x, y)
              = Hs(s, peer, psk, local, e, pe, rem, ck, h, x, y)
         /\ KeyedLast(Hs(s, peer, psk, local, e, pe, rem, ck, h, sn, rc), x, y)
              = Hs(s, peer, psk, local, e, pe, rem, ck, h, x, y)
<1> DEFINE hs == Hs(s, peer, psk, local, e, pe, rem, ck, h, sn, rc)
           a  == [hs EXCEPT !.send = x]
           b  == [hs EXCEPT !.recv = y]
           o  == Hs(s, peer, psk, local, e, pe, rem, ck, h, x, y)
<1>1. a = Hs(s, peer, psk, local, e, pe, rem, ck, h, x, rc)
  BY DEF Hs
<1>2. b = Hs(s, peer, psk, local, e, pe, rem, ck, h, sn, y)
  BY DEF Hs
<1>3. [a EXCEPT !.recv = y] = o
  <2> HIDE DEF a
  <2> QED  BY <1>1 DEF Hs
<1>4. [b EXCEPT !.send = x] = o
  <2> HIDE DEF b
  <2> QED  BY <1>2 DEF Hs
<1> HIDE DEF hs, o
<1>5. KeyedFirst(hs, x, y) = [a EXCEPT !.recv = y]
  BY DEF KeyedFirst
<1>6. KeyedLast(hs, x, y) = [b EXCEPT !.send = x]
  BY DEF KeyedLast
<1>7. KeyedFirst(hs, x, y) = o /\ KeyedLast(hs, x, y) = o
  BY <1>3, <1>4, <1>5, <1>6
<1> QED  BY <1>7 DEF hs, o

\* The answer to an initiation that was accepted.
LEMMA ResponseIs ==
  ASSUME NEW i, NEW e, NEW q, NEW j, NEW r
  PROVE  CreateResponse(AcceptedHs(i, e, q, j), r)
           = [hs |-> RespHs(i, e, q, j, r), msg |-> RespMsg(i, e, q, j, r)]
<1> DEFINE hs == AcceptedHs(i, e, q, j)
           w  == Hs("R", "I", q, j, r, e, i, CkInit(e), HashInit(e), Zero, Zero)
           a  == Hs("R", "I", q, j, r, e, i, CkResp(e, r, q), HashResp(e, r, q), Zero, Zero)
           b  == Hs("R", "I", q, j, r, e, i, CkResp(e, r, q),
                    Append(HashResp(e, r, q), EmptyBox(e, r, q)), Zero, Zero)
<1>1. [hs EXCEPT !.e = r] = w
  BY DEF AcceptedHs, Hs
<1>2. hs.peer_eph = e /\ hs.peer = "I" /\ hs.local = j /\ hs.remote = i
  BY DEF AcceptedHs, Hs
<1>3. MixAnswer(w, r, Dh(r, e), Dh(r, "I")) = a
  BY MixAnswerIs DEF CkResp, HashResp
<1>4. a.ck = CkResp(e, r, q) /\ a.h = HashResp(e, r, q)
  BY DEF Hs
<1>5. MixHash(a, EmptyBox(e, r, q)) = b
  BY MixHashIs
<1>6. FinalKey(b, 1) = RespKey(e, r, q, 1) /\ FinalKey(b, 2) = RespKey(e, r, q, 2)
  BY FinalKeyIs DEF RespKey
<1>7. KeyedLast(b, RespKey(e, r, q, 2), RespKey(e, r, q, 1)) = RespHs(i, e, q, j, r)
  BY KeyedIs DEF RespHs
<1> HIDE DEF hs, w, a, b
<1>8. Box(Kdf(a, 3), 0, a.h, "empty") = EmptyBox(e, r, q)
  BY <1>4 DEF EmptyBox, Kdf
<1>9. CreateResponse(hs, r) = [hs |-> RespHs(i, e, q, j, r), msg |-> RespMsg(i, e, q, j, r)]
  <2>1. CreateResponse(hs, r)
          = [hs |-> KeyedLast(b, FinalKey(b, 2), FinalKey(b, 1)),
             msg |-> [type |-> 2, index |-> j, receiver |-> i, eph |-> r,
                      empty |-> EmptyBox(e, r, q),
                      mac |-> Mac1("I", <<2, j, i, r, EmptyBox(e, r, q)>>)]]
    BY <1>1, <1>2, <1>3, <1>5, <1>8 DEF CreateResponse, KeyedLast
  <2> QED  BY <2>1, <1>6, <1>7 DEF RespMsg
<1> QED  BY <1>9 DEF hs

\* The initiator's chain and hash after it has mixed an answer, and its handshake then.
CkTaken(ck, e, r)   == CkAnswer(ck, r, Dh(e, r), Dh("I", r), "psk")
HashTaken(ck, h, e, r) == HashAnswer(h, r, CkTaken(ck, e, r))

Waiting(l, e, pe, rem, ck, h) == Hs("I", "R", "psk", l, e, pe, rem, ck, h, Zero, Zero)

Spoilt(l, e, ck, h, j, r) ==
  Waiting(l, e, r, j, CkTaken(ck, e, r), HashTaken(ck, h, e, r))

Complete(l, e, ck, h, j, r, box) ==
  Hs("I", "R", "psk", l, e, r, j, CkTaken(ck, e, r), Append(HashTaken(ck, h, e, r), box),
     <<1, Append(CkTaken(ck, e, r), {})>>, <<2, Append(CkTaken(ck, e, r), {})>>)

\* A response to another index changes nothing, one that was not made from this chain and
\* this hash leaves them changed, and the one that was completes the handshake.
LEMMA ResponseTaken ==
  ASSUME NEW l, NEW e, NEW pe, NEW rem, NEW ck, NEW h, NEW i, NEW f, NEW q, NEW j, NEW r
  PROVE  ConsumeResponse(Waiting(l, e, pe, rem, ck, h), RespMsg(i, f, q, j, r))
           = IF i # l THEN Refused(Waiting(l, e, pe, rem, ck, h))
             ELSE IF ~ (/\ CkResp(f, r, q) = CkTaken(ck, e, r)
                        /\ HashResp(f, r, q) = HashTaken(ck, h, e, r))
             THEN Refused(Spoilt(l, e, ck, h, j, r))
             ELSE [ok |-> TRUE, hs |-> Complete(l, e, ck, h, j, r, EmptyBox(f, r, q))]
<1> DEFINE hs == Waiting(l, e, pe, rem, ck, h)
           in == RespMsg(i, f, q, j, r)
           w  == Waiting(l, e, r, j, ck, h)
           a  == Spoilt(l, e, ck, h, j, r)
           b  == Hs("I", "R", "psk", l, e, r, j, CkTaken(ck, e, r),
                    Append(HashTaken(ck, h, e, r), EmptyBox(f, r, q)), Zero, Zero)
           K  == CkTaken(ck, e, r)
           o  == Complete(l, e, ck, h, j, r, EmptyBox(f, r, q))
<1>1. /\ in.type = 2 /\ in.index = j /\ in.receiver = i /\ in.eph = r
      /\ in.empty = EmptyBox(f, r, q) /\ in.mac = Mac1("I", ResponseFields(in))
  BY DEF RespMsg, ResponseFields
<1>2. hs.e = e /\ hs.s = "I" /\ hs.local = l
  BY DEF Waiting, Hs
<1>3. [hs EXCEPT !.remote = j, !.peer_eph = r] = w
  <2> DEFINE d == [hs EXCEPT !.remote = j]
  <2>1. d = Waiting(l, e, pe, j, ck, h)
    BY DEF Hs, Waiting
  <2>2. [d EXCEPT !.peer_eph = r] = w
    <3> HIDE DEF d
    <3> QED  BY <2>1 DEF Hs, Waiting
  <2> HIDE DEF hs, w
  <2>3. [d EXCEPT !.peer_eph = r] = [hs EXCEPT !.remote = j, !.peer_eph = r]
    OBVIOUS
  <2> QED  BY <2>2, <2>3
<1>4. MixAnswer(w, r, Dh(e, r), Dh("I", r)) = a
  BY MixAnswerIs DEF Waiting, Spoilt, CkTaken, HashTaken
<1>5. a.ck = K /\ a.h = HashTaken(ck, h, e, r)
  BY DEF Spoilt, Waiting, Hs
<1>6. MixHash(a, EmptyBox(f, r, q)) = b
  BY MixHashIs DEF Spoilt, Waiting
<1>7. FinalKey(b, 1) = <<1, Append(K, {})>> /\ FinalKey(b, 2) = <<2, Append(K, {})>>
  <2> HIDE DEF hs, in, w, a, o, K
  <2>1. FinalKey(b, 1) = <<1, Append(CkTaken(ck, e, r), {})>>
    BY FinalKeyIs
  <2>2. FinalKey(b, 2) = <<2, Append(CkTaken(ck, e, r), {})>>
    BY FinalKeyIs
  <2> QED  BY <2>1, <2>2 DEF K
<1>8. KeyedFirst(b, <<1, Append(K, {})>>, <<2, Append(K, {})>>) = o
  BY KeyedIs DEF Complete
<1> HIDE DEF hs, in, w, a, b, K, o
<1>9. Opens(EmptyBox(f, r, q), Kdf(a, 3), 0, a.h)
        <=> CkResp(f, r, q) = K /\ HashResp(f, r, q) = HashTaken(ck, h, e, r)
  BY <1>5 DEF Opens, Kdf, EmptyBox, Box
<1>10. ConsumeResponse(hs, in)
        = IF i # l THEN Refused(hs)
          ELSE IF ~ (CkResp(f, r, q) = K /\ HashResp(f, r, q) = HashTaken(ck, h, e, r))
          THEN Refused(a) ELSE [ok |-> TRUE, hs |-> o]
  <2> DEFINE P == CkResp(f, r, q) = K /\ HashResp(f, r, q) = HashTaken(ck, h, e, r)
  <2> HIDE DEF P
  <2>1. Opens(in.empty, Kdf(a, 3), 0, a.h) <=> P
    BY <1>1, <1>9 DEF P
  <2>2. ConsumeResponse(hs, in)
          = IF i # l THEN Refused(hs) ELSE IF ~P THEN Refused(a) ELSE [ok |-> TRUE, hs |-> o]
    BY <1>1, <1>2, <1>3, <1>4, <1>6, <1>7, <1>8, <2>1
    DEF ConsumeResponse, KeyedFirst
  <2> QED  BY <2>2 DEF P
<1> QED  BY <1>10 DEF hs, in, a, K, o

-----------------------------------------------------------------------------
(* What an answer adds to a chain *)

\* The chain of an initiation.
LEMMA InitChain ==
  ASSUME NEW e
  PROVE  Chain(CkInit(e)) /\ Len(CkInit(e)) = 4
<1> DEFINE c == <<{"construction"}>>
<1>1. Chain(c) /\ Len(c) = 1
  BY FirstIsChain
<1> HIDE DEF c
<1>2. CkEph(e) = Append(c, {e})
  BY DEF CkEph, c
<1>3. Chain(CkEph(e)) /\ Len(CkEph(e)) = Len(c) + 1
  BY <1>1, <1>2, Mixed
<1>4. Chain(CkStatic(e)) /\ Len(CkStatic(e)) = Len(CkEph(e)) + 1
  BY <1>3, Mixed DEF CkStatic
<1>5. Chain(CkInit(e)) /\ Len(CkInit(e)) = Len(CkStatic(e)) + 1
  BY <1>4, Mixed DEF CkInit
<1> QED  BY <1>1, <1>3, <1>4, <1>5

\* It shows the ephemeral key.
LEMMA InitUnmixed ==
  ASSUME NEW e, NEW f, CkInit(e) = CkInit(f)
  PROVE  e = f
<1> DEFINE c == <<{"construction"}>>
<1>1. Chain(c)
  BY FirstIsChain
<1> HIDE DEF c
<1>2. CkEph(e) = Append(c, {e}) /\ CkEph(f) = Append(c, {f})
  BY DEF CkEph, c
<1>3. Chain(CkEph(e)) /\ Chain(CkEph(f))
  BY <1>1, <1>2, Mixed
<1>4. Chain(CkStatic(e)) /\ Chain(CkStatic(f))
  BY <1>3, Mixed DEF CkStatic
<1>5. CkStatic(e) = CkStatic(f)
  BY <1>4, Unmixed DEF CkInit
<1>6. CkEph(e) = CkEph(f)
  BY <1>3, <1>5, Unmixed DEF CkStatic
<1>7. {e} = {f}
  BY <1>1, <1>2, <1>6, Unmixed
<1> QED  BY <1>7

\* An answer makes a chain longer by four.
LEMMA AnswerMixed ==
  ASSUME NEW ck, Chain(ck), NEW r, NEW ee, NEW se, NEW q
  PROVE  /\ Chain(CkAnswer(ck, r, ee, se, q)) /\ Len(ck) \in Nat
         /\ Len(CkAnswer(ck, r, ee, se, q)) = Len(ck) + 4
<1> DEFINE a == Append(ck, {r})
           b == Append(a, ee)
           c == Append(b, se)
<1>1. Chain(a) /\ Len(a) = Len(ck) + 1 /\ Len(ck) \in Nat
  BY Mixed
<1> HIDE DEF a
<1>2. Chain(b) /\ Len(b) = Len(ck) + 2
  BY <1>1, Mixed
<1> HIDE DEF b
<1>3. Chain(c) /\ Len(c) = Len(ck) + 3
  BY <1>1, <1>2, Mixed
<1> HIDE DEF c
<1>4. Chain(Append(c, {q})) /\ Len(Append(c, {q})) = Len(ck) + 4
  BY <1>1, <1>3, Mixed
<1>5. CkAnswer(ck, r, ee, se, q) = Append(c, {q})
  BY DEF CkAnswer, a, b, c
<1> QED  BY <1>1, <1>4, <1>5

\* It shows the chain it was made from, the ephemeral key and the preshared key.
LEMMA AnswerUnmixed ==
  ASSUME NEW ck, Chain(ck), NEW r, NEW ee, NEW se, NEW q,
         NEW dk, Chain(dk), NEW r2, NEW ee2, NEW se2, NEW q2,
         CkAnswer(ck, r, ee, se, q) = CkAnswer(dk, r2, ee2, se2, q2)
  PROVE  ck = dk /\ r = r2 /\ q = q2
<1> DEFINE a  == Append(ck, {r})
           b  == Append(a, ee)
           c  == Append(b, se)
           a2 == Append(dk, {r2})
           b2 == Append(a2, ee2)
           c2 == Append(b2, se2)
<1>1. Append(c, {q}) = Append(c2, {q2})
  BY DEF CkAnswer
<1>2. Chain(a) /\ Chain(a2)
  BY Mixed
<1>3. Chain(b) /\ Chain(b2)
  <2> HIDE DEF a, a2
  <2> QED  BY <1>2, Mixed
<1>4. Chain(c) /\ Chain(c2)
  <2> HIDE DEF b, b2
  <2> QED  BY <1>3, Mixed
<1>5. c = c2 /\ {q} = {q2}
  <2> HIDE DEF c, c2
  <2> QED  BY <1>1, <1>4, Unmixed
<1>6. b = b2
  <2> HIDE DEF b, b2
  <2> QED  BY <1>3, <1>5, Unmixed
<1>7. a = a2
  <2> HIDE DEF a, a2
  <2> QED  BY <1>2, <1>6, Unmixed
<1>8. ck = dk /\ {r} = {r2}
  BY <1>7, Unmixed
<1> QED  BY <1>5, <1>8, SingleIs

\* The keys of two answers differ, because their ephemeral keys do.
LEMMA KeysDiffer ==
  ASSUME NEW e, NEW r, NEW q, NEW e2, NEW r2, NEW q2, NEW n,
         RespKey(e, r, q, n) = RespKey(e2, r2, q2, n)
  PROVE  r = r2
<1> DEFINE c == CkResp(e, r, q)
           d == CkResp(e2, r2, q2)
<1>1. Chain(c) /\ Chain(d)
  BY InitChain, AnswerMixed DEF CkResp
<1>2. Append(c, {}) = Append(d, {})
  BY DEF RespKey
<1>3. c = d
  <2> HIDE DEF c, d
  <2> QED  BY <1>1, <1>2, Unmixed
<1> QED  BY <1>3, InitChain, AnswerUnmixed DEF CkResp

-----------------------------------------------------------------------------
(* The invariant *)

\* Every initiation was created, with an ephemeral key of its own.
InitsMade ==
  /\ \A m \in inits : \E i \in Indices, e \in InitKeys : m = InitMsg(i, e)
  /\ \A m, n \in inits : m.eph = n.eph => m = n

Answer(i, e, q, j, r) ==
  [init |-> InitMsg(i, e), msg |-> RespMsg(i, e, q, j, r), hs |-> RespHs(i, e, q, j, r)]

\* So was every answer, to an initiation that was sent.
AnswersMade ==
  /\ \A a \in answers :
       /\ a.init \in inits
       /\ \E i, j \in Indices, e \in InitKeys, r \in AnswerKeys : a = Answer(i, e, peer_psk, j, r)
  /\ \A a, b \in answers : a.msg.eph = b.msg.eph => a = b

\* The attempt has sent an initiation; each response that spoiled it made its chain longer,
\* and without one it is as it was created.
Attempt(l, e, pe, rem, ck, h) ==
  /\ pending = Waiting(l, e, pe, rem, ck, h)
  /\ InitMsg(l, e) \in inits
  /\ Chain(ck) /\ Len(ck) = 4 + 4 * spoiled
  /\ spoiled = 0 => ck = CkInit(e) /\ h = HashInit(e)

PendingMade ==
  handshaking => Attempt(pending.local, pending.e, pending.peer_eph, pending.remote,
                         pending.ck, pending.h)

\* A keypair is the other end of an answer.
Paired(keys) == keys = {} \/ \E k \in keys : keys = {k} /\ \E a \in answers : Mirrors(k, a.hs)

NoiseInv ==
  /\ spoiled \in Nat /\ pending.s = "I"
  /\ InitsMade /\ AnswersMade /\ PendingMade /\ Paired(cur) /\ Paired(prev)

-----------------------------------------------------------------------------
(* Each step keeps the invariant *)

\* A key that is drawn is new.
LEMMA DrawnIsNew ==
  ASSUME NEW keys, NEW used, keys \ used # {}
  PROVE  Drawn(keys, used) \in keys /\ Drawn(keys, used) \notin used
BY DEF Drawn

\* The fields of the messages and of the handshakes.
LEMMA Fields ==
  ASSUME NEW i, NEW e, NEW q, NEW j, NEW r
  PROVE  /\ InitMsg(i, e).eph = e /\ InitMsg(i, e).index = i
         /\ RespMsg(i, e, q, j, r).eph = r
         /\ Answer(i, e, q, j, r).init = InitMsg(i, e)
         /\ Answer(i, e, q, j, r).msg = RespMsg(i, e, q, j, r)
         /\ Answer(i, e, q, j, r).hs = RespHs(i, e, q, j, r)
BY DEF InitMsg, RespMsg, Answer

\* The handshake of an answer.
LEMMA AnswerHs ==
  ASSUME NEW i, NEW e, NEW q, NEW j, NEW r
  PROVE  /\ RespHs(i, e, q, j, r).send = RespKey(e, r, q, 2)
         /\ RespHs(i, e, q, j, r).recv = RespKey(e, r, q, 1)
         /\ RespHs(i, e, q, j, r).local = j /\ RespHs(i, e, q, j, r).remote = i
BY DEF RespHs, Hs

\* Who the session is.
LEMMA OwnSide ==
  /\ Begin("I", "R", "psk", 0).s = "I"
  /\ \A i, e : InitHs(i, e).s = "I"
  /\ \A l, e, ck, h, j, r : Spoilt(l, e, ck, h, j, r).s = "I"
  /\ \A l, e, ck, h, j, r, box : Complete(l, e, ck, h, j, r, box).s = "I"
BY DEF Begin, InitHs, Spoilt, Waiting, Complete, Hs

\* A handshake that waits.
LEMMA WaitingFields ==
  ASSUME NEW l, NEW e, NEW pe, NEW rem, NEW ck, NEW h
  PROVE  /\ Waiting(l, e, pe, rem, ck, h).local = l /\ Waiting(l, e, pe, rem, ck, h).e = e
         /\ Waiting(l, e, pe, rem, ck, h).peer_eph = pe
         /\ Waiting(l, e, pe, rem, ck, h).remote = rem
         /\ Waiting(l, e, pe, rem, ck, h).ck = ck /\ Waiting(l, e, pe, rem, ck, h).h = h
BY DEF Waiting, Hs

\* awg_session_build_initiation keeps the invariant.
LEMMA InitiateKeeps ==
  ASSUME NoiseInv, Initiate
  PROVE  NoiseInv'
<1> DEFINE used == {m.eph : m \in inits}
<1>1. PICK e \in InitKeys : e = Drawn(InitKeys, used) /\ e \notin used
  <2>1. InitKeys \ used # {}
    BY DEF Initiate
  <2> HIDE DEF used
  <2> QED  BY <2>1, DrawnIsNew
<1>2. PICK i \in Indices : /\ pending' = InitHs(i, e) /\ inits' = inits \cup {InitMsg(i, e)}
  <2>1. PICK i \in Indices : LET c == CreateInitiation(Begin("I", "R", "psk", i), e)
                            IN pending' = c.hs /\ inits' = inits \cup {c.msg}
    BY <1>1 DEF Initiate
  <2>2. CreateInitiation(Begin("I", "R", "psk", i), e)
          = [hs |-> InitHs(i, e), msg |-> InitMsg(i, e)]
    BY InitiationIs
  <2> QED  BY <2>1, <2>2
<1>3. /\ handshaking' = TRUE /\ spoiled' = 0 /\ peer_psk' = peer_psk /\ cur' = cur
      /\ prev' = prev /\ answers' = answers
  BY DEF Initiate
<1>4. \A m \in inits : m.eph # e
  BY <1>1
<1> HIDE DEF used
<1>5. InitsMade'
  <2>1. InitMsg(i, e).eph = e
    BY Fields
  <2> QED  BY <1>1, <1>2, <1>4, <2>1 DEF NoiseInv, InitsMade
<1>6. AnswersMade'
  BY <1>2, <1>3 DEF NoiseInv, AnswersMade
<1>7. PendingMade'
  <2>1. pending' = Waiting(i, e, "none", 0, CkInit(e), HashInit(e))
    BY <1>2 DEF InitHs, Waiting
  <2>2. Chain(CkInit(e)) /\ Len(CkInit(e)) = 4
    BY InitChain
  <2>3. Attempt(i, e, "none", 0, CkInit(e), HashInit(e))'
    BY <2>1, <2>2, <1>2, <1>3 DEF Attempt
  <2> QED  BY <2>1, <2>3, WaitingFields DEF PendingMade
<1>8. Paired(cur)' /\ Paired(prev)'
  BY <1>3 DEF NoiseInv, Paired
<1>9. pending'.s = "I"
  BY <1>2, OwnSide
<1> QED  BY <1>3, <1>5, <1>6, <1>7, <1>8, <1>9 DEF NoiseInv

\* The responder keeps it.
LEMMA RespondKeeps ==
  ASSUME NoiseInv, Respond
  PROVE  NoiseInv'
<1> DEFINE used == {a.msg.eph : a \in answers}
           r    == Drawn(AnswerKeys, used)
<1>1. r \in AnswerKeys /\ r \notin used
  BY DrawnIsNew DEF Respond
<1>2. PICK i \in Indices, j \in Indices, e \in InitKeys :
        /\ InitMsg(i, e) \in inits
        /\ answers' = answers \cup {Answer(i, e, peer_psk, j, r)}
  <2>1. PICK m \in inits, j \in Indices :
          LET c == ConsumeInitiation(Begin("R", "none", peer_psk, j), m)
              d == CreateResponse(c.hs, r)
          IN answers' = answers \cup {[init |-> m, msg |-> d.msg, hs |-> d.hs]}
    BY DEF Respond
  <2>2. PICK i \in Indices, e \in InitKeys : m = InitMsg(i, e)
    BY DEF NoiseInv, InitsMade
  <2>3. ConsumeInitiation(Begin("R", "none", peer_psk, j), m)
          = [ok |-> TRUE, hs |-> AcceptedHs(i, e, peer_psk, j)]
    BY <2>2, InitiationAccepted
  <2>4. CreateResponse(AcceptedHs(i, e, peer_psk, j), r)
          = [hs |-> RespHs(i, e, peer_psk, j, r), msg |-> RespMsg(i, e, peer_psk, j, r)]
    BY ResponseIs
  <2> HIDE DEF r
  <2>5. answers' = answers \cup {Answer(i, e, peer_psk, j, r)}
    BY <2>1, <2>2, <2>3, <2>4 DEF Answer
  <2> QED  BY <2>2, <2>5
<1>3. /\ handshaking' = handshaking /\ spoiled' = spoiled /\ peer_psk' = peer_psk /\ cur' = cur
      /\ prev' = prev /\ inits' = inits /\ pending' = pending
  BY DEF Respond
<1>4. \A a \in answers : a.msg.eph # r
  BY <1>1
<1> HIDE DEF r, used
<1>5. InitsMade'
  BY <1>3 DEF NoiseInv, InitsMade
<1>6. AnswersMade'
  <2> DEFINE n == Answer(i, e, peer_psk, j, r)
  <2>1. n.init \in inits /\ n.msg.eph = r
    BY <1>2, Fields
  <2>2. answers' = answers \cup {n}
    BY <1>2
  <2>3. \E i2, j2 \in Indices, e2 \in InitKeys, r2 \in AnswerKeys :
           n = Answer(i2, e2, peer_psk, j2, r2)
    BY <1>1
  <2> HIDE DEF n
  <2> QED  BY <2>1, <2>2, <2>3, <1>3, <1>4 DEF NoiseInv, AnswersMade
<1>7. PendingMade'
  BY <1>3 DEF NoiseInv, PendingMade, Attempt
<1>8. Paired(cur)' /\ Paired(prev)'
  BY <1>2, <1>3 DEF NoiseInv, Paired
<1> QED  BY <1>3, <1>5, <1>6, <1>7, <1>8 DEF NoiseInv

\* The one response that completes the attempt is the answer to its initiation under the same
\* preshared key, and only if no other one has spoiled the chain before.
Completes(f, e) == f = e /\ peer_psk = "psk" /\ spoiled = 0

\* The length of the chain tells how many there were.
LEMMA NoneSpoiled == \A n, s \in Nat : n = 4 /\ n = 4 + 4 * s => s = 0
OBVIOUS

\* What awg_session_on_datagram does with the outcome.
Taken(c) ==
  /\ pending' = c.hs
  /\ handshaking' = ~ c.ok
  /\ cur'  = IF c.ok THEN {c.hs} ELSE cur
  /\ prev' = IF c.ok THEN cur ELSE prev
  /\ spoiled' = IF c.ok \/ c.hs = pending THEN spoiled ELSE spoiled + 1

\* What becomes of the attempt.
LEMMA Judged ==
  ASSUME NoiseInv, NEW i, NEW f, NEW j, NEW r, InitMsg(i, f) \in inits,
         NEW l, NEW e, NEW pe, NEW rem, NEW ck, NEW h, Attempt(l, e, pe, rem, ck, h)
  PROVE  LET c == ConsumeResponse(pending, RespMsg(i, f, peer_psk, j, r))
         IN /\ Completes(f, e) =>
                 /\ i = l
                 /\ c = [ok |-> TRUE, hs |-> Complete(l, e, CkInit(e), HashInit(e), j, r,
                                                     EmptyBox(e, r, "psk"))]
            /\ ~Completes(f, e) => c = Refused(pending) \/ c = Refused(Spoilt(l, e, ck, h, j, r))
<1> DEFINE c == ConsumeResponse(pending, RespMsg(i, f, peer_psk, j, r))
           P == /\ CkResp(f, r, peer_psk) = CkTaken(ck, e, r)
                /\ HashResp(f, r, peer_psk) = HashTaken(ck, h, e, r)
           o == Complete(l, e, ck, h, j, r, EmptyBox(f, r, peer_psk))
<1>1. c = IF i # l THEN Refused(pending)
          ELSE IF ~P THEN Refused(Spoilt(l, e, ck, h, j, r))
          ELSE [ok |-> TRUE, hs |-> o]
  BY ResponseTaken DEF Attempt
<1>2. Completes(f, e) => i = l
  <2>1. InitsMade /\ InitMsg(l, e) \in inits
    BY DEF NoiseInv, Attempt
  <2> QED  BY <2>1, Fields DEF Completes, InitsMade
<1>3. Completes(f, e) => P
  <2> SUFFICES ASSUME Completes(f, e) PROVE P
    OBVIOUS
  <2>1. ck = CkInit(e) /\ h = HashInit(e) /\ f = e /\ peer_psk = "psk"
    BY DEF Completes, Attempt
  <2>2. Dh(r, e) = Dh(e, r) /\ Dh(r, "I") = Dh("I", r)
    BY DhAgrees
  <2>3. CkResp(e, r, "psk") = CkTaken(CkInit(e), e, r)
    BY <2>2 DEF CkResp, CkTaken
  <2>4. HashResp(e, r, "psk") = HashTaken(CkInit(e), HashInit(e), e, r)
    BY <2>3 DEF HashResp, HashTaken
  <2> QED  BY <2>1, <2>3, <2>4
<1>4. ASSUME P PROVE Completes(f, e)
  <2>1. CkAnswer(CkInit(f), r, Dh(r, f), Dh(r, "I"), peer_psk)
          = CkAnswer(ck, r, Dh(e, r), Dh("I", r), "psk")
    BY <1>4 DEF CkResp, CkTaken
  <2>2. Chain(ck) /\ Chain(CkInit(f)) /\ Len(CkInit(f)) = 4
    BY InitChain DEF Attempt
  <2>3. CkInit(f) = ck /\ peer_psk = "psk"
    BY <2>1, <2>2, AnswerUnmixed
  <2>4. Len(ck) = 4 + 4 * spoiled /\ spoiled \in Nat
    BY DEF Attempt, NoiseInv
  <2>5. spoiled = 0
    <3>1. Len(ck) = 4
      BY <2>2, <2>3
    <3> QED  BY <3>1, <2>4, NoneSpoiled
  <2>6. CkInit(f) = CkInit(e)
    BY <2>3, <2>5 DEF Attempt
  <2> QED  BY <2>3, <2>5, <2>6, InitUnmixed DEF Completes
<1> HIDE DEF P, c
<1>5. CASE Completes(f, e)
  <2>1. c = [ok |-> TRUE, hs |-> o] /\ i = l
    BY <1>1, <1>2, <1>3, <1>5
  <2>2. o = Complete(l, e, CkInit(e), HashInit(e), j, r, EmptyBox(e, r, "psk"))
    BY <1>5 DEF Completes, Attempt
  <2> HIDE DEF o
  <2> QED  BY <2>1, <2>2, <1>5 DEF c
<1>6. CASE ~Completes(f, e)
  <2> HIDE DEF o
  <2>1. c = Refused(pending) \/ c = Refused(Spoilt(l, e, ck, h, j, r))
    BY <1>1, <1>4, <1>6
  <2> QED  BY <2>1, <1>6 DEF c
<1> QED  BY <1>5, <1>6

\* Both ends have the same keys, the other way round.
LEMMA CompleteMirrors ==
  ASSUME NEW l, NEW e, NEW j, NEW r, NEW box
  PROVE  Mirrors(Complete(l, e, CkInit(e), HashInit(e), j, r, box), RespHs(l, e, "psk", j, r))
<1> DEFINE o == Complete(l, e, CkInit(e), HashInit(e), j, r, box)
           K == CkTaken(CkInit(e), e, r)
<1>1. K = CkResp(e, r, "psk")
  BY DhAgrees DEF CkTaken, CkResp
<1>2. /\ o.send = <<1, Append(K, {})>> /\ o.recv = <<2, Append(K, {})>>
      /\ o.local = l /\ o.remote = j
  BY DEF Complete, Hs
<1> HIDE DEF o, K
<1>3. o.send = RespKey(e, r, "psk", 1) /\ o.recv = RespKey(e, r, "psk", 2)
  BY <1>1, <1>2 DEF RespKey
<1>4. Mirrors(o, RespHs(l, e, "psk", j, r))
  BY <1>2, <1>3, AnswerHs DEF Mirrors
<1> QED  BY <1>4 DEF o

\* awg_session_on_datagram keeps it, whatever the response.
LEMMA OnResponseKeeps ==
  ASSUME NoiseInv, OnResponse
  PROVE  NoiseInv'
<1>1. PICK a \in answers : Taken(ConsumeResponse(pending, a.msg))
  BY DEF OnResponse, Taken
<1>2. inits' = inits /\ answers' = answers /\ peer_psk' = peer_psk /\ handshaking
  BY DEF OnResponse
<1>3. InitsMade' /\ AnswersMade'
  BY <1>2 DEF NoiseInv, InitsMade, AnswersMade
<1>4. PICK i \in Indices, j \in Indices, f \in InitKeys, r \in AnswerKeys :
        a = Answer(i, f, peer_psk, j, r)
  BY DEF NoiseInv, AnswersMade
<1>5. /\ a.msg = RespMsg(i, f, peer_psk, j, r) /\ a.hs = RespHs(i, f, peer_psk, j, r)
      /\ InitMsg(i, f) \in inits
  BY <1>4, Fields DEF NoiseInv, AnswersMade
<1>6. PICK l, e, pe, rem, ck, h : Attempt(l, e, pe, rem, ck, h)
  BY <1>2 DEF NoiseInv, PendingMade
<1> DEFINE c == ConsumeResponse(pending, RespMsg(i, f, peer_psk, j, r))
           o == Complete(l, e, CkInit(e), HashInit(e), j, r, EmptyBox(e, r, "psk"))
           w == Spoilt(l, e, ck, h, j, r)
<1>7. /\ Completes(f, e) => i = l /\ c = [ok |-> TRUE, hs |-> o]
      /\ ~Completes(f, e) => c = Refused(pending) \/ c = Refused(w)
  BY <1>5, <1>6, Judged
<1>8. Taken(c)
  BY <1>1, <1>5
<1> HIDE DEF c
<1>9. Paired(cur) /\ Paired(prev) /\ spoiled \in Nat /\ PendingMade
  BY DEF NoiseInv
<1>10. CASE Completes(f, e)
  <2>1. Mirrors(o, a.hs)
    BY <1>5, <1>7, <1>10, CompleteMirrors DEF Completes
  <2> HIDE DEF o
  <2>2. pending' = o /\ ~handshaking' /\ cur' = {o} /\ prev' = cur /\ spoiled' = spoiled
    <3>1. c.ok /\ c.hs = o
      BY <1>7, <1>10
    <3> QED  BY <3>1, <1>8 DEF Taken
  <2>3. Paired(cur)'
    BY <2>1, <2>2, <1>2 DEF Paired
  <2>4. Paired(prev)'
    BY <2>2, <1>2, <1>9 DEF Paired
  <2>5. pending'.s = "I"
    BY <2>2, OwnSide DEF o
  <2> QED  BY <1>3, <1>9, <2>2, <2>3, <2>4, <2>5 DEF NoiseInv, PendingMade
<1>11. CASE c = Refused(pending)
  <2>1. /\ handshaking' /\ cur' = cur /\ prev' = prev /\ spoiled' = spoiled
        /\ pending' = pending
    <3>1. ~c.ok /\ c.hs = pending
      BY <1>11 DEF Refused
    <3> QED  BY <3>1, <1>8 DEF Taken
  <2> QED  BY <2>1, <1>2, <1>3, <1>9 DEF NoiseInv, PendingMade, Attempt, Paired
<1>12. CASE c = Refused(w)
  <2>1. Chain(ck) /\ Len(ck) = 4 + 4 * spoiled /\ InitMsg(l, e) \in inits
        /\ pending = Waiting(l, e, pe, rem, ck, h)
    BY <1>6 DEF Attempt
  <2> DEFINE K == CkTaken(ck, e, r)
  <2>2. Chain(K) /\ Len(ck) \in Nat /\ Len(K) = Len(ck) + 4
    BY <2>1, AnswerMixed DEF CkTaken
  <2>3. w.ck = K /\ pending.ck = ck
    BY <2>1, WaitingFields DEF Spoilt
  <2> HIDE DEF K
  <2>4. w # pending
    BY <2>2, <2>3
  <2> HIDE DEF w
  <2>5. /\ handshaking' /\ cur' = cur /\ prev' = prev /\ spoiled' = spoiled + 1
        /\ pending' = w
    <3>1. ~c.ok /\ c.hs = w
      BY <1>12 DEF Refused
    <3> QED  BY <3>1, <1>8, <2>4 DEF Taken
  <2>6. Len(K) = 4 + 4 * (spoiled + 1) /\ spoiled + 1 # 0 /\ spoiled + 1 \in Nat
    BY <1>9, <2>1, <2>2
  <2>7. w = Waiting(l, e, r, j, K, HashTaken(ck, h, e, r))
    BY DEF w, Spoilt, K
  <2>8. Attempt(l, e, r, j, K, HashTaken(ck, h, e, r))'
    BY <1>2, <2>1, <2>2, <2>5, <2>6, <2>7 DEF Attempt
  <2>9. PendingMade'
    BY <2>5, <2>7, <2>8, WaitingFields DEF PendingMade
  <2>10. pending'.s = "I"
    BY <2>5, OwnSide DEF w
  <2> QED  BY <1>2, <1>3, <1>9, <2>5, <2>6, <2>9, <2>10 DEF NoiseInv, Paired
<1> QED  BY <1>7, <1>10, <1>11, <1>12

\* The attempts, responses and keypairs are what they should be, whatever happens.
THEOREM NoiseInvariant == NoiseSpec => []NoiseInv
<1>1. NoiseInit => NoiseInv
  BY OwnSide DEF NoiseInit, NoiseInv, InitsMade, AnswersMade, PendingMade, Paired
<1>2. NoiseInv /\ [NoiseNext]_noiseVars => NoiseInv'
  <2> SUFFICES ASSUME NoiseInv, [NoiseNext]_noiseVars PROVE NoiseInv'
    OBVIOUS
  <2>1. CASE \/ ForgetPrevious \/ UNCHANGED noiseVars
    <3>1. /\ peer_psk' = peer_psk /\ pending' = pending /\ handshaking' = handshaking
          /\ cur' = cur /\ inits' = inits /\ answers' = answers /\ spoiled' = spoiled
      BY <2>1 DEF ForgetPrevious, noiseVars
    <3>2. prev' = {} \/ prev' = prev
      BY <2>1 DEF ForgetPrevious, noiseVars
    <3>3. InitsMade' /\ AnswersMade'
      BY <3>1 DEF NoiseInv, InitsMade, AnswersMade
    <3>4. PendingMade'
      BY <3>1 DEF NoiseInv, PendingMade, Attempt
    <3>5. Paired(cur)' /\ Paired(prev)'
      BY <3>1, <3>2 DEF NoiseInv, Paired
    <3> QED  BY <3>1, <3>3, <3>4, <3>5 DEF NoiseInv
  <2> QED  BY <2>1, InitiateKeeps, RespondKeeps, OnResponseKeeps DEF NoiseNext
<1> QED  BY <1>1, <1>2, PTL DEF NoiseSpec

-----------------------------------------------------------------------------
(* What follows from it *)

\* The answers, in closed form.
LEMMA AnswerIs ==
  ASSUME NoiseInv, NEW a \in answers
  PROVE  \E i \in Indices, j \in Indices, f \in InitKeys, r \in AnswerKeys :
           /\ a.init = InitMsg(i, f) /\ a.init \in inits /\ a.init.eph = f
           /\ a.msg = RespMsg(i, f, peer_psk, j, r) /\ a.msg.eph = r
           /\ a.hs = RespHs(i, f, peer_psk, j, r)
<1>1. PICK i \in Indices, j \in Indices, f \in InitKeys, r \in AnswerKeys :
        a = Answer(i, f, peer_psk, j, r)
  BY DEF NoiseInv, AnswersMade
<1>2. a.init \in inits
  BY DEF NoiseInv, AnswersMade
<1> QED  BY <1>1, <1>2, Fields

\* awg_consume_response accepts the right response and no other.
LEMMA HandshakesAgree ==
  ASSUME NoiseInv
  PROVE  HandshakeAgrees
<1> SUFFICES ASSUME handshaking, NEW a \in answers
             PROVE  LET c == ConsumeResponse(pending, a.msg)
                    IN /\ c.ok => Mirrors(c.hs, a.hs)
                       /\ c.ok <=> a.init.eph = pending.e /\ peer_psk = "psk" /\ spoiled = 0
  BY DEF HandshakeAgrees
<1>1. PICK i \in Indices, j \in Indices, f \in InitKeys, r \in AnswerKeys :
        /\ a.init = InitMsg(i, f) /\ a.init \in inits /\ a.init.eph = f
        /\ a.msg = RespMsg(i, f, peer_psk, j, r) /\ a.msg.eph = r
        /\ a.hs = RespHs(i, f, peer_psk, j, r)
  BY AnswerIs
<1>2. PICK l, e, pe, rem, ck, h : Attempt(l, e, pe, rem, ck, h)
  BY DEF NoiseInv, PendingMade
<1>3. pending.e = e
  BY <1>2, WaitingFields DEF Attempt
<1> DEFINE c == ConsumeResponse(pending, RespMsg(i, f, peer_psk, j, r))
           o == Complete(l, e, CkInit(e), HashInit(e), j, r, EmptyBox(e, r, "psk"))
           w == Spoilt(l, e, ck, h, j, r)
<1>4. /\ Completes(f, e) => i = l /\ c = [ok |-> TRUE, hs |-> o]
      /\ ~Completes(f, e) => c = Refused(pending) \/ c = Refused(w)
  <2>1. InitMsg(i, f) \in inits
    BY <1>1
  <2> QED  BY <2>1, <1>2, Judged
<1>5. Completes(f, e) => Mirrors(o, a.hs)
  BY <1>1, <1>4, CompleteMirrors DEF Completes
<1>6. Completes(f, e) <=> a.init.eph = pending.e /\ peer_psk = "psk" /\ spoiled = 0
  BY <1>1, <1>3 DEF Completes
<1>7. c = ConsumeResponse(pending, a.msg)
  BY <1>1
<1> HIDE DEF c, o, w
<1>8. CASE Completes(f, e)
  <2>1. c.ok /\ c.hs = o
    BY <1>4, <1>8
  <2> QED  BY <2>1, <1>5, <1>6, <1>7, <1>8
<1>9. CASE ~Completes(f, e)
  <2>1. ~c.ok
    BY <1>4, <1>9 DEF Refused
  <2> QED  BY <2>1, <1>6, <1>7, <1>9
<1> QED  BY <1>8, <1>9

\* A message whose mac1 does not match is refused before anything is changed.
LEMMA MacFirst ==
  /\ \A hs, m : m.mac # Mac1(hs.s, ResponseFields(m)) => ConsumeResponse(hs, m) = Refused(hs)
  /\ \A hs, m : m.mac # Mac1(hs.s, InitFields(m)) => ConsumeInitiation(hs, m) = Refused(hs)
BY DEF ConsumeResponse, ConsumeInitiation

\* What mac1 covers, it shows.
LEMMA MacShows ==
  ASSUME NEW p, NEW q, NEW a, NEW b, NEW c, NEW d, NEW e, NEW a2, NEW b2, NEW c2, NEW d2, NEW e2,
         Mac1(p, <<a, b, c, d, e>>) = Mac1(q, <<a2, b2, c2, d2, e2>>)
  PROVE  p = q /\ a = a2 /\ b = b2 /\ c = c2 /\ d = d2 /\ e = e2
<1>1. p = q /\ <<a, b, c, d, e>> = <<a2, b2, c2, d2, e2>>
  BY DEF Mac1
<1> QED  BY <1>1

\* A mac1 is damaged where the key is.
Broken(mac) == [mac EXCEPT ![1] = "damaged"]

\* It is not a mac1 under any key of the two ends.
LEMMA BrokenShows ==
  ASSUME NEW p, NEW x, NEW s, NEW y, s # "damaged"
  PROVE  Broken(Mac1(p, x)) # Mac1(s, y)
<1>1. Broken(Mac1(p, x))[1] = "damaged"
  BY DEF Broken, Mac1
<1>2. Mac1(s, y)[1] = s
  BY DEF Mac1
<1> QED  BY <1>1, <1>2

\* Damage to a response shows in its mac1.
LEMMA ResponseDamageShows ==
  ASSUME NEW i \in Nat, NEW j \in Nat, NEW f, NEW q, NEW r, r # "damaged", NEW s, s # "damaged",
         NEW d \in DamagedResponse(RespMsg(i, f, q, j, r))
  PROVE  d.mac # Mac1(s, ResponseFields(d))
<1> DEFINE b == EmptyBox(f, r, q)
           x == [b EXCEPT !.plain = "damaged"]
           t == Mac1("I", <<2, j, i, r, b>>)
           M(ty, ix, rc, ep, em, mc) ==
             [type |-> ty, index |-> ix, receiver |-> rc, eph |-> ep, empty |-> em, mac |-> mc]
<1>1. x # b
  BY DEF EmptyBox, Box
<1> HIDE DEF b, x, t
<1>2. \/ d = M(102, j, i, r, b, t) \/ d = M(2, j + 100, i, r, b, t)
      \/ d = M(2, j, i + 100, r, b, t) \/ d = M(2, j, i, "damaged", b, t)
      \/ d = M(2, j, i, r, x, t) \/ d = M(2, j, i, r, b, Broken(t))
  BY DEF DamagedResponse, RespMsg, b, x, t, Broken
<1>3. ASSUME NEW ty, NEW ix, NEW rc, NEW ep, NEW em, NEW mc, d = M(ty, ix, rc, ep, em, mc)
      PROVE  d.mac = mc /\ ResponseFields(d) = <<ty, ix, rc, ep, em>>
  BY <1>3 DEF ResponseFields
<1>4. ASSUME NEW ty, NEW ix, NEW rc, NEW ep, NEW em, d = M(ty, ix, rc, ep, em, t),
             d.mac = Mac1(s, ResponseFields(d))
      PROVE  ty = 2 /\ ix = j /\ rc = i /\ ep = r /\ em = b
  <2>1. Mac1("I", <<2, j, i, r, b>>) = Mac1(s, <<ty, ix, rc, ep, em>>)
    BY <1>3, <1>4 DEF t
  <2> QED  BY <2>1, MacShows
<1>5. CASE d = M(2, j, i, r, b, Broken(t))
  <2>1. d.mac = Broken(t)
    BY <1>3, <1>5
  <2> HIDE DEF M
  <2> QED  BY <2>1, BrokenShows DEF t
<1> HIDE DEF M
<1>6. 102 # 2 /\ j + 100 # j /\ i + 100 # i
  OBVIOUS
<1> QED  BY <1>1, <1>2, <1>4, <1>5, <1>6

\* So does damage to an initiation.
LEMMA InitDamageShows ==
  ASSUME NEW i \in Nat, NEW e, e # "damaged", NEW s, s # "damaged",
         NEW d \in DamagedInit(InitMsg(i, e))
  PROVE  d.mac # Mac1(s, InitFields(d))
<1> DEFINE a == StaticBox(e)
           b == StampBox(e)
           x == [a EXCEPT !.plain = "damaged"]
           y == [b EXCEPT !.plain = "damaged"]
           t == Mac1("R", <<1, i, e, a, b>>)
           M(ty, ix, ep, st, sp, mc) ==
             [type |-> ty, index |-> ix, eph |-> ep, static |-> st, stamp |-> sp, mac |-> mc]
<1>1. x # a
  BY DEF StaticBox, Box
<1>2. y # b
  BY DEF StampBox, Box
<1> HIDE DEF a, b, x, y, t
<1>3. \/ d = M(101, i, e, a, b, t) \/ d = M(1, i + 100, e, a, b, t)
      \/ d = M(1, i, "damaged", a, b, t) \/ d = M(1, i, e, x, b, t)
      \/ d = M(1, i, e, a, y, t) \/ d = M(1, i, e, a, b, Broken(t))
  BY DEF DamagedInit, InitMsg, a, b, x, y, t, Broken
<1>4. ASSUME NEW ty, NEW ix, NEW ep, NEW st, NEW sp, NEW mc, d = M(ty, ix, ep, st, sp, mc)
      PROVE  d.mac = mc /\ InitFields(d) = <<ty, ix, ep, st, sp>>
  BY <1>4 DEF InitFields
<1>5. ASSUME NEW ty, NEW ix, NEW ep, NEW st, NEW sp, d = M(ty, ix, ep, st, sp, t),
             d.mac = Mac1(s, InitFields(d))
      PROVE  ty = 1 /\ ix = i /\ ep = e /\ st = a /\ sp = b
  <2>1. Mac1("R", <<1, i, e, a, b>>) = Mac1(s, <<ty, ix, ep, st, sp>>)
    BY <1>4, <1>5 DEF t
  <2> QED  BY <2>1, MacShows
<1>6. CASE d = M(1, i, e, a, b, Broken(t))
  <2>1. d.mac = Broken(t)
    BY <1>4, <1>6
  <2> HIDE DEF M
  <2> QED  BY <2>1, BrokenShows DEF t
<1> HIDE DEF M
<1>7. 101 # 1 /\ i + 100 # i
  OBVIOUS
<1> QED  BY <1>1, <1>2, <1>3, <1>5, <1>6, <1>7

\* A message that was damaged is refused, and changes nothing.
LEMMA DamageHarmless ==
  ASSUME NoiseInv
  PROVE  DamageIsHarmless
<1>1. ASSUME NEW a \in answers, NEW d \in DamagedResponse(a.msg)
      PROVE  ConsumeResponse(pending, d) = Refused(pending)
  <2>1. PICK i \in Indices, j \in Indices, f \in InitKeys, r \in AnswerKeys :
          a.msg = RespMsg(i, f, peer_psk, j, r)
    BY AnswerIs
  <2>2. i \in Nat /\ j \in Nat /\ r # "damaged"
    BY NoiseAssumption
  <2>3. pending.s # "damaged"
    BY DEF NoiseInv
  <2>4. d.mac # Mac1(pending.s, ResponseFields(d))
    BY <1>1, <2>1, <2>2, <2>3, ResponseDamageShows
  <2> QED  BY <2>4, MacFirst
<1>2. ASSUME NEW m \in inits, NEW d \in DamagedInit(m)
      PROVE  ~ ConsumeInitiation(Begin("R", "none", peer_psk, 0), d).ok
  <2>1. PICK i \in Indices, e \in InitKeys : m = InitMsg(i, e)
    BY DEF NoiseInv, InitsMade
  <2>2. i \in Nat /\ e # "damaged"
    BY NoiseAssumption
  <2> DEFINE hs == Begin("R", "none", peer_psk, 0)
  <2>3. hs.s = "R"
    BY DEF Begin
  <2> HIDE DEF hs
  <2>4. d.mac # Mac1(hs.s, InitFields(d))
    BY <1>2, <2>1, <2>2, <2>3, InitDamageShows
  <2>5. ConsumeInitiation(hs, d) = Refused(hs)
    BY <2>4, MacFirst
  <2>6. ~ ConsumeInitiation(hs, d).ok
    BY <2>5 DEF Refused
  <2> QED  BY <2>6 DEF hs
<1> QED  BY <1>1, <1>2 DEF DamageIsHarmless

-----------------------------------------------------------------------------
(* Transport *)

Packet(hs, counter, n) ==
  [masked |-> FALSE, index |-> hs.remote, counter |-> counter,
   body |-> Box(hs.send, counter, Zero, n), len |-> S4 + TRANSPORT_HDR + Padded(n) + AEAD_TAG]

\* The rest of a packet stays when its mark changes.
LEMMA Remarked ==
  \A a, b, c, d, x, y :
    [[masked |-> x, index |-> a, counter |-> b, body |-> c, len |-> d] EXCEPT !.masked = y]
      = [masked |-> y, index |-> a, counter |-> b, body |-> c, len |-> d]
OBVIOUS

\* Masking twice is not masking at all, and does not touch what is behind the header.
LEMMA MaskTwice ==
  ASSUME NEW hs, NEW counter, NEW n
  PROVE  LET P == Packet(hs, counter, n)
         IN Mask(Mask(P)) = P /\ Mask(P).len = P.len
<1> DEFINE P == Packet(hs, counter, n)
<1>1. CASE ~header_protection
  BY <1>1 DEF Mask
<1>2. CASE header_protection
  <2> DEFINE a == hs.remote
             b == counter
             c == Box(hs.send, counter, Zero, n)
             d == S4 + TRANSPORT_HDR + Padded(n) + AEAD_TAG
  <2>1. PICK x \in BOOLEAN : x = FALSE
    OBVIOUS
  <2>2. P = [masked |-> x, index |-> a, counter |-> b, body |-> c, len |-> d]
    BY <2>1, Zenon DEF Packet
  <2> HIDE DEF a, b, c, d
  <2>3. PICK y \in BOOLEAN : y = ~x
    BY <2>1
  <2>4. x = ~y
    BY <2>1, <2>3
  <2> DEFINE q == [masked |-> y, index |-> a, counter |-> b, body |-> c, len |-> d]
  <2> HIDE DEF P
  <2>5. [P EXCEPT !.masked = y] = q /\ [q EXCEPT !.masked = x] = P
    BY <2>2, Remarked
  <2>6. q.len = P.len /\ P.masked = x /\ q.masked = y
    BY <2>2
  <2> HIDE DEF q
  <2>7. Mask(P) = [P EXCEPT !.masked = y]
    BY <1>2, <2>3, <2>6 DEF Mask
  <2>8. Mask(q) = [q EXCEPT !.masked = x]
    BY <1>2, <2>4, <2>6 DEF Mask
  <2> QED  BY <2>5, <2>6, <2>7, <2>8 DEF P
<1> QED  BY <1>1, <1>2

\* A payload is padded to a multiple of 16.
LEMMA PaddedIs == \A n \in Nat : Padded(n) \in Nat
<1> SUFFICES ASSUME NEW n \in Nat PROVE Padded(n) \in Nat
  OBVIOUS
<1>1. (n + 15) \div 16 \in Nat
  OBVIOUS
<1> QED  BY <1>1 DEF Padded

\* A packet is opened by the keypair whose index and key it has, if there is room, and is
\* left as it was by every other.
LEMMA OpenedIs ==
  ASSUME NEW hs, NEW k, NEW counter, NEW n \in Nat
  PROVE  TransportOpen(k, TransportSeal(hs, counter, n))
           = IF hs.remote = k.local /\ hs.send = k.recv /\ Padded(n) <= PayloadCap
             THEN [plain |-> Padded(n), pkt |-> Packet(hs, counter, n)]
             ELSE [plain |-> -1, pkt |-> TransportSeal(hs, counter, n)]
<1> DEFINE P   == Packet(hs, counter, n)
           pkt == TransportSeal(hs, counter, n)
           G   == hs.remote = k.local /\ hs.send = k.recv /\ Padded(n) <= PayloadCap
<1>1. pkt = Mask(P)
  BY DEF TransportSeal, Packet
<1>2. Mask(pkt) = P /\ pkt.len = P.len
  BY <1>1, MaskTwice
<1>3. S4 \in Nat /\ Padded(n) \in Nat /\ TRANSPORT_HDR = 16 /\ AEAD_TAG = 16
  BY NoiseAssumption, PaddedIs DEF TRANSPORT_HDR, AEAD_TAG
<1>4. /\ P.len = S4 + TRANSPORT_HDR + Padded(n) + AEAD_TAG /\ ~P.masked /\ P.index = hs.remote
      /\ P.counter = counter /\ P.body = Box(hs.send, counter, Zero, n)
  BY DEF Packet
<1> HIDE DEF P, pkt
<1>5. /\ ~ (pkt.len < S4 + TRANSPORT_HDR + AEAD_TAG)
      /\ P.len - S4 - TRANSPORT_HDR - AEAD_TAG = Padded(n)
  <2> DEFINE s == S4
             p == Padded(n)
             len == P.len
  <2>1. s \in Nat /\ p \in Nat /\ len = s + 16 + p + 16
    BY <1>3, <1>4
  <2> HIDE DEF s, p, len
  <2>2. ~ (len < s + 16 + 16) /\ len - s - 16 - 16 = p
    BY <2>1
  <2> QED  BY <2>2, <1>2, <1>3 DEF s, p, len
<1>6. Opens(P.body, k.recv, P.counter, Zero) <=> hs.send = k.recv
  BY <1>4 DEF Opens, Box
<1>7. Accepts(k, P) <=> G
  BY <1>4, <1>5, <1>6 DEF Accepts
<1> HIDE DEF G
<1>8. TransportOpen(k, pkt)
        = IF G THEN [plain |-> Padded(n), pkt |-> P] ELSE [plain |-> -1, pkt |-> pkt]
  BY <1>1, <1>2, <1>5, <1>7 DEF TransportOpen
<1> QED  BY <1>8 DEF G, P, pkt

\* A keypair has the keys of one answer only.
LEMMA OneAnswer ==
  ASSUME NoiseInv, NEW a \in answers, NEW b \in answers,
         a.hs.send = b.hs.send \/ a.hs.recv = b.hs.recv
  PROVE  a = b
<1>1. PICK i \in Indices, j \in Indices, f \in InitKeys, r \in AnswerKeys :
        a.msg.eph = r /\ a.hs = RespHs(i, f, peer_psk, j, r)
  BY AnswerIs
<1>2. PICK i2 \in Indices, j2 \in Indices, f2 \in InitKeys, r2 \in AnswerKeys :
        b.msg.eph = r2 /\ b.hs = RespHs(i2, f2, peer_psk, j2, r2)
  BY AnswerIs
<1>3. \/ RespKey(f, r, peer_psk, 2) = RespKey(f2, r2, peer_psk, 2)
      \/ RespKey(f, r, peer_psk, 1) = RespKey(f2, r2, peer_psk, 1)
  <2>1. /\ a.hs.send = RespKey(f, r, peer_psk, 2) /\ a.hs.recv = RespKey(f, r, peer_psk, 1)
    BY <1>1, AnswerHs
  <2>2. /\ b.hs.send = RespKey(f2, r2, peer_psk, 2) /\ b.hs.recv = RespKey(f2, r2, peer_psk, 1)
    BY <1>2, AnswerHs
  <2> QED  BY <2>1, <2>2
<1>4. r = r2
  BY <1>3, KeysDiffer
<1> QED  BY <1>1, <1>2, <1>4 DEF NoiseInv, AnswersMade

\* What the keypair of an answer opens, and what is opened with its keys.
LEMMA KeypairOpens ==
  ASSUME NoiseInv, NEW a \in answers, NEW k, NEW b \in answers, Mirrors(k, b.hs)
  PROVE  /\ a.hs.remote = k.local /\ a.hs.send = k.recv <=> Mirrors(k, a.hs)
         /\ k.remote = a.hs.local /\ k.send = a.hs.recv <=> Mirrors(k, a.hs)
<1>1. ASSUME a.hs.send = k.recv \/ k.send = a.hs.recv PROVE a = b
  BY <1>1, OneAnswer DEF Mirrors
<1> QED  BY <1>1 DEF Mirrors

\* The keypairs are tried one after the other on the same bytes, and one of them, or none,
\* opens what an answer seals.
LEMMA Tried ==
  ASSUME NoiseInv, NEW a \in answers, NEW n \in Nat, NEW counter
  PROVE  LET pkt  == TransportSeal(a.hs, counter, n)
             ours == {hs \in cur \cup prev : Mirrors(hs, a.hs)}
         IN OpenWithEither(pkt)
              = IF ours # {} /\ Padded(n) <= PayloadCap
                THEN [plain |-> Padded(n), pkt |-> Packet(a.hs, counter, n)]
                ELSE [plain |-> -1, pkt |-> pkt]
<1> DEFINE pkt  == TransportSeal(a.hs, counter, n)
           ours == {hs \in cur \cup prev : Mirrors(hs, a.hs)}
           won  == [plain |-> Padded(n), pkt |-> Packet(a.hs, counter, n)]
           none == [plain |-> -1, pkt |-> pkt]
           fits == Padded(n) <= PayloadCap
           Try(first, hs) == IF first.plain >= 0 THEN first ELSE TransportOpen(hs, first.pkt)
           one  == IF cur = {} THEN none ELSE Try(none, CHOOSE hs \in cur : TRUE)
<1>1. won.plain >= 0 /\ ~(none.plain >= 0) /\ none.pkt = pkt
  BY PaddedIs
<1>2. ASSUME NEW k, NEW b \in answers, Mirrors(k, b.hs)
      PROVE  TransportOpen(k, pkt) = IF Mirrors(k, a.hs) /\ fits THEN won ELSE none
  <2>1. TransportOpen(k, pkt)
          = IF a.hs.remote = k.local /\ a.hs.send = k.recv /\ fits THEN won ELSE none
    BY OpenedIs
  <2>2. a.hs.remote = k.local /\ a.hs.send = k.recv <=> Mirrors(k, a.hs)
    BY <1>2, KeypairOpens
  <2> HIDE DEF won, none, fits, pkt
  <2> QED  BY <2>1, <2>2
<1>3. OpenWithEither(pkt) = IF prev = {} THEN one ELSE Try(one, CHOOSE hs \in prev : TRUE)
  BY DEF OpenWithEither
<1> HIDE DEF won, none, fits, pkt
<1>4. Paired(cur) /\ Paired(prev)
  BY DEF NoiseInv
<1>5. one = IF (\E k \in cur : Mirrors(k, a.hs)) /\ fits THEN won ELSE none
  <2>1. CASE cur = {}
    BY <2>1
  <2>2. CASE cur # {}
    <3>1. PICK k : cur = {k} /\ \E b \in answers : Mirrors(k, b.hs)
      BY <2>2, <1>4 DEF Paired
    <3>2. (CHOOSE hs \in cur : TRUE) = k
      BY <3>1
    <3>3. one = TransportOpen(k, pkt)
      BY <2>2, <3>2, <1>1
    <3> HIDE DEF one
    <3> QED  BY <3>1, <3>3, <1>2
  <2> QED  BY <2>1, <2>2
<1> HIDE DEF one
<1>6. CASE prev = {}
  <2>1. ours # {} <=> \E k \in cur : Mirrors(k, a.hs)
    BY <1>6
  <2> HIDE DEF ours
  <2>2. OpenWithEither(pkt) = IF ours # {} /\ fits THEN won ELSE none
    BY <2>1, <1>3, <1>5, <1>6
  <2> QED  BY <2>2 DEF ours, won, none, fits, pkt
<1>7. CASE prev # {}
  <2>1. PICK p : prev = {p} /\ \E b \in answers : Mirrors(p, b.hs)
    BY <1>4, <1>7 DEF Paired
  <2>2. (CHOOSE hs \in prev : TRUE) = p
    BY <2>1
  <2>3. ours # {} <=> (\E k \in cur : Mirrors(k, a.hs)) \/ Mirrors(p, a.hs)
    BY <2>1
  <2>4. OpenWithEither(pkt) = Try(one, p)
    BY <1>3, <1>7, <2>2
  <2>5. TransportOpen(p, pkt) = IF Mirrors(p, a.hs) /\ fits THEN won ELSE none
    BY <1>2, <2>1
  <2> HIDE DEF ours
  <2>6. OpenWithEither(pkt) = IF ours # {} /\ fits THEN won ELSE none
    BY <1>1, <1>5, <2>3, <2>4, <2>5
  <2> QED  BY <2>6 DEF ours, won, none, fits, pkt
<1> QED  BY <1>6, <1>7

\* Data finds its keypair, in both directions.
LEMMA TransportsAgree ==
  ASSUME NoiseInv
  PROVE  TransportAgrees
<1> SUFFICES ASSUME NEW a \in answers, NEW n \in NoiseLens, NEW counter \in 0..1
             PROVE  LET pkt  == TransportSeal(a.hs, counter, n)
                        got  == OpenWithEither(pkt)
                        ours == {hs \in cur \cup prev : Mirrors(hs, a.hs)}
                    IN /\ IF ours # {} /\ Padded(n) <= PayloadCap
                          THEN got.plain = Padded(n) ELSE got.plain = -1 /\ got.pkt = pkt
                       /\ \A hs \in cur :
                            LET open == TransportOpen(a.hs, TransportSeal(hs, counter, n))
                            IN open.plain >= 0 <=> hs \in ours /\ Padded(n) <= PayloadCap
  BY DEF TransportAgrees
<1> DEFINE pkt  == TransportSeal(a.hs, counter, n)
           ours == {hs \in cur \cup prev : Mirrors(hs, a.hs)}
           got  == OpenWithEither(pkt)
           fits == Padded(n) <= PayloadCap
<1>1. n \in Nat /\ Padded(n) \in Nat
  BY NoiseAssumption, PaddedIs
<1>2. IF ours # {} /\ fits THEN got.plain = Padded(n) ELSE got.plain = -1 /\ got.pkt = pkt
  <2>1. got = IF ours # {} /\ fits
              THEN [plain |-> Padded(n), pkt |-> Packet(a.hs, counter, n)]
              ELSE [plain |-> -1, pkt |-> pkt]
    BY <1>1, Tried
  <2> HIDE DEF ours, fits, got, pkt
  <2> QED  BY <2>1
<1>3. ASSUME NEW hs \in cur
      PROVE  TransportOpen(a.hs, TransportSeal(hs, counter, n)).plain >= 0 <=> hs \in ours /\ fits
  <2>1. PICK b \in answers : Mirrors(hs, b.hs)
    BY DEF NoiseInv, Paired
  <2>2. hs.remote = a.hs.local /\ hs.send = a.hs.recv <=> hs \in ours
    BY <2>1, KeypairOpens
  <2> DEFINE open == TransportOpen(a.hs, TransportSeal(hs, counter, n))
             yes  == [plain |-> Padded(n), pkt |-> Packet(hs, counter, n)]
             no   == [plain |-> -1, pkt |-> TransportSeal(hs, counter, n)]
  <2>3. open = IF hs.remote = a.hs.local /\ hs.send = a.hs.recv /\ fits THEN yes ELSE no
    BY <1>1, OpenedIs
  <2>4. yes.plain >= 0 /\ ~(no.plain >= 0)
    BY <1>1
  <2> HIDE DEF open, yes, no, ours, fits
  <2>5. open.plain >= 0 <=> hs \in ours /\ fits
    BY <2>2, <2>3, <2>4
  <2> QED  BY <2>5 DEF open
<1> QED  BY <1>2, <1>3

\* Both ends of the handshake agree on who they talk to and with which keys, and data finds
\* its keypair: for any number of attempts and answers, any indices, any payloads.
THEOREM EndsAlwaysAgree == NoiseSpec => []EndsAgree
<1>1. NoiseInv => EndsAgree
  BY HandshakesAgree, DamageHarmless, TransportsAgree DEF EndsAgree
<1> QED  BY <1>1, NoiseInvariant, PTL

=============================================================================
