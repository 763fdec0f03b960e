------------------------------ MODULE AwgNoise ------------------------------
(***************************************************************************)
(* The handshake and the transport framing of awg_noise.c, with both ends: *)
(* the session is the initiator and keeps its current and its previous     *)
(* keypair, the responder answers with the same code.                      *)
(*                                                                         *)
(* Cryptography is symbolic.  A public key is named by its private key, a  *)
(* shared secret is the set of the two, a hash and a chaining key are the  *)
(* sequences of what was mixed into them, and a box opens under the key,   *)
(* the nonce and the associated data it was sealed with.  Left out: the    *)
(* failures of x25519, which the configured key decides, and the padding   *)
(* and masking of whole messages (awg_wrap, awg_unwrap).                   *)
(***************************************************************************)
EXTENDS Integers, Sequences

CONSTANTS
  Indices,             \* local indices, drawn at random
  InitKeys,            \* the ephemeral keys of initiations, one for each
  AnswerKeys,          \* the ephemeral keys of responses, one for each
  MaxSpoils,           \* refused responses that change the chain of one attempt
  NoiseLens,           \* payload lengths
  S4,                  \* padding of data, at least 12
  PayloadCap           \* room for a payload

ASSUME NoiseAssumption ==
  /\ Indices \subseteq Nat /\ NoiseLens \subseteq Nat
  /\ MaxSpoils \in Nat /\ S4 \in Nat /\ PayloadCap \in Nat
  /\ "damaged" \notin InitKeys \cup AnswerKeys

VARIABLES
  header_protection,   \* have_header_protection, of both ends
  peer_psk,            \* what the responder has for a preshared key
  pending, handshaking,
  cur, prev,           \* sets of at most one keypair
  inits,               \* the initiations that are on the way, for good
  answers,             \* history: the responses, with what they answer and the keys they mean
  spoiled              \* history: how many refused responses have changed pending

noiseVars == <<header_protection, peer_psk, pending, handshaking, cur, prev, inits, answers,
               spoiled>>

-----------------------------------------------------------------------------
(* Primitives *)

Dh(priv, pub) == {priv, pub}

MixHash(hs, data) == [hs EXCEPT !.h = Append(@, data)]
MixKey(hs, data)  == [hs EXCEPT !.ck = Append(@, data)]

\* The n-th output of the kdf whose first output is the chaining key.
Kdf(hs, n) == <<n, hs.ck>>

Box(key, nonce, ad, plain) == [key |-> key, nonce |-> nonce, ad |-> ad, plain |-> plain]

Opens(box, key, nonce, ad) == box.key = key /\ box.nonce = nonce /\ box.ad = ad

\* mac1, over all of a message but itself, keyed on the receiver's key.
Mac1(pub, fields) == <<pub, fields>>

InitFields(m)     == <<m.type, m.index, m.eph, m.static, m.stamp>>
ResponseFields(m) == <<m.type, m.index, m.receiver, m.eph, m.empty>>

\* What becomes of a message when one of its fields is damaged on the way.
DamagedInit(m) ==
  {[m EXCEPT !.type = @ + 100], [m EXCEPT !.index = @ + 100], [m EXCEPT !.eph = "damaged"],
   [m EXCEPT !.static.plain = "damaged"], [m EXCEPT !.stamp.plain = "damaged"],
   [m EXCEPT !.mac[1] = "damaged"]}

DamagedResponse(m) ==
  {[m EXCEPT !.type = @ + 100], [m EXCEPT !.index = @ + 100], [m EXCEPT !.receiver = @ + 100],
   [m EXCEPT !.eph = "damaged"], [m EXCEPT !.empty.plain = "damaged"],
   [m EXCEPT !.mac[1] = "damaged"]}

-----------------------------------------------------------------------------
(* The handshake *)

Zero == <<>>

\* awg_handshake_begin.
Begin(s, peer, psk, local) ==
  [s |-> s, peer |-> peer, psk |-> psk, local |-> local, e |-> "none", peer_eph |-> "none",
   remote |-> 0, ck |-> Zero, h |-> Zero, send |-> Zero, recv |-> Zero]

ChainStart(hs, responder) ==
  [hs EXCEPT !.ck = <<{"construction"}>>, !.h = <<"construction", "identifier", responder>>]

\* The secret of a and b is mixed into the chain, and what the key seals into the hash.
SealNext(hs, dh, plain) ==
  LET m == MixKey(hs, dh)
  IN Box(Kdf(m, 2), 0, hs.h, plain)

AfterBox(hs, dh, box) == MixHash(MixKey(hs, dh), box)

AfterEph(hs, eph) == MixHash(MixKey(hs, {eph}), eph)

CreateInitiation(hs, e) ==
  LET a      == AfterEph([ChainStart(hs, hs.peer) EXCEPT !.e = e], e)
      static == SealNext(a, Dh(e, hs.peer), hs.s)
      b      == AfterBox(a, Dh(e, hs.peer), static)
      stamp  == SealNext(b, Dh(hs.s, hs.peer), "stamp")
  IN [hs  |-> AfterBox(b, Dh(hs.s, hs.peer), stamp),
      msg |-> [type |-> 1, index |-> hs.local, eph |-> e, static |-> static, stamp |-> stamp,
               mac |-> Mac1(hs.peer, <<1, hs.local, e, static, stamp>>)]]

Refused(hs) == [ok |-> FALSE, hs |-> hs]

\* On the responder's side; the initiator's key is in the message.  What a refused message
\* leaves of the handshake is of no use to anyone: it is begun anew for the next one.
ConsumeInitiation(hs, in) ==
  LET a    == AfterEph([ChainStart(hs, hs.s) EXCEPT !.remote = in.index, !.peer_eph = in.eph],
                       in.eph)
      es   == Dh(hs.s, in.eph)
      b    == [AfterBox(a, es, in.static) EXCEPT !.peer = in.static.plain]
      ss   == Dh(hs.s, b.peer)
  IN IF \/ in.type # 1 \/ in.mac # Mac1(hs.s, InitFields(in))
        \/ ~ Opens(in.static, Kdf(MixKey(a, es), 2), 0, a.h)
        \/ ~ Opens(in.stamp, Kdf(MixKey(b, ss), 2), 0, b.h)
     THEN Refused(hs)
     ELSE [ok |-> TRUE, hs |-> AfterBox(b, ss, in.stamp)]

\* Two secrets and the preshared key; what both ends do with the responder's ephemeral key.
MixAnswer(hs, eph, ee, se) ==
  LET a == MixKey(MixKey(MixKey(AfterEph(hs, eph), ee), se), {hs.psk})
  IN MixHash(a, Kdf(a, 2))

\* The last two keys, from a chain into which nothing more is mixed.
FinalKey(hs, n) == Kdf(MixKey(hs, {}), n)

CreateResponse(hs, e) ==
  LET a     == MixAnswer([hs EXCEPT !.e = e], e, Dh(e, hs.peer_eph), Dh(e, hs.peer))
      empty == Box(Kdf(a, 3), 0, a.h, "empty")
      b     == MixHash(a, empty)
  IN [hs  |-> [b EXCEPT !.recv = FinalKey(b, 1), !.send = FinalKey(b, 2)],
      msg |-> [type |-> 2, index |-> hs.local, receiver |-> hs.remote, eph |-> e,
               empty |-> empty,
               mac |-> Mac1(hs.peer, <<2, hs.local, hs.remote, e, empty>>)]]

\* What fails after mac1 was checked leaves the chain changed.
ConsumeResponse(hs, in) ==
  LET a == MixAnswer([hs EXCEPT !.remote = in.index, !.peer_eph = in.eph],
                     in.eph, Dh(hs.e, in.eph), Dh(hs.s, in.eph))
      b == MixHash(a, in.empty)
  IN IF \/ in.type # 2 \/ in.receiver # hs.local
        \/ in.mac # Mac1(hs.s, ResponseFields(in)) THEN Refused(hs)
     ELSE IF ~ Opens(in.empty, Kdf(a, 3), 0, a.h) THEN Refused(a)
     ELSE [ok |-> TRUE, hs |-> [b EXCEPT !.send = FinalKey(b, 1), !.recv = FinalKey(b, 2)]]

-----------------------------------------------------------------------------
(* Transport *)

TRANSPORT_HDR == 16
AEAD_TAG == 16

\* The first padding bytes are the nonce of the mask; masking twice is not masking at all.
Mask(pkt) == IF header_protection THEN [pkt EXCEPT !.masked = ~ @] ELSE pkt

Padded(n) == ((n + 15) \div 16) * 16

TransportSeal(hs, counter, n) ==
  Mask([masked |-> FALSE, index |-> hs.remote, counter |-> counter,
        body |-> Box(hs.send, counter, Zero, n),
        len |-> S4 + TRANSPORT_HDR + Padded(n) + AEAD_TAG])

\* A header that is still masked does not match.
Accepts(hs, pkt) ==
  /\ ~ pkt.masked /\ pkt.index = hs.local
  /\ pkt.len - S4 - TRANSPORT_HDR - AEAD_TAG <= PayloadCap
  /\ Opens(pkt.body, hs.recv, pkt.counter, Zero)

\* A mutant: the header stays as it is when a packet is rejected.
TransportOpenUnrestored(hs, pkt) ==
  LET q == Mask(pkt)
  IN IF pkt.len < S4 + TRANSPORT_HDR + AEAD_TAG THEN [plain |-> -1, pkt |-> pkt]
     ELSE IF ~ Accepts(hs, q) THEN [plain |-> -1, pkt |-> q]
     ELSE [plain |-> q.len - S4 - TRANSPORT_HDR - AEAD_TAG, pkt |-> q]

\* The header is masked again when a packet is rejected, for the next key to try it.
TransportOpen(hs, pkt) ==
  LET q == Mask(pkt)
  IN IF pkt.len < S4 + TRANSPORT_HDR + AEAD_TAG THEN [plain |-> -1, pkt |-> pkt]
     ELSE IF ~ Accepts(hs, q) THEN [plain |-> -1, pkt |-> Mask(q)]
     ELSE [plain |-> q.len - S4 - TRANSPORT_HDR - AEAD_TAG, pkt |-> q]

\* The current keypair, and then the previous one on what is left of the packet.
OpenWithEither(pkt) ==
  LET try(first, hs) == IF first.plain >= 0 THEN first ELSE TransportOpen(hs, first.pkt)
      none == [plain |-> -1, pkt |-> pkt]
      one  == IF cur = {} THEN none ELSE try(none, CHOOSE hs \in cur : TRUE)
  IN IF prev = {} THEN one ELSE try(one, CHOOSE hs \in prev : TRUE)

-----------------------------------------------------------------------------
NoiseInit ==
  /\ header_protection \in BOOLEAN /\ peer_psk \in {"psk", "other"}
  /\ pending = Begin("I", "R", "psk", 0) /\ handshaking = FALSE
  /\ cur = {} /\ prev = {} /\ inits = {} /\ answers = {} /\ spoiled = 0

\* A key that has not been drawn yet: keys are random, and which one it is makes no
\* difference.
Drawn(keys, used) == CHOOSE k \in keys : k \notin used

\* awg_session_build_initiation: an attempt, or another one that gives up the one before.
Initiate ==
  LET used == {m.eph : m \in inits}
  IN /\ InitKeys \ used # {}
     /\ \E i \in Indices :
          LET c == CreateInitiation(Begin("I", "R", "psk", i), Drawn(InitKeys, used))
          IN pending' = c.hs /\ inits' = inits \cup {c.msg}
  /\ handshaking' = TRUE /\ spoiled' = 0
  /\ UNCHANGED <<header_protection, peer_psk, cur, prev, answers>>

\* The responder answers an initiation, or answers it again.
Respond ==
  LET used == {a.msg.eph : a \in answers}
  IN /\ AnswerKeys \ used # {}
     /\ \E m \in inits, i \in Indices :
          LET c == ConsumeInitiation(Begin("R", "none", peer_psk, i), m)
              r == CreateResponse(c.hs, Drawn(AnswerKeys, used))
          IN c.ok /\ answers' = answers \cup {[init |-> m, msg |-> r.msg, hs |-> r.hs]}
  /\ UNCHANGED <<header_protection, peer_psk, pending, handshaking, cur, prev, inits, spoiled>>

\* awg_session_on_datagram, a response: to this attempt or to one that was given up.
OnResponse ==
  /\ handshaking /\ spoiled < MaxSpoils
  /\ \E a \in answers :
       LET c == ConsumeResponse(pending, a.msg)
       IN /\ pending' = c.hs
          /\ handshaking' = ~ c.ok
          /\ cur'  = IF c.ok THEN {c.hs} ELSE cur
          /\ prev' = IF c.ok THEN cur ELSE prev
          /\ spoiled' = IF c.ok \/ c.hs = pending THEN spoiled ELSE spoiled + 1
  /\ UNCHANGED <<header_protection, peer_psk, inits, answers>>

\* The previous keypair is given up when its time is over.
ForgetPrevious ==
  /\ prev # {} /\ prev' = {}
  /\ UNCHANGED <<header_protection, peer_psk, pending, handshaking, cur, inits, answers, spoiled>>

NoiseNext == Initiate \/ Respond \/ OnResponse \/ ForgetPrevious

NoiseSpec == NoiseInit /\ [][NoiseNext]_noiseVars

-----------------------------------------------------------------------------
(* Properties *)

Mirrors(hs, peer) ==
  hs.send = peer.recv /\ hs.recv = peer.send /\ hs.remote = peer.local /\ peer.remote = hs.local

\* A response that is accepted leaves both ends with the same keys the other way round, and
\* is never one to another initiation or under another preshared key.  The response to this
\* initiation is accepted, unless one to an earlier initiation with the same index came
\* first and spoiled the chain.
HandshakeAgrees ==
  handshaking =>
    \A a \in answers :
      LET c == ConsumeResponse(pending, a.msg)
      IN /\ c.ok => Mirrors(c.hs, a.hs)
         /\ c.ok <=> a.init.eph = pending.e /\ peer_psk = "psk" /\ spoiled = 0

\* A message that was damaged in any field changes nothing and is not answered: the intact
\* one can still complete the handshake (mac1 is checked before the chain is touched).
DamageIsHarmless ==
  /\ \A a \in answers : \A d \in DamagedResponse(a.msg) :
       ConsumeResponse(pending, d) = Refused(pending)
  /\ \A m \in inits : \A d \in DamagedInit(m) :
       ~ ConsumeInitiation(Begin("R", "none", peer_psk, 0), d).ok

\* What the responder seals is opened by the keypair it is for, though the other one is
\* tried on the same bytes first, and by none if there is none: then the packet is as it
\* was.  What the session seals is opened by the responder it has the keys from.
TransportAgrees ==
  \A a \in answers, n \in NoiseLens, counter \in 0..1 :
    LET pkt  == TransportSeal(a.hs, counter, n)
        got  == OpenWithEither(pkt)
        ours == {hs \in cur \cup prev : Mirrors(hs, a.hs)}
    IN /\ IF ours # {} /\ Padded(n) <= PayloadCap
          THEN got.plain = Padded(n) ELSE got.plain = -1 /\ got.pkt = pkt
       /\ \A hs \in cur :
            LET open == TransportOpen(a.hs, TransportSeal(hs, counter, n))
            IN open.plain >= 0 <=> hs \in ours /\ Padded(n) <= PayloadCap

\* Both ends of the handshake agree on who they talk to and with which keys, and data finds
\* its keypair, across retries, late responses, equal indices and damaged messages.
EndsAgree == HandshakeAgrees /\ DamageIsHarmless /\ TransportAgrees
=============================================================================
