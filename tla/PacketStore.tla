---------------------------- MODULE PacketStore -----------------------------
(***************************************************************************)
(* What the packet buffers promise their users, with no pbuf in sight: a   *)
(* holder has a string of bytes or nothing, and what is done through one   *)
(* holder is never seen through another.                                   *)
(*                                                                         *)
(*   in    the packet on its way up through ip4_input and tcp_input        *)
(*   oos   a segment that is kept out of order (pcb->ooseq)                *)
(*   rx    what the application on the console has still to be given       *)
(*   out, rest   segments that wait to be acknowledged                     *)
(***************************************************************************)
EXTENDS Sequences, Naturals

CONSTANTS
  Arriving,            \* packets of the tunnel, each a sequence of bytes
  Written,             \* what the application writes
  Headers,             \* the bytes put in front of a segment that is sent
  IP_HLEN

VARIABLES
  packet,              \* holder -> sequence of bytes, or Nothing
  gave                 \* what left in this step, for the tunnel or the application

storeVars == <<packet, gave>>

Nothing == <<"nothing">>

Holders == {"in", "oos", "rx", "out", "rest"}

Empty(h) == packet[h] = Nothing

First(s, n) == SubSeq(s, 1, n)

Without(s, n) == SubSeq(s, n + 1, Len(s))

StoreInit == packet = [h \in Holders |-> Nothing] /\ gave = <<>>

\* Nothing is seen of the step in the packets of the other holders.
Only(hs) == \A h \in Holders \ hs : packet'[h] = packet[h]

Fronts(s, least) == {First(s, n) : n \in least..Len(s)}

\* A packet comes in, without its header and what follows its end.
Arrive ==
  /\ Empty("in") /\ gave' = <<>> /\ Only({"in"})
  /\ packet'["in"] \in UNION {{Without(f, IP_HLEN) : f \in Fronts(s, IP_HLEN)} : s \in Arriving}

CutFront ==
  /\ ~ Empty("in") /\ gave' = <<>> /\ Only({"in"})
  /\ packet'["in"] \in {Without(packet["in"], n) : n \in 0..Len(packet["in"])}

CutBack ==
  /\ gave' = <<>>
  /\ \E h \in {"in", "oos"} :
       ~ Empty(h) /\ Only({h}) /\ packet'[h] \in Fronts(packet[h], 0)

Keep ==
  /\ Empty("oos") /\ ~ Empty("in") /\ gave' = <<>> /\ Only({"in", "oos"})
  /\ packet'["oos"] \in Fronts(packet["in"], 0) /\ packet'["in"] = Nothing

Bytes(h) == IF Empty(h) THEN <<>> ELSE packet[h]

\* The packet, and perhaps the one kept out of order, behind what was received before.
Deliver ==
  /\ ~ Empty("in") /\ gave' = <<>> /\ packet'["in"] = Nothing
  /\ \/ Only({"in", "rx"}) /\ packet'["rx"] = Bytes("rx") \o packet["in"]
     \/ /\ ~ Empty("oos") /\ packet'["oos"] = Nothing /\ Only({"in", "rx", "oos"})
        /\ packet'["rx"] = Bytes("rx") \o packet["in"] \o packet["oos"]

Give ==
  /\ ~ Empty("rx") /\ Only({"rx"})
  /\ gave' \o (IF packet'["rx"] = Nothing THEN <<>> ELSE packet'["rx"]) = packet["rx"]

\* The packet goes back as it came.
Echo ==
  /\ ~ Empty("in") /\ gave' # <<>> /\ Only({"in"}) /\ packet'["in"] = Nothing
  /\ \E s \in Arriving : gave' = First(s, IP_HLEN) \o packet["in"]

Write ==
  /\ Empty("out") /\ gave' = <<>> /\ Only({"out"})
  /\ packet'["out"] \in Written

Send ==
  /\ gave' # <<>> /\ Only({})
  /\ \E h \in {"out", "rest"} : ~ Empty(h) /\ gave' = Headers \o packet[h]

Split ==
  /\ ~ Empty("out") /\ Empty("rest") /\ gave' = <<>> /\ Only({"out", "rest"})
  /\ packet'["out"] \o packet'["rest"] = packet["out"]
  /\ packet'["out"] # <<>> /\ packet'["rest"] # <<>>

Discard ==
  /\ gave' = <<>>
  /\ \A h \in Holders : packet'[h] = packet[h] \/ packet'[h] = Nothing

StoreNext ==
  Arrive \/ CutFront \/ CutBack \/ Keep \/ Deliver \/ Give \/ Echo \/ Write \/ Send \/ Split
  \/ Discard

StoreSpec == StoreInit /\ [][StoreNext]_storeVars
=============================================================================
