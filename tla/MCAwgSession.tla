--------------------------- MODULE MCAwgSession ---------------------------
(***************************************************************************)
(* Small instances of AwgSession for TLC, one for each load: many counters *)
(* under two keypairs, or many handshakes and few counters.                *)
(***************************************************************************)
EXTENDS AwgSession

Exactly(n) == [min |-> n, max |-> n]

\* Padding lengths of plain WireGuard: no data datagram is as long as an answer.
MCCfg ==
  [rekey_after_time |-> Exactly(1), reject_after_time |-> Exactly(3),
   rekey_timeout |-> Exactly(1), persistent_keepalive |-> Exactly(1),
   s2 |-> 0, s4 |-> 0]

VARIABLE load

\* What a step may lead to.
Within ==
  CASE load = "counters" -> begun' <= 2 /\ seals' = 0 /\ pending'.idx = 0
    [] load = "keys"     -> \A n \in accepted' : n[2] = 0

LoadedInit == Init /\ load \in {"counters", "keys"}
LoadedNext == Next /\ Within /\ UNCHANGED load
LoadedSpec == LoadedInit /\ [][LoadedNext]_<<load, vars>>
=============================================================================
