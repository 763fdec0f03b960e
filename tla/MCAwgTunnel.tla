---------------------------- MODULE MCAwgTunnel ----------------------------
(* Small instances of AwgTunnel for TLC. *)
EXTENDS AwgTunnel

Exactly(n) == [min |-> n, max |-> n]

\* Timers as short as the clock allows, in their order in the defaults.
MCCfg ==
  [rekey_after_time |-> Exactly(3), reject_after_time |-> Exactly(4),
   rekey_timeout |-> Exactly(1), persistent_keepalive |-> Exactly(2),
   s2 |-> 0, s4 |-> 0]
=============================================================================
