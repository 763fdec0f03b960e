----------------------------- MODULE AwgChannel -----------------------------
(***************************************************************************)
(* What a session promises its caller, whatever timers, retries, windows   *)
(* and lost datagrams are involved:                                        *)
(*   - every keypair is fresh when it becomes the current one;             *)
(*   - no nonce, that is no counter under one keypair, seals two datagrams;*)
(*   - no datagram of the peer is delivered twice, and none under a        *)
(*     keypair that was given up;                                          *)
(*   - at most the current keypair and the one before it decrypt.          *)
(*                                                                         *)
(* A nonce is a pair <<keypair, counter>>.  sealed and delivered are the   *)
(* nonces used and received so far; seals and deliveries count the         *)
(* operations, so an operation that repeats a nonce is no stuttering step. *)
(***************************************************************************)
EXTENDS Integers

VARIABLES
  key,          \* the current keypair, 0 when there is none
  held,         \* the keypairs that can decrypt
  ever,         \* the keypairs that were current at some time
  sealed, seals,
  delivered, deliveries

vars == <<key, held, ever, sealed, seals, delivered, deliveries>>

Init ==
  /\ key = 0
  /\ held = {} /\ ever = {}
  /\ sealed = {} /\ seals = 0
  /\ delivered = {} /\ deliveries = 0

\* A handshake completes: a keypair never used before takes over, and of the
\* ones held only the keypair it replaces may stay.
Establish ==
  /\ key' \notin ever \cup {0}
  /\ ever' = ever \cup {key'}
  /\ held' = {key'} \cup (IF key = 0 THEN {} ELSE {key})
  /\ UNCHANGED <<sealed, seals, delivered, deliveries>>

Seal ==
  /\ key # 0
  /\ \E n \in sealed' \ sealed : n[1] = key /\ sealed' = sealed \cup {n}
  /\ seals' = seals + 1
  /\ UNCHANGED <<key, held, ever, delivered, deliveries>>

Deliver ==
  /\ held' \subseteq held
  /\ \E n \in delivered' \ delivered :
       n[1] \in held' /\ delivered' = delivered \cup {n}
  /\ deliveries' = deliveries + 1
  /\ UNCHANGED <<key, ever, sealed, seals>>

\* The keypair before the current one is given up.
Forget ==
  /\ held' = {key}
  /\ UNCHANGED <<key, ever, sealed, seals, delivered, deliveries>>

\* The session is thrown away with all its keys.
Close ==
  /\ key' = 0
  /\ held' = {}
  /\ UNCHANGED <<ever, sealed, seals, delivered, deliveries>>

Next == Establish \/ Seal \/ Deliver \/ Forget \/ Close

Spec == Init /\ [][Next]_vars
=============================================================================
