---------------------------- MODULE ReplayWindow ----------------------------
(***************************************************************************)
(* The anti-replay window of awg_session.c: the highest counter accepted   *)
(* so far and a bitmap of the counters just below it.  The C code keeps    *)
(* the bitmap in a uint64_t; here it is the set of the positions whose bit *)
(* is set, position p standing for the counter max - p.                    *)
(***************************************************************************)
EXTENDS Integers

CONSTANT REPLAY_WINDOW       \* 64 in the code

ASSUME WindowAssumption == REPLAY_WINDOW \in Nat \ {0}

Positions == 0 .. REPLAY_WINDOW - 1

Window == [max : Nat, bits : SUBSET Positions]

EmptyWindow == [max |-> 0, bits |-> {}]

\* *bits << n, the bits pushed past the word's end being lost.
ShiftLeft(bits, n) == {p \in Positions : p - n \in bits}

\* The window is one counter too narrow.
ReplayOk_Narrow(w, ctr) ==
  \/ ctr > w.max
  \/ /\ w.max - ctr < REPLAY_WINDOW - 1
     /\ w.max - ctr \notin w.bits

\* The verdict of replay_ok(): newer than everything accepted, or close enough
\* behind and not marked yet.
ReplayOk(w, ctr) ==
  \/ ctr > w.max
  \/ /\ w.max - ctr < REPLAY_WINDOW
     /\ w.max - ctr \notin w.bits

\* What replay_ok() leaves in the window when it accepts ctr.
ReplayMark(w, ctr) ==
  IF ctr > w.max
  THEN LET shift == ctr - w.max
       IN  [max  |-> ctr,
            bits |-> (IF shift >= REPLAY_WINDOW THEN {} ELSE ShiftLeft(w.bits, shift))
                     \cup {0}]
  ELSE [w EXCEPT !.bits = @ \cup {w.max - ctr}]

(***************************************************************************)
(* What the bitmap stands for.  An ideal window remembers every counter it *)
(* accepted, and refuses one only if it accepted it before or accepted one *)
(* REPLAY_WINDOW or more above it.                                         *)
(***************************************************************************)
IdealOk(seen, ctr) ==
  /\ ctr \notin seen
  /\ \A d \in seen : d - ctr < REPLAY_WINDOW

Represents(w, seen) ==
  /\ \A c \in seen : c <= w.max
  /\ w.max \in seen \cup {0}
  /\ seen # {} => w.max \in seen
  /\ \A p \in Positions : p \in w.bits <=> w.max - p \in seen
=============================================================================
