---------------------------- MODULE MCAwgProxy ----------------------------
(* Small instances of AwgProxy for TLC. *)
EXTENDS AwgProxy, TLC

\* The elements of the pool are interchangeable.
PcbSymmetry == Permutations(Pcbs)
=============================================================================
