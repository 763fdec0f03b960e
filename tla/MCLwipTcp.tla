----------------------------- MODULE MCLwipTcp -----------------------------
(***************************************************************************)
(* LwipTcp with two-byte segments, sequence numbers that wrap in the first *)
(* bytes of both streams, and six loads: an upload into windows that       *)
(* close, reopen and are too small for a segment; one into windows that    *)
(* close and hold a segment; a download that fills the window out of       *)
(* order; a shorter one that ends with a FIN; a byte each way with both    *)
(* FINs; and a byte up with one call that fails, where the timers are      *)
(* watched.                                                                *)
(***************************************************************************)
EXTENDS LwipTcp

Load(u, d, c, w, n, t) ==
  [up |-> u, down |-> d, closes |-> c, wnds |-> w, faults |-> n, watched |-> t]

MCLoads == {Load(3, 0, FALSE, {0, 1}, 0, FALSE), Load(2, 0, FALSE, {0, 2}, 0, FALSE),
            Load(0, 3, FALSE, {2}, 0, FALSE), Load(0, 2, TRUE, {2}, 0, FALSE),
            Load(1, 1, TRUE, {1}, 0, FALSE), Load(1, 0, FALSE, {0, 1}, 1, TRUE)}
=============================================================================
