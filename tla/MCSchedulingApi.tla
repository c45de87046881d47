--------------------------- MODULE MCSchedulingApi ---------------------------
(* Calls are interchangeable in the safety runs, and so are ids. *)
EXTENDS SchedulingApi, TLC

CONSTANTS c1, c2, c3, i1, i2

Symmetry == Permutations({c1, c2, c3})
=============================================================================
