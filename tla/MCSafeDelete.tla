---------------------------- MODULE MCSafeDelete ----------------------------
(***************************************************************************)
(* Small instances of SafeDelete for TLC.                                  *)
(***************************************************************************)
EXTENDS SafeDelete, TLC

CONSTANTS p1, p2, a, b, d1, f1, f2, e1, e2

Symmetry == Permutations(Proc) \cup Permutations(Entry)
==============================================================================
