---------------------------- MODULE MCStorageInit ----------------------------
(***************************************************************************)
(* Small instances of StorageInit for TLC.                                 *)
(***************************************************************************)
EXTENDS StorageInit, TLC

CONSTANTS p1, p2

Symmetry == Permutations(Proc)
==============================================================================
