------------------------------- MODULE MCAudit -------------------------------
(***************************************************************************)
(* Small instances of Audit for TLC.                                       *)
(***************************************************************************)
EXTENDS Audit, TLC

CONSTANTS e1, e2, i1, i2, i3, file, directory

Symmetry == Permutations(Entry) \cup Permutations(Event) \cup Permutations(Kinds)
==============================================================================
