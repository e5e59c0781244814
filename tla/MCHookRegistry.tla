--------------------------- MODULE MCHookRegistry ---------------------------
(***************************************************************************)
(* Small instances of HookRegistry for TLC.                                *)
(***************************************************************************)
EXTENDS HookRegistry, TLC

CONSTANTS p1, p2, claude, cursor, settings, hooks

Symmetry   == Permutations(Procs)
MCEventKey == [h \in Hosts |-> IF h = claude THEN "PreToolUse" ELSE "preToolUse"]
MCHome     == [h \in Hosts |-> IF h = claude THEN settings ELSE hooks]
=============================================================================
