--------------------------- MODULE MCHookDecision ---------------------------
(***************************************************************************)
(* Small instances of HookDecision for TLC.                                *)
(***************************************************************************)
EXTENDS HookDecision

CONSTANTS p1, claude, cursor, settings, hooks, c1

MCEventKey == [h \in Hosts |-> IF h = claude THEN "PreToolUse" ELSE "preToolUse"]
MCHome     == [h \in Hosts |-> IF h = claude THEN settings ELSE hooks]
=============================================================================
