-------------------------- MODULE MCRestoreParents --------------------------
(***************************************************************************)
(* Small instances of RestoreParents for TLC.                              *)
(***************************************************************************)
EXTENDS RestoreParents

CONSTANTS f1, d1
=============================================================================
