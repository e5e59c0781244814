---------------------------- MODULE MCLedgerFile ----------------------------
(***************************************************************************)
(* Small instances of LedgerFile for TLC.                                  *)
(***************************************************************************)
EXTENDS LedgerFile
==============================================================================
