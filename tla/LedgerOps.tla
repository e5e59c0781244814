------------------------------ MODULE LedgerOps ------------------------------
(***************************************************************************)
(* The ledger of the store, seen one entry at a time.                      *)
(*                                                                         *)
(* ledger.jsonl is an append-only file of JSON lines.  Every line names    *)
(* one entry and one operation, and replaying the file (audit._replay)     *)
(* treats the lines of different entries independently: all it keeps is a  *)
(* map from entry to its list of events and its state.  So the ledger is   *)
(* modelled as one sequence of operations per entry.                       *)
(***************************************************************************)
EXTENDS Naturals, Sequences

Operations ==
  {"trash", "restore", "purge_intent", "purge_complete", "purge_failed"}

\* "none" is an entry that no valid trash event has created.
Phases == {"none", "active", "restored", "purge_pending", "purged"}

\* The state that an operation's record carries and that replay moves to.
PhaseAfter(op) ==
  CASE op = "trash"          -> "active"
    [] op = "restore"        -> "restored"
    [] op = "purge_intent"   -> "purge_pending"
    [] op = "purge_complete" -> "purged"
    [] op = "purge_failed"   -> "active"
    [] OTHER                 -> "none"

PhaseOf(h) == IF h = << >> THEN "none" ELSE PhaseAfter(h[Len(h)])

\* Replay accepts b directly after a for the same entry.
Enables(a, b) ==
  \/ /\ a \in {"trash", "purge_failed"}
     /\ b \in {"restore", "purge_intent"}
  \/ /\ a = "purge_intent"
     /\ b \in {"purge_complete", "purge_failed"}

CanFollow(h, op) ==
  IF h = << >> THEN op = "trash" ELSE Enables(h[Len(h)], op)

\* No event of the history h is an impossible transition.
ValidHistory(h) ==
  \A i \in 1..Len(h) :
    IF i = 1 THEN h[1] = "trash" ELSE Enables(h[i - 1], h[i])
==============================================================================
