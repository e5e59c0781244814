------------------------------ MODULE Lifecycle ------------------------------
(***************************************************************************)
(* What the store promises, independently of processes, locks, failures    *)
(* and file names: the order in which the ledger and the payload of one    *)
(* entry may change.                                                       *)
(*                                                                         *)
(* A payload is taken before its trash event is recorded and released      *)
(* before its restore event is recorded; a purge records its intent before *)
(* anything is destroyed and its completion only when nothing is left.     *)
(* "restored" and "purged" are terminal.                                   *)
(***************************************************************************)
CONSTANT Entry

VARIABLES
  phase,     \* phase[e] is the state the ledger gives to e
  held       \* the entries whose object directory holds a payload

vars == <<phase, held>>

Init ==
  /\ phase = [e \in Entry |-> "none"]
  /\ held  = {}

Record(e, from, to) ==
  /\ phase[e] \in from
  /\ phase' = [phase EXCEPT ![e] = to]
  /\ UNCHANGED held

(* What the ledger records.                                                *)
Trash(e)    == e \in held    /\ Record(e, {"none"}, "active")
Restore(e)  == e \notin held /\ Record(e, {"active"}, "restored")
Intend(e)   == e \in held    /\ Record(e, {"active"}, "purge_pending")
Abandon(e)  == e \in held    /\ Record(e, {"purge_pending"}, "active")
Complete(e) == e \notin held /\ Record(e, {"purge_pending"}, "purged")

(* What happens to the payload.                                            *)
Take(e) ==
  /\ phase[e] = "none" /\ e \notin held
  /\ held' = held \cup {e}
  /\ UNCHANGED phase

\* Out of the trash to a path: a restore, or a trash that is rolled back.
Release(e) ==
  /\ phase[e] \in {"none", "active"} /\ e \in held
  /\ held' = held \ {e}
  /\ UNCHANGED phase

\* A restore that is rolled back.  Its event may have reached the ledger
\* although the append was reported as failed.
Return(e) ==
  /\ phase[e] \in {"active", "restored"} /\ e \notin held
  /\ held' = held \cup {e}
  /\ UNCHANGED phase

Destroy(e) ==
  /\ phase[e] = "purge_pending" /\ e \in held
  /\ held' = held \ {e}
  /\ UNCHANGED phase

Next ==
  \E e \in Entry :
    \/ Trash(e) \/ Restore(e) \/ Intend(e) \/ Abandon(e) \/ Complete(e)
    \/ Take(e) \/ Release(e) \/ Return(e) \/ Destroy(e)

Spec == Init /\ [][Next]_vars
==============================================================================
