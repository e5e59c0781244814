--------------------------- MODULE PayloadProofs ---------------------------
(***************************************************************************)
(* Proofs about where the payloads of SafeDelete are: that the store       *)
(* implements Lifecycle, that no object is lost, that reports are true,    *)
(* and that the audit sees what there is to see.                           *)
(*                                                                         *)
(* SafeDeleteProofs shows what a process at work knows of the ledger.      *)
(* Here it is shown to know, at every label, in which of the object        *)
(* directory and the staging area the payload is.                          *)
(***************************************************************************)
EXTENDS SafeDeleteProofs, FiniteSetTheorems

USE ConstantsAssumption

\* Where the payload is of the entry that a process works on.
Placed(p) ==
  /\ pc[p] \in {"unbox", "verify", "publish", "record", "recheck", "putback",
                "unstage", "reclaim"} => box[job[p].entry] = Empty
  /\ pc[p] = "complete" => box[job[p].entry] = None
  /\ pc[p] \in {"intend", "remove", "abandon"} => box[job[p].entry] \in Obj
  /\ pc[p] \in {"publish", "unstage"} => staged[job[p].entry] \in Obj
  /\ pc[p] \in {"verify", "record", "recheck", "putback", "reclaim", "complete"} =>
       staged[job[p].entry] = None

\* What is known of its ledger lines and of what was last said of it when
\* something failed.
Told(p) ==
  /\ pc[p] = "rmdir" => hist[job[p].entry] = << >>
  /\ pc[p] \in {"undo", "unbox"} => Phase(job[p].entry) \in {"none", "active"}
  /\ pc[p] \in {"recheck", "putback"} => Phase(job[p].entry) \in {"active", "restored"}
  /\ pc[p] = "unstage" => Phase(job[p].entry) = "active"
  /\ pc[p] \in {"recheck", "putback"} => said[job[p].entry] \notin {"restored", "purged"}

\* A purge never leaves damage behind, and no unfinished purge either, but for
\* the entry it works on and the candidates still to come.
Sweeping(p) ==
  /\ pc[p] \in Purging => ~torn /\ \A e \in Entry \ {job[p].entry} : EntryClean(e)
  /\ pc[p] \in {"purge", "intend", "remove", "abandon"} => AuditClean
  /\ pc[p] \in Purging => \A e \in Entry : Phase(e) = "purge_pending" =>
       e \in job[p].cand \/ (pc[p] # "purge" /\ e = job[p].entry)

\* A payload in the staging area is missing from its object directory.
Stranded(e) == staged[e] # None => Phase(e) = "active" /\ box[e] \notin Obj

Reported(e) ==
  /\ said[e] = "trashed"  => Phase(e) # "none"
  /\ said[e] = "restored" => Phase(e) = "restored" /\ box[e] = Empty
  /\ said[e] = "purged"   => Phase(e) = "purged" /\ box[e] = None

PInv ==
  /\ IInv
  /\ \A p \in Proc : Placed(p) /\ Told(p) /\ Sweeping(p)
  /\ \A e \in Entry : Stranded(e) /\ Reported(e)

\* No object is in two places, and it is in one as long as it exists.
Lone ==
  /\ \A x, y \in Path : file[x] = file[y] /\ file[x] # None => x = y
  /\ \A x, y \in Entry : box[x] = box[y] /\ box[x] \in Obj => x = y
  /\ \A x, y \in Entry : staged[x] = staged[y] /\ staged[x] # None => x = y
  /\ \A x \in Path, e \in Entry :
       file[x] # None => file[x] # box[e] /\ file[x] # staged[e]
  /\ \A x, y \in Entry : box[x] \in Obj => box[x] # staged[y]

Somewhere(o) ==
  \/ \E x \in Path : file[x] = o
  \/ \E e \in Entry : box[e] = o \/ staged[e] = o

CInv == Lone /\ \A o \in Obj : Alive(o) <=> Somewhere(o)

\* Nothing but the commands themselves has touched anything.
Undisturbed == crashes = 0 /\ faults = 0 /\ edits = 0

\* Labels at which the entry that a process works on would fail an audit.
Halfway == {"append", "verify", "publish", "record", "unstage", "reclaim", "complete"}

Steady(p) ==
  /\ pc[p] \notin {"undo", "unbox", "recheck", "putback"}
  /\ ~torn
  /\ \A e \in Entry : EntryClean(e) \/ (pc[p] \in Halfway /\ e = job[p].entry)
  /\ pc[p] \in {"move", "rename", "verify"} => file[job[p].path] = job[p].seen
  /\ pc[p] = "place" => box[job[p].entry] = job[p].seen
  /\ pc[p] = "append" => box[job[p].entry] = taken[job[p].entry]
  /\ pc[p] \in {"publish", "unstage"} =>
       KindOf(staged[job[p].entry]) = KindOf(taken[job[p].entry])

\* Who has the lock is at work, and then nobody reads.
LInv ==
  /\ lock # None => readers = {}
  /\ \A p \in Proc : lock = p => Holds(p)

UInv ==
  /\ LInv
  /\ Undisturbed =>
       /\ lock = None => AuditClean
       /\ \A p \in Proc : Holds(p) => Steady(p)

-----------------------------------------------------------------------------
(***************************************************************************)
(* Steps in general.                                                       *)
(***************************************************************************)

Elsewhere(p) == \A q \in Proc \ {p} : pc'[q] = pc[q] /\ job'[q] = job[q]

\* Nothing changes of which any process knows anything.
Quiet == UNCHANGED <<box, staged, hist, torn, taken, said>>

\* Of the entries, only e is changed.
Only(e) ==
  \A x \in Entry \ {e} :
    /\ box'[x] = box[x] /\ staged'[x] = staged[x] /\ hist'[x] = hist[x]
    /\ taken'[x] = taken[x] /\ said'[x] = said[x]

\* Labels at which a process needs to know nothing of the payload.
Indifferent ==
  Waiting \cup Reading \cup
  {"audit", "token", "done", "add", "move", "rename", "append", "open", "place", "stage"}

LEMMA Moves ==
  ASSUME TypeOK, NEW p \in Proc, NEW l, NEW j, Goto(p, l),
         (UNCHANGED job /\ j = job[p]) \/ Store(p, j)
  PROVE  pc'[p] = l /\ job'[p] = j /\ Elsewhere(p)
BY DEF TypeOK, Goto, Store, Elsewhere

LEMMA NothingToKnow ==
  ASSUME NEW p \in Proc, pc'[p] \in Indifferent
  PROVE  Placed(p)' /\ Told(p)' /\ Sweeping(p)'
<1>1. Placed(p)'
  BY DEF Placed, Indifferent, Waiting, Reading
<1>2. Told(p)'
  BY DEF Told, Indifferent, Waiting, Reading
<1>3. Sweeping(p)'
  BY DEF Sweeping, Purging, Indifferent, Waiting, Reading
<1> QED BY <1>1, <1>2, <1>3

\* A process that does not hold the lock knows nothing.
LEMMA WaitersKnowNothing ==
  ASSUME NEW q \in Proc, ~Holds(q), pc'[q] = pc[q]
  PROVE  Placed(q)' /\ Told(q)' /\ Sweeping(q)'
<1>1. pc'[q] \in Indifferent
  BY DEF Holds, Indifferent
<1> QED BY <1>1, NothingToKnow

LEMMA UntouchedIsClean ==
  ASSUME NEW e \in Entry, box'[e] = box[e], hist'[e] = hist[e], taken'[e] = taken[e]
  PROVE  /\ Phase(e)' = Phase(e)
         /\ EntryClean(e)' <=> EntryClean(e)
BY DEF EntryClean, Expected, Phase

LEMMA QuietPInv ==
  ASSUME PInv, IInv', NEW p \in Proc, Elsewhere(p), Quiet,
         Placed(p)', Told(p)', Sweeping(p)'
  PROVE  PInv'
<1>1. ASSUME NEW e \in Entry PROVE Stranded(e)' /\ Reported(e)'
  <2>1. Stranded(e) /\ Reported(e)
    BY DEF PInv
  <2> QED BY <2>1 DEF Quiet, Stranded, Reported, Phase
<1>2. ASSUME NEW q \in Proc \ {p} PROVE Placed(q)' /\ Told(q)' /\ Sweeping(q)'
  <2>1. pc'[q] = pc[q] /\ job'[q] = job[q]
    BY DEF Elsewhere
  <2>2. Placed(q) /\ Told(q) /\ Sweeping(q)
    BY DEF PInv
  <2>3. Placed(q)'
    BY <2>1, <2>2 DEF Placed, Quiet
  <2>4. Told(q)'
    BY <2>1, <2>2 DEF Told, Quiet, Phase
  <2>5. /\ \A e \in Entry : Phase(e)' = Phase(e) /\ (EntryClean(e)' <=> EntryClean(e))
        /\ torn' = torn
    BY UntouchedIsClean DEF Quiet
  <2>6. Sweeping(q)'
    BY <2>1, <2>2, <2>5 DEF Sweeping, AuditClean
  <2> QED BY <2>3, <2>4, <2>6
<1> QED BY <1>1, <1>2 DEF PInv

\* A step of the process that holds the lock on the entry it works on.
LEMMA TouchPInv ==
  ASSUME PInv, IInv', NEW p \in Proc, Holds(p), Elsewhere(p), NEW e \in Entry, Only(e),
         Placed(p)', Told(p)', Sweeping(p)', Stranded(e)', Reported(e)'
  PROVE  PInv'
<1>1. ASSUME NEW x \in Entry \ {e} PROVE Stranded(x)' /\ Reported(x)'
  <2>1. Stranded(x) /\ Reported(x)
    BY DEF PInv
  <2> QED BY <2>1 DEF Only, Stranded, Reported, Phase
<1>2. ASSUME NEW q \in Proc \ {p} PROVE Placed(q)' /\ Told(q)' /\ Sweeping(q)'
  <2>1. ~Holds(q)
    BY DEF PInv, IInv, Locked
  <2> QED BY <2>1, WaitersKnowNothing DEF Elsewhere
<1> QED BY <1>1, <1>2 DEF PInv

-----------------------------------------------------------------------------
(***************************************************************************)
(* Steps that change nothing of which a process knows anything.            *)
(***************************************************************************)

\* An invocation, the lock, the audit.
LEMMA StartsPInv ==
  ASSUME PInv, IInv', NEW p \in Proc,
         \/ BeginCommand(p) \/ AcquireExclusive(p) \/ AcquireShared(p)
         \/ AuditRefuses(p) \/ Release(p) \/ CheckToken(p) \/ StartAdd(p)
         \/ StartRestore(p) \/ EndPreview(p)
  PROVE  PInv'
<1>1. TypeOK
  BY DEF PInv, IInv
<1>2. /\ Quiet /\ Elsewhere(p)
      /\ pc'[p] \in {"wait", "token", "audit", "read", "done", "idle", "add", "open"}
  <2>1. CASE BeginCommand(p)
    <3>1. PICK j : Begin(p, j)
      BY <2>1 DEF BeginCommand, BeginAdd, BeginRestore, BeginPurge, BeginEmpty,
                  BeginPreview, BeginList
    <3> QED BY <1>1, <3>1, Moves DEF Begin, Quiet, store
  <2>2. CASE AcquireExclusive(p) \/ AcquireShared(p)
    BY <1>1, <2>2, Moves DEF AcquireExclusive, AcquireShared, Quiet, store
  <2>3. CASE AuditRefuses(p) \/ CheckToken(p) \/ StartAdd(p) \/ StartRestore(p) \/ EndPreview(p)
    BY <1>1, <2>3, Moves DEF AuditRefuses, CheckToken, StartAdd, StartRestore, EndPreview,
                             Quiet, store
  <2>4. CASE Release(p)
    BY <1>1, <2>4, Moves DEF Release, Unlock, Quiet, store
  <2> QED BY <2>1, <2>2, <2>3, <2>4
<1>3. pc'[p] \in Indifferent
  BY <1>2 DEF Indifferent, Waiting, Reading
<1> QED BY <1>2, <1>3, NothingToKnow, QuietPInv

\* An input that is refused or given up, and a command that ends.
LEMMA EndsPInv ==
  ASSUME PInv, IInv', NEW p \in Proc,
         \/ AddRefuse(p) \/ AddFinish(p) \/ AddRmdirFails(p) \/ AddUndoFails(p)
         \/ RestoreOpen(p) \/ RestoreOpenStaged(p) \/ RestoreRefuse(p)
         \/ RestoreVerifyFails(p) \/ RestorePutBackFails(p)
         \/ PurgeFinish(p) \/ PurgeReclaimFails(p)
  PROVE  PInv'
<1>1. TypeOK
  BY DEF PInv, IInv
<1>2. Quiet /\ Elsewhere(p) /\ pc'[p] \in {"add", "done", "place", "stage"}
  <2>1. CASE AddRefuse(p)
    BY <1>1, <2>1 DEF AddRefuse, Quiet, store, Elsewhere, Store, At, TypeOK
  <2>2. CASE AddRmdirFails(p) \/ AddUndoFails(p) \/ RestoreOpen(p) \/ RestoreOpenStaged(p)
    BY <1>1, <2>2, Moves DEF AddRmdirFails, AddUndoFails, RestoreOpen, RestoreOpenStaged,
                             Quiet, store
  <2>3. CASE \/ AddFinish(p) \/ RestoreRefuse(p) \/ RestoreVerifyFails(p)
             \/ RestorePutBackFails(p) \/ PurgeFinish(p) \/ PurgeReclaimFails(p)
    BY <1>1, <2>3, Moves DEF AddFinish, RestoreRefuse, Bounce, RestoreVerifyFails,
                             RestorePutBackFails, PurgeFinish, PurgeReclaimFails,
                             Quiet, store
  <2> QED BY <2>1, <2>2, <2>3
<1>3. pc'[p] \in Indifferent
  BY <1>2 DEF Indifferent
<1> QED BY <1>2, <1>3, NothingToKnow, QuietPInv

\* Decisions about the entry at hand.
LEMMA DecidesPInv ==
  ASSUME PInv, IInv', NEW p \in Proc,
         \/ AddCheck(p) \/ AddRenameFails(p) \/ RestoreVerify(p)
         \/ RestorePublishFails(p) \/ RestoreRecheck(p)
  PROVE  PInv'
<1>1. TypeOK /\ Ready(p) /\ Placed(p) /\ Told(p)
  BY DEF PInv, IInv
<1>2. /\ Quiet /\ Elsewhere(p) /\ job'[p] = job[p]
      /\ \/ pc[p] \in {"move", "rename"} /\ pc'[p] \in {"rename", "rmdir"}
         \/ pc[p] = "verify" /\ pc'[p] \in {"record", "done"}
         \/ pc[p] = "publish" /\ pc'[p] = "unstage"
         \/ pc[p] = "recheck" /\ pc'[p] \in {"putback", "done"}
  BY <1>1, Moves DEF AddCheck, AddRenameFails, RestoreVerify, RestorePublishFails,
                     RestoreRecheck, Quiet, store, At
<1>3. Phase(job[p].entry)' = Phase(job[p].entry)
  BY <1>2 DEF Phase, Quiet
<1>4. Placed(p)'
  BY <1>1, <1>2 DEF Placed, Quiet
<1>5. Told(p)'
  BY <1>1, <1>2, <1>3 DEF Told, Ready, Quiet
<1>6. Sweeping(p)'
  BY <1>2 DEF Sweeping, Purging
<1> QED BY <1>2, <1>4, <1>5, <1>6, QuietPInv

\* Steps of the user and of the clock.
LEMMA OutsidePInv ==
  ASSUME PInv, IInv', Quiet, UNCHANGED <<pc, job>>
  PROVE  PInv'
<1>1. ASSUME NEW e \in Entry PROVE Stranded(e)' /\ Reported(e)'
  <2>1. Stranded(e) /\ Reported(e)
    BY DEF PInv
  <2> QED BY <2>1 DEF Quiet, Stranded, Reported, Phase
<1>2. ASSUME NEW q \in Proc PROVE Placed(q)' /\ Told(q)' /\ Sweeping(q)'
  <2>1. Placed(q) /\ Told(q) /\ Sweeping(q)
    BY DEF PInv
  <2>2. /\ \A e \in Entry : Phase(e)' = Phase(e) /\ (EntryClean(e)' <=> EntryClean(e))
        /\ torn' = torn
    BY UntouchedIsClean DEF Quiet
  <2>3. Placed(q)'
    BY <2>1 DEF Placed, Quiet
  <2>4. Told(q)'
    BY <2>1 DEF Told, Quiet, Phase
  <2>5. Sweeping(q)'
    BY <2>1, <2>2 DEF Sweeping, AuditClean
  <2> QED BY <2>3, <2>4, <2>5
<1> QED BY <1>1, <1>2 DEF PInv

-----------------------------------------------------------------------------
(***************************************************************************)
(* Steps that change the ledger or the place of a payload.                 *)
(***************************************************************************)

\* The state that a line, whole or cut short, gives to its entry.
LEMMA LinesWritten ==
  ASSUME IInv, NEW e \in Entry, NEW op \in Operations, CanFollow(hist[e], op)
  PROVE  /\ Appended(e, op) =>
              /\ Phase(e)' = PhaseAfter(op) /\ torn' = torn
              /\ \A x \in Entry \ {e} : hist'[x] = hist[x]
         /\ CutShort(e, op) =>
              /\ Phase(e)' \in {Phase(e), PhaseAfter(op)}
              /\ \A x \in Entry \ {e} : hist'[x] = hist[x]
<1>1. TypeOK /\ HistoriesValid
  BY DEF IInv
<1>2. ASSUME Appended(e, op)
      PROVE  /\ Phase(e)' = PhaseAfter(op) /\ torn' = torn
             /\ \A x \in Entry \ {e} : hist'[x] = hist[x]
  BY <1>1, <1>2, AppendedKeepsHistories DEF Appended, Phase
<1> QED BY <1>2 DEF CutShort, Phase

LEMMA PhasesAfter ==
  /\ PhaseAfter("trash") = "active"
  /\ PhaseAfter("restore") = "restored"
  /\ PhaseAfter("purge_intent") = "purge_pending"
  /\ PhaseAfter("purge_complete") = "purged"
  /\ PhaseAfter("purge_failed") = "active"
BY DEF PhaseAfter

\* The facts about an entry that p is about to change.
LEMMA EntryAtHand ==
  ASSUME PInv, NEW p \in Proc
  PROVE  /\ TypeOK /\ Bound(p) /\ Ready(p) /\ Placed(p) /\ Told(p) /\ Sweeping(p)
         /\ pc[p] \in (Adding \ {"add"}) \cup Restoring \cup (Purging \ {"purge"}) =>
              /\ job[p].entry \in Entry /\ Holds(p)
              /\ Stranded(job[p].entry) /\ Reported(job[p].entry)
<1>1. TypeOK /\ Bound(p) /\ Ready(p) /\ Placed(p) /\ Told(p) /\ Sweeping(p)
  BY DEF PInv, IInv
<1>2. ASSUME pc[p] \in (Adding \ {"add"}) \cup Restoring \cup (Purging \ {"purge"})
      PROVE  job[p].entry \in Entry /\ Holds(p)
  BY <1>1, <1>2 DEF Bound, Holds, Adding, Restoring, Purging, Waiting, Reading
<1> QED BY <1>1, <1>2 DEF PInv

LEMMA AddInspectPInv ==
  ASSUME PInv, IInv', NEW p \in Proc, AddInspect(p)
  PROVE  PInv'
<1>1. PICK x \in job[p].todo, e \in Entry :
        /\ file[x] # None
        /\ FreshEntry(e)
        /\ box' = [box EXCEPT ![e] = Empty]
        /\ Store(p, [job[p] EXCEPT !.todo = @ \ {x}, !.entry = e,
                                   !.path = x, !.seen = file[x]])
  BY DEF AddInspect
<1>2. TypeOK
  BY DEF PInv, IInv
<1>3. pc[p] = "add" /\ Holds(p) /\ pc'[p] = "move" /\ Elsewhere(p)
  BY <1>1, <1>2, Moves DEF AddInspect, At, Holds, Waiting, Reading
<1>4. UNCHANGED <<staged, hist, torn, taken, said>>
  BY DEF AddInspect
<1>5. Only(e) /\ box'[e] = Empty
  BY <1>1, <1>2, <1>4 DEF Only, TypeOK
<1>6. Stranded(e)' /\ Reported(e)'
  <2>1. Stranded(e) /\ Reported(e)
    BY DEF PInv
  <2>2. Phase(e) = "none" /\ Phase(e)' = "none"
    BY <1>1, <1>4 DEF FreshEntry, Phase, PhaseOf
  <2> QED BY <1>4, <1>5, <2>1, <2>2 DEF Stranded, Reported
<1>7. pc'[p] \in Indifferent
  BY <1>3 DEF Indifferent
<1> QED BY <1>3, <1>5, <1>6, <1>7, NothingToKnow, TouchPInv

\* The rename, whatever the comparison after it finds.
LEMMA AddRenamePInv ==
  ASSUME PInv, IInv', NEW p \in Proc, AddRename(p) \/ AddRenameUnverified(p)
  PROVE  PInv'
<1>1. pc[p] = "rename"
  BY DEF AddRename, AddRenameUnverified, At
<1>2. PICK e \in Entry :
        /\ e = job[p].entry
        /\ Holds(p) /\ TypeOK /\ hist[e] = << >> /\ Stranded(e) /\ Reported(e)
  BY <1>1, EntryAtHand DEF Adding, Ready
<1>3. /\ box' = [box EXCEPT ![e] = file[job[p].path]]
      /\ UNCHANGED <<staged, hist, torn, job, said>>
      /\ taken' \in {taken, [taken EXCEPT ![e] = job[p].seen]}
      /\ Goto(p, "append") \/ Goto(p, "rmdir")
  BY <1>2 DEF AddRename, AddRenameUnverified
<1>4. pc'[p] \in {"append", "rmdir"} /\ job'[p] = job[p] /\ Elsewhere(p)
  BY <1>2, <1>3, Moves
<1>5. Only(e)
  BY <1>2, <1>3 DEF Only, TypeOK
<1>6. Phase(e) = "none" /\ Phase(e)' = "none"
  BY <1>2, <1>3 DEF Phase, PhaseOf
<1>7. Stranded(e)' /\ Reported(e)'
  BY <1>2, <1>3, <1>6 DEF Stranded, Reported
<1>8. Placed(p)' /\ Sweeping(p)'
  BY <1>4 DEF Placed, Sweeping, Purging
<1>9. Told(p)'
  BY <1>2, <1>3, <1>4 DEF Told
<1> QED BY <1>2, <1>4, <1>5, <1>7, <1>8, <1>9, TouchPInv

\* The empty object directory goes.
LEMMA AddUnboxesPInv ==
  ASSUME PInv, IInv', NEW p \in Proc, AddRmdir(p) \/ AddUnbox(p)
  PROVE  PInv'
<1>1. pc[p] \in {"rmdir", "unbox"}
  BY DEF AddRmdir, AddUnbox, At
<1>2. PICK e \in Entry :
        /\ e = job[p].entry
        /\ Holds(p) /\ TypeOK /\ Told(p) /\ Stranded(e) /\ Reported(e)
  BY <1>1, EntryAtHand DEF Adding
<1>3. /\ box' = WithoutEmptyBox(e)
      /\ UNCHANGED <<staged, hist, torn, taken>>
      /\ said' = said \/ said' = [said EXCEPT ![e] = "untrashed"]
      /\ Goto(p, "add") /\ Store(p, NextInput(p))
  BY <1>2 DEF AddRmdir, AddUnbox, Say
<1>4. pc'[p] = "add" /\ Elsewhere(p)
  BY <1>2, <1>3, Moves
<1>5. Only(e)
  BY <1>2, <1>3 DEF Only, TypeOK, WithoutEmptyBox
<1>6. Phase(e) \in {"none", "active"} /\ Phase(e)' = Phase(e)
  BY <1>1, <1>2, <1>3 DEF Told, Phase, PhaseOf
<1>7. box'[e] \in Obj => box[e] \in Obj
  BY <1>2, <1>3 DEF WithoutEmptyBox, TypeOK
<1>8. said'[e] \in {said[e], "untrashed"}
  BY <1>2, <1>3 DEF TypeOK
<1>9. Stranded(e)' /\ Reported(e)'
  BY <1>2, <1>3, <1>6, <1>7, <1>8 DEF Stranded, Reported
<1>10. pc'[p] \in Indifferent
  BY <1>4 DEF Indifferent
<1> QED BY <1>2, <1>4, <1>5, <1>9, <1>10, NothingToKnow, TouchPInv

\* The trash event, whole or cut short.
LEMMA AddAppendsPInv ==
  ASSUME PInv, IInv', NEW p \in Proc, AddAppend(p) \/ AddAppendFails(p)
  PROVE  PInv'
<1>1. pc[p] = "append"
  BY DEF AddAppend, AddAppendFails, At
<1>2. PICK e \in Entry :
        /\ e = job[p].entry
        /\ Holds(p) /\ TypeOK /\ IInv
        /\ hist[e] = << >> /\ box[e] \in Obj /\ Stranded(e) /\ Reported(e)
  BY <1>1, EntryAtHand DEF Adding, Ready, PInv
<1>3. Phase(e) = "none" /\ CanFollow(hist[e], "trash") /\ "trash" \in Operations
  BY <1>2 DEF Phase, PhaseOf, CanFollow, Operations
<1>4. UNCHANGED <<box, staged, taken>>
  BY <1>2 DEF AddAppend, AddAppendFails
<1>5. staged[e] = None
  BY <1>2 DEF Stranded
<1>6. CASE AddAppend(p)
  <2>1. /\ pc'[p] = "add" /\ Elsewhere(p)
        /\ said' = [said EXCEPT ![e] = "trashed"] /\ Appended(e, "trash")
    BY <1>2, <1>6, Moves DEF AddAppend, Say
  <2>2. Phase(e)' = "active" /\ \A x \in Entry \ {e} : hist'[x] = hist[x]
    BY <1>2, <1>3, <2>1, LinesWritten, PhasesAfter
  <2>3. Only(e) /\ said'[e] = "trashed"
    BY <1>2, <1>4, <2>1, <2>2 DEF Only, TypeOK
  <2>4. Stranded(e)' /\ Reported(e)'
    BY <1>4, <1>5, <2>2, <2>3 DEF Stranded, Reported
  <2>5. pc'[p] \in Indifferent
    BY <2>1 DEF Indifferent
  <2> QED BY <1>2, <2>1, <2>3, <2>4, <2>5, NothingToKnow, TouchPInv
<1>7. CASE AddAppendFails(p)
  <2>1. /\ pc'[p] = "undo" /\ job'[p] = job[p] /\ Elsewhere(p)
        /\ said' = said /\ CutShort(e, "trash")
    BY <1>2, <1>7, Moves DEF AddAppendFails
  <2>2. Phase(e)' \in {"none", "active"} /\ \A x \in Entry \ {e} : hist'[x] = hist[x]
    BY <1>2, <1>3, <2>1, LinesWritten, PhasesAfter
  <2>3. Only(e)
    BY <1>4, <2>1, <2>2 DEF Only
  <2>4. Stranded(e)' /\ Reported(e)'
    BY <1>2, <1>3, <1>4, <1>5, <2>1, <2>2 DEF Stranded, Reported
  <2>5. Placed(p)' /\ Sweeping(p)'
    BY <2>1 DEF Placed, Sweeping, Purging
  <2>6. Told(p)'
    BY <1>2, <2>1, <2>2 DEF Told, Phase
  <2> QED BY <1>2, <2>1, <2>3, <2>4, <2>5, <2>6, TouchPInv
<1> QED BY <1>6, <1>7

LEMMA AddUndoPInv ==
  ASSUME PInv, IInv', NEW p \in Proc, AddUndo(p)
  PROVE  PInv'
<1>1. pc[p] = "undo"
  BY DEF AddUndo, At
<1>2. PICK e \in Entry :
        /\ e = job[p].entry
        /\ Holds(p) /\ TypeOK /\ box[e] \in Obj
        /\ Phase(e) \in {"none", "active"} /\ Stranded(e) /\ Reported(e)
  BY <1>1, EntryAtHand DEF Adding, Ready, Told
<1>3. /\ box' = [box EXCEPT ![e] = Empty]
      /\ UNCHANGED <<staged, hist, torn, taken, job, said>>
      /\ Goto(p, "unbox")
  BY <1>2 DEF AddUndo
<1>4. pc'[p] = "unbox" /\ job'[p] = job[p] /\ Elsewhere(p)
  BY <1>2, <1>3, Moves
<1>5. Only(e) /\ box'[e] = Empty
  BY <1>2, <1>3 DEF Only, TypeOK
<1>6. Phase(e)' = Phase(e)
  BY <1>3 DEF Phase
<1>7. Stranded(e)' /\ Reported(e)'
  BY <1>2, <1>3, <1>5, <1>6 DEF Stranded, Reported
<1>8. Placed(p)' /\ Sweeping(p)'
  BY <1>2, <1>4, <1>5 DEF Placed, Sweeping, Purging
<1>9. Told(p)'
  BY <1>2, <1>4, <1>6 DEF Told, Phase
<1> QED BY <1>2, <1>4, <1>5, <1>7, <1>8, <1>9, TouchPInv

LEMMA AddPInv ==
  ASSUME PInv, IInv', NEW p \in Proc, Add(p)
  PROVE  PInv'
BY StartsPInv, EndsPInv, DecidesPInv, AddInspectPInv, AddRenamePInv, AddUnboxesPInv,
   AddAppendsPInv, AddUndoPInv DEF Add

\* Into place, or into the staging area.
LEMMA RestoreTakesOutPInv ==
  ASSUME PInv, IInv', NEW p \in Proc,
         RestorePlace(p) \/ RestoreStage(p) \/ RestoreStageUnverified(p)
  PROVE  PInv'
<1>1. pc[p] \in {"place", "stage"}
  BY DEF RestorePlace, RestoreStage, RestoreStageUnverified, At
<1>2. PICK e \in Entry :
        /\ e = job[p].entry
        /\ Holds(p) /\ TypeOK /\ box[e] \in Obj /\ Phase(e) = "active"
        /\ Stranded(e) /\ Reported(e)
  BY <1>1, EntryAtHand DEF Restoring, Ready
<1>3. /\ box' = [box EXCEPT ![e] = Empty]
      /\ UNCHANGED <<hist, torn, taken, job, said>>
      /\ \/ Goto(p, "verify") /\ UNCHANGED staged
         \/ /\ Goto(p, "publish") \/ Goto(p, "done")
            /\ staged' = [staged EXCEPT ![e] = box[e]]
  BY <1>2 DEF RestorePlace, RestoreStage, RestoreStageUnverified
<1>4. job'[p] = job[p] /\ Elsewhere(p)
  BY <1>2, <1>3, Moves
<1>5. Only(e) /\ box'[e] = Empty
  BY <1>2, <1>3 DEF Only, TypeOK
<1>6. \/ pc'[p] = "verify" /\ staged'[e] = None
      \/ pc'[p] \in {"publish", "done"} /\ staged'[e] \in Obj
  <2>1. staged[e] = None
    BY <1>2 DEF Stranded
  <2>2. CASE Goto(p, "verify") /\ UNCHANGED staged
    <3>1. pc'[p] = "verify"
      BY <1>2, <1>3, <2>2, Moves
    <3> QED BY <2>1, <2>2, <3>1
  <2>3. CASE /\ Goto(p, "publish") \/ Goto(p, "done")
             /\ staged' = [staged EXCEPT ![e] = box[e]]
    <3>1. pc'[p] \in {"publish", "done"}
      BY <1>2, <1>3, <2>3, Moves
    <3> QED BY <1>2, <2>3, <3>1 DEF TypeOK
  <2> QED BY <1>3, <2>2, <2>3
<1>7. Phase(e)' = "active"
  BY <1>2, <1>3 DEF Phase
<1>8. Stranded(e)' /\ Reported(e)'
  BY <1>2, <1>3, <1>5, <1>7 DEF Stranded, Reported
<1>9. Placed(p)' /\ Told(p)' /\ Sweeping(p)'
  BY <1>2, <1>4, <1>5, <1>6 DEF Placed, Told, Sweeping, Purging
<1> QED BY <1>2, <1>4, <1>5, <1>8, <1>9, TouchPInv

\* Out of the staging area, to the destination or back.
LEMMA RestoreUnstagesPInv ==
  ASSUME PInv, IInv', NEW p \in Proc, RestorePublish(p) \/ RestoreUnstage(p)
  PROVE  PInv'
<1>1. pc[p] \in {"publish", "unstage"}
  BY DEF RestorePublish, RestoreUnstage, At
<1>2. PICK e \in Entry :
        /\ e = job[p].entry
        /\ Holds(p) /\ TypeOK /\ staged[e] \in Obj /\ box[e] = Empty
        /\ Phase(e) = "active" /\ Stranded(e) /\ Reported(e)
  BY <1>1, EntryAtHand DEF Restoring, Ready, Placed, Told
<1>3. /\ staged' = [staged EXCEPT ![e] = None]
      /\ UNCHANGED <<hist, torn, taken, job>>
      /\ \/ Goto(p, "record") /\ UNCHANGED <<box, said>>
         \/ /\ Goto(p, "done")
            /\ box' = [box EXCEPT ![e] = staged[e]]
            /\ said' = [said EXCEPT ![e] = "unrestored"]
  BY <1>2 DEF RestorePublish, RestoreUnstage, Say
<1>4. job'[p] = job[p] /\ Elsewhere(p)
  BY <1>2, <1>3, Moves
<1>5. Only(e) /\ staged'[e] = None
  BY <1>2, <1>3 DEF Only, TypeOK
<1>6. (pc'[p] = "record" /\ box'[e] = Empty) \/ pc'[p] = "done"
  BY <1>2, <1>3, Moves
<1>7. Phase(e)' = "active"
  BY <1>2, <1>3 DEF Phase
<1>8. said'[e] \in {said[e], "unrestored"}
  BY <1>2, <1>3 DEF TypeOK
<1>9. Stranded(e)' /\ Reported(e)'
  BY <1>2, <1>5, <1>7, <1>8 DEF Stranded, Reported
<1>10. Placed(p)' /\ Told(p)' /\ Sweeping(p)'
  BY <1>2, <1>4, <1>5, <1>6 DEF Placed, Told, Sweeping, Purging
<1> QED BY <1>2, <1>4, <1>5, <1>9, <1>10, TouchPInv

\* The restore event, whole or cut short.
LEMMA RestoreRecordsPInv ==
  ASSUME PInv, IInv', NEW p \in Proc, RestoreRecord(p) \/ RestoreRecordFails(p)
  PROVE  PInv'
<1>1. pc[p] = "record"
  BY DEF RestoreRecord, RestoreRecordFails, At
<1>2. PICK e \in Entry :
        /\ e = job[p].entry
        /\ Holds(p) /\ TypeOK /\ IInv /\ box[e] = Empty /\ staged[e] = None
        /\ Phase(e) = "active" /\ Stranded(e) /\ Reported(e)
  BY <1>1, EntryAtHand DEF Restoring, Ready, Placed, PInv
<1>3. CanFollow(hist[e], "restore") /\ "restore" \in Operations
  <2>1. hist[e] \in Seq(Operations) /\ PhaseOf(hist[e]) = "active"
    BY <1>2 DEF TypeOK, Phase
  <2> QED BY <2>1, EventsThatFollow DEF Operations
<1>4. UNCHANGED <<box, staged, taken, job>>
  BY DEF RestoreRecord, RestoreRecordFails
<1>5. CASE RestoreRecord(p)
  <2>1. /\ pc'[p] = "done" /\ Elsewhere(p)
        /\ said' = [said EXCEPT ![e] = "restored"] /\ Appended(e, "restore")
    BY <1>2, <1>5, Moves DEF RestoreRecord, Say
  <2>2. Phase(e)' = "restored" /\ \A x \in Entry \ {e} : hist'[x] = hist[x]
    BY <1>2, <1>3, <2>1, LinesWritten, PhasesAfter
  <2>3. Only(e) /\ said'[e] = "restored"
    BY <1>2, <1>4, <2>1, <2>2 DEF Only, TypeOK
  <2>4. Stranded(e)' /\ Reported(e)'
    BY <1>2, <1>4, <2>2, <2>3 DEF Stranded, Reported
  <2>5. pc'[p] \in Indifferent
    BY <2>1 DEF Indifferent
  <2> QED BY <1>2, <2>1, <2>3, <2>4, <2>5, NothingToKnow, TouchPInv
<1>6. CASE RestoreRecordFails(p)
  <2>1. /\ pc'[p] = "recheck" /\ job'[p] = job[p] /\ Elsewhere(p)
        /\ said' = said /\ CutShort(e, "restore")
    BY <1>2, <1>6, Moves DEF RestoreRecordFails
  <2>2. Phase(e)' \in {"active", "restored"} /\ \A x \in Entry \ {e} : hist'[x] = hist[x]
    BY <1>2, <1>3, <2>1, LinesWritten, PhasesAfter
  <2>3. Only(e)
    BY <1>4, <2>1, <2>2 DEF Only
  <2>4. said[e] \notin {"restored", "purged"}
    BY <1>2 DEF Reported
  <2>5. Stranded(e)' /\ Reported(e)'
    BY <1>2, <1>4, <2>1, <2>2, <2>4 DEF Stranded, Reported
  <2>6. Placed(p)' /\ Sweeping(p)'
    BY <1>2, <1>4, <2>1 DEF Placed, Sweeping, Purging
  <2>7. Told(p)'
    BY <1>2, <2>1, <2>2, <2>4 DEF Told, Phase
  <2> QED BY <1>2, <2>1, <2>3, <2>5, <2>6, <2>7, TouchPInv
<1> QED BY <1>5, <1>6

\* Back from the destination.
LEMMA RestorePutBackPInv ==
  ASSUME PInv, IInv', NEW p \in Proc, RestorePutBack(p)
  PROVE  PInv'
<1>1. pc[p] = "putback"
  BY DEF RestorePutBack, At
<1>2. PICK e \in Entry :
        /\ e = job[p].entry
        /\ Holds(p) /\ TypeOK /\ staged[e] = None /\ said[e] \notin {"restored", "purged"}
        /\ Phase(e) \in {"active", "restored"} /\ Reported(e)
  BY <1>1, EntryAtHand DEF Restoring, Placed, Told
<1>3. /\ box' = [box EXCEPT ![e] = file[job[p].path]]
      /\ UNCHANGED <<staged, hist, torn, taken, job>>
      /\ said' = said \/ said' = [said EXCEPT ![e] = "unrestored"]
      /\ Goto(p, "done")
  BY <1>2 DEF RestorePutBack, Say
<1>4. pc'[p] = "done" /\ Elsewhere(p)
  BY <1>2, <1>3, Moves
<1>5. Only(e) /\ said'[e] \in {said[e], "unrestored"}
  BY <1>2, <1>3 DEF Only, TypeOK
<1>6. Phase(e)' = Phase(e)
  BY <1>3 DEF Phase
<1>7. Stranded(e)' /\ Reported(e)'
  BY <1>2, <1>3, <1>5, <1>6 DEF Stranded, Reported
<1>8. pc'[p] \in Indifferent
  BY <1>4 DEF Indifferent
<1> QED BY <1>2, <1>4, <1>5, <1>7, <1>8, NothingToKnow, TouchPInv

LEMMA RestorePInv ==
  ASSUME PInv, IInv', NEW p \in Proc, Restore(p)
  PROVE  PInv'
BY StartsPInv, EndsPInv, DecidesPInv, RestoreTakesOutPInv, RestoreUnstagesPInv,
   RestoreRecordsPInv, RestorePutBackPInv DEF Restore

\* The candidates are everything that a purge was begun on, and all of the
\* store is clean.
LEMMA StartPurgePInv ==
  ASSUME PInv, IInv', NEW p \in Proc, StartPurge(p)
  PROVE  PInv'
<1> DEFINE j == [job[p] EXCEPT !.cand = Candidates(job[p])]
<1>1. TypeOK /\ AuditClean
  BY DEF PInv, IInv, StartPurge
<1>2. Quiet /\ Elsewhere(p) /\ pc'[p] = "purge" /\ job'[p] = j
  BY <1>1, Moves DEF StartPurge, Quiet, store
<1>3. j.cand = Candidates(job[p])
  BY <1>1 DEF TypeOK, Jobs
<1>4. /\ torn' = torn
      /\ \A e \in Entry : Phase(e)' = Phase(e) /\ (EntryClean(e)' <=> EntryClean(e))
  BY <1>2, UntouchedIsClean DEF Quiet
<1>5. \A e \in Entry : Phase(e) = "purge_pending" => e \in j.cand
  BY <1>3 DEF Candidates, Eligible
<1> HIDE DEF j
<1>6. Sweeping(p)'
  BY <1>1, <1>2, <1>4, <1>5 DEF Sweeping, AuditClean
<1>7. Placed(p)' /\ Told(p)'
  BY <1>2 DEF Placed, Told
<1> QED BY <1>2, <1>6, <1>7, QuietPInv

\* What a clean audit says of an entry in a given state.
LEMMA CleanEntry ==
  ASSUME NEW e \in Entry, EntryClean(e)
  PROVE  Phase(e) \in {"active", "purge_pending"} <=> box[e] \in Obj
BY DEF EntryClean, Expected

LEMMA PurgeNextPInv ==
  ASSUME PInv, IInv', NEW p \in Proc, PurgeNext(p)
  PROVE  PInv'
<1>1. pc[p] = "purge" /\ TypeOK /\ AuditClean /\ Sweeping(p) /\ Ready(p)
  BY EntryAtHand DEF PurgeNext, At, Sweeping
<1>2. PICK e \in job[p].cand :
        /\ Store(p, [job[p] EXCEPT !.cand = @ \ {e}, !.entry = e])
        /\ Goto(p, IF Phase(e) = "purge_pending" THEN "remove" ELSE "intend")
  BY DEF PurgeNext
<1> DEFINE j == [job[p] EXCEPT !.cand = @ \ {e}, !.entry = e]
<1>3. /\ Quiet /\ Elsewhere(p) /\ job'[p] = j
      /\ pc'[p] = IF Phase(e) = "purge_pending" THEN "remove" ELSE "intend"
  BY <1>1, <1>2, Moves DEF PurgeNext, Quiet, store
<1>4. /\ j.cand = job[p].cand \ {e} /\ j.entry = e /\ e \in Entry
      /\ job[p].cand \subseteq Entry
  BY <1>1 DEF TypeOK, Jobs
<1>5. box[e] \in Obj
  <2>1. EntryClean(e) /\ Phase(e) \in {"active", "purge_pending"}
    BY <1>1, <1>4 DEF AuditClean, Ready, Purging
  <2> QED BY <1>4, <2>1, CleanEntry
<1>6. /\ torn' = torn
      /\ \A x \in Entry : Phase(x)' = Phase(x) /\ (EntryClean(x)' <=> EntryClean(x))
  BY <1>3, UntouchedIsClean DEF Quiet
<1>7. \A x \in Entry : Phase(x) = "purge_pending" => x \in job[p].cand
  BY <1>1 DEF Sweeping, Purging
<1> HIDE DEF j
<1>8. Sweeping(p)'
  <2>1. AuditClean'
    BY <1>1, <1>6 DEF AuditClean
  <2>2. \A x \in Entry : Phase(x)' = "purge_pending" => x \in j.cand \/ x = j.entry
    BY <1>4, <1>6, <1>7
  <2> QED BY <1>3, <2>1, <2>2 DEF Sweeping, AuditClean
<1>9. Placed(p)' /\ Told(p)'
  BY <1>3, <1>4, <1>5 DEF Placed, Told, Quiet
<1> QED BY <1>3, <1>8, <1>9, QuietPInv

\* A purge that works on e: all other entries are clean and nothing of them
\* is in progress.
LEMMA PurgeAtHand ==
  ASSUME PInv, NEW p \in Proc, pc[p] \in Purging \ {"purge"}
  PROVE  \E e \in Entry :
           /\ e = job[p].entry
           /\ Holds(p) /\ TypeOK /\ IInv /\ Stranded(e) /\ Reported(e)
           /\ ~torn /\ \A x \in Entry \ {e} : EntryClean(x)
           /\ \A x \in Entry : Phase(x) = "purge_pending" => x \in job[p].cand \/ x = e
           /\ \A x \in job[p].cand : x # e
<1>1. /\ TypeOK /\ Sweeping(p) /\ Ready(p) /\ IInv /\ Holds(p)
      /\ job[p].entry \in Entry /\ Stranded(job[p].entry) /\ Reported(job[p].entry)
  BY EntryAtHand DEF PInv
<1>2. \A x \in job[p].cand : x # job[p].entry
  BY <1>1 DEF Ready
<1>3. /\ ~torn /\ \A x \in Entry \ {job[p].entry} : EntryClean(x)
      /\ \A x \in Entry : Phase(x) = "purge_pending" => x \in job[p].cand \/ x = job[p].entry
  BY <1>1 DEF Sweeping
<1> QED BY <1>1, <1>2, <1>3

\* What is left to show of a step of the purge that changes e: whether e would
\* pass an audit, if the label says so.
LEMMA SweepingGoesOn ==
  ASSUME PInv, IInv', NEW p \in Proc, NEW e \in Entry,
         e = job[p].entry, pc[p] \in Purging \ {"purge"}, Only(e), torn' = torn,
         job'[p] = job[p],
         pc'[p] \in {"intend", "remove", "abandon", "purge"} => EntryClean(e)',
         pc'[p] = "purge" => Phase(e)' # "purge_pending"
  PROVE  Sweeping(p)'
<1>1. /\ ~torn /\ \A x \in Entry \ {e} : EntryClean(x)
      /\ \A x \in Entry : Phase(x) = "purge_pending" => x \in job[p].cand \/ x = e
  BY PurgeAtHand
<1>2. ASSUME NEW x \in Entry \ {e}
      PROVE  EntryClean(x)' /\ Phase(x)' = Phase(x)
  BY <1>1, UntouchedIsClean DEF Only
<1>3. \A x \in Entry : Phase(x)' = "purge_pending" => x \in job[p].cand \/ x = e
  BY <1>1, <1>2
<1>4. pc'[p] \in {"purge", "intend", "remove", "abandon"} => AuditClean'
  BY <1>1, <1>2 DEF AuditClean
<1> QED BY <1>1, <1>2, <1>3, <1>4 DEF Sweeping

\* An entry whose payload is where the ledger says it is passes the audit.
LEMMA PassesAudit ==
  ASSUME IInv', NEW e \in Entry,
         Expected(e)' <=> (box'[e] \in Obj),
         Expected(e)' => KindOf(box'[e]) = KindOf(taken'[e])
  PROVE  EntryClean(e)'
BY DEF EntryClean, IInv, HistoriesValid

\* Parts of the payload are removed, or fail to be.
LEMMA PurgeRemovesPartPInv ==
  ASSUME PInv, IInv', NEW p \in Proc, PurgeRemovePart(p) \/ PurgeRemoveFails(p)
  PROVE  PInv'
<1>1. pc[p] = "remove" /\ pc[p] \in Purging \ {"purge"}
  BY DEF PurgeRemovePart, PurgeRemoveFails, At, Purging
<1>2. /\ TypeOK /\ Placed(p) /\ Sweeping(p)
  BY EntryAtHand
<1>3. Quiet /\ Elsewhere(p) /\ job'[p] = job[p] /\ pc'[p] \in {"remove", "abandon"}
  BY <1>1, <1>2, Moves DEF PurgeRemovePart, PurgeRemoveFails, Quiet, store, Elsewhere
<1>4. /\ torn' = torn
      /\ \A x \in Entry : Phase(x)' = Phase(x) /\ (EntryClean(x)' <=> EntryClean(x))
  BY <1>3, UntouchedIsClean DEF Quiet
<1>5. Sweeping(p)'
  BY <1>1, <1>2, <1>3, <1>4 DEF Sweeping, AuditClean
<1>6. Placed(p)' /\ Told(p)'
  BY <1>1, <1>2, <1>3 DEF Placed, Told, Quiet
<1> QED BY <1>3, <1>5, <1>6, QuietPInv

\* The payload goes, and then its directory.
LEMMA PurgeRemovesPInv ==
  ASSUME PInv, IInv', NEW p \in Proc, PurgeRemove(p) \/ PurgeReclaim(p)
  PROVE  PInv'
<1>1. pc[p] \in {"remove", "reclaim"} /\ pc[p] \in Purging \ {"purge"}
  BY DEF PurgeRemove, PurgeReclaim, At, Purging
<1>2. PICK e \in Entry :
        /\ e = job[p].entry
        /\ Holds(p) /\ TypeOK /\ Stranded(e) /\ Reported(e)
  BY <1>1, PurgeAtHand
<1>3. Phase(e) = "purge_pending" /\ Placed(p)
  BY <1>1, <1>2, EntryAtHand DEF Ready
<1>4. UNCHANGED <<staged, hist, torn, taken, job, said>>
  BY DEF PurgeRemove, PurgeReclaim
<1>5. /\ Elsewhere(p) /\ staged[e] = None
      /\ \/ pc'[p] = "reclaim" /\ box' = [box EXCEPT ![e] = Empty]
         \/ pc'[p] = "complete" /\ box' = [box EXCEPT ![e] = None]
  <2>1. CASE PurgeRemove(p)
    BY <1>2, <1>4, <2>1, Moves DEF PurgeRemove, Stranded
  <2>2. CASE PurgeReclaim(p)
    <3>1. box[e] = Empty /\ staged[e] = None
      BY <1>2, <1>3, <2>2 DEF PurgeReclaim, Placed, At
    <3> QED BY <1>2, <1>4, <2>2, <3>1, Moves DEF PurgeReclaim, WithoutEmptyBox
  <2> QED BY <2>1, <2>2
<1>6. Only(e) /\ box'[e] \notin Obj /\ job'[p] = job[p]
  BY <1>2, <1>4, <1>5 DEF Only, TypeOK
<1>7. Phase(e)' = "purge_pending"
  BY <1>3, <1>4 DEF Phase
<1>8. Stranded(e)' /\ Reported(e)'
  BY <1>2, <1>3, <1>4, <1>5, <1>7 DEF Stranded, Reported
<1>9. Sweeping(p)'
  BY <1>1, <1>2, <1>4, <1>5, <1>6, SweepingGoesOn
<1>10. Placed(p)' /\ Told(p)'
  BY <1>2, <1>4, <1>5, <1>6 DEF Placed, Told, TypeOK
<1> QED BY <1>2, <1>5, <1>6, <1>8, <1>9, <1>10, TouchPInv

\* The intent and its withdrawal are about a payload that is in its place.
LEMMA PurgeDecidesPInv ==
  ASSUME PInv, IInv', NEW p \in Proc, PurgeIntend(p) \/ PurgeAbandon(p)
  PROVE  PInv'
<1>1. /\ pc[p] \in {"intend", "abandon"} /\ pc[p] \in Purging \ {"purge"}
      /\ pc[p] = "intend" <=> PurgeIntend(p)
  BY DEF PurgeIntend, PurgeAbandon, At, Purging
<1>2. PICK e \in Entry :
        /\ e = job[p].entry
        /\ Holds(p) /\ TypeOK /\ IInv /\ Stranded(e) /\ Reported(e)
  BY <1>1, PurgeAtHand
<1>3. /\ pc[p] = "intend" => Phase(e) = "active"
      /\ pc[p] = "abandon" => Phase(e) = "purge_pending"
      /\ box[e] \in Obj /\ EntryClean(e)
  BY <1>1, <1>2, EntryAtHand DEF Ready, Placed, Sweeping, AuditClean
<1>4. PICK op \in {"purge_intent", "purge_failed"} :
        /\ Appended(e, op) /\ CanFollow(hist[e], op)
        /\ op = "purge_intent" <=> pc[p] = "intend"
  BY <1>1, <1>2, PurgeEventsFollow DEF PurgeIntend, PurgeAbandon, At
<1>5. op \in Operations
  BY DEF Operations
<1>6. UNCHANGED <<box, staged, taken, job, said>>
  BY DEF PurgeIntend, PurgeAbandon
<1>7. /\ Elsewhere(p) /\ job'[p] = job[p]
      /\ pc'[p] = IF pc[p] = "intend" THEN "remove" ELSE "purge"
  BY <1>1, <1>2, <1>6, Moves DEF PurgeIntend, PurgeAbandon, At
<1>8. /\ Phase(e)' = PhaseAfter(op) /\ torn' = torn
      /\ \A x \in Entry \ {e} : hist'[x] = hist[x]
  BY <1>2, <1>4, <1>5, LinesWritten
<1>9. Only(e) /\ Phase(e)' = IF pc[p] = "intend" THEN "purge_pending" ELSE "active"
  BY <1>4, <1>6, <1>8, PhasesAfter DEF Only
<1>10. EntryClean(e)'
  <2>1. Expected(e)' /\ box'[e] \in Obj
    BY <1>3, <1>6, <1>9 DEF Expected
  <2>2. KindOf(box'[e]) = KindOf(taken'[e])
    BY <1>1, <1>3, <1>6 DEF EntryClean, Expected
  <2> QED BY <2>1, <2>2, PassesAudit
<1>11. Sweeping(p)'
  BY <1>1, <1>2, <1>7, <1>8, <1>9, <1>10, SweepingGoesOn
<1>12. Stranded(e)' /\ Reported(e)'
  <2>1. staged[e] = None /\ said[e] \notin {"restored", "purged"}
    BY <1>1, <1>2, <1>3 DEF Stranded, Reported
  <2> QED BY <1>6, <1>9, <2>1 DEF Stranded, Reported
<1>13. Placed(p)' /\ Told(p)'
  BY <1>2, <1>3, <1>6, <1>7 DEF Placed, Told
<1> QED BY <1>2, <1>7, <1>9, <1>11, <1>12, <1>13, TouchPInv

LEMMA PurgeCompletePInv ==
  ASSUME PInv, IInv', NEW p \in Proc, PurgeComplete(p)
  PROVE  PInv'
<1>1. pc[p] = "complete" /\ pc[p] \in Purging \ {"purge"}
  BY DEF PurgeComplete, At, Purging
<1>2. PICK e \in Entry :
        /\ e = job[p].entry
        /\ Holds(p) /\ TypeOK /\ IInv /\ Stranded(e) /\ Reported(e)
  BY <1>1, PurgeAtHand
<1>3. box[e] = None /\ staged[e] = None
  BY <1>1, <1>2, EntryAtHand DEF Placed
<1>4. /\ Appended(e, "purge_complete") /\ CanFollow(hist[e], "purge_complete")
      /\ "purge_complete" \in Operations
  BY <1>1, <1>2, PurgeEventsFollow DEF PurgeComplete, Operations
<1>5. UNCHANGED <<box, staged, taken, job>> /\ said' = [said EXCEPT ![e] = "purged"]
  BY <1>2 DEF PurgeComplete, Say
<1>6. Elsewhere(p) /\ job'[p] = job[p] /\ pc'[p] = "purge"
  BY <1>1, <1>2, <1>5, Moves DEF PurgeComplete
<1>7. /\ Phase(e)' = "purged" /\ torn' = torn
      /\ \A x \in Entry \ {e} : hist'[x] = hist[x]
  BY <1>2, <1>4, LinesWritten, PhasesAfter
<1>8. Only(e) /\ said'[e] = "purged"
  BY <1>2, <1>5, <1>7 DEF Only, TypeOK
<1>9. EntryClean(e)'
  BY <1>3, <1>5, <1>7, PassesAudit DEF Expected
<1>10. Sweeping(p)'
  BY <1>1, <1>2, <1>6, <1>7, <1>8, <1>9, SweepingGoesOn
<1>11. Stranded(e)' /\ Reported(e)'
  BY <1>3, <1>5, <1>7, <1>8 DEF Stranded, Reported
<1>12. Placed(p)' /\ Told(p)'
  BY <1>6 DEF Placed, Told
<1> QED BY <1>2, <1>6, <1>8, <1>10, <1>11, <1>12, TouchPInv

\* An event that is cut short, by a failure or by the end of the process,
\* leaves the entry in the old state or in the new one, and both are in order
\* for what is in its object directory.
LEMMA CutShortEntry ==
  ASSUME PInv, NEW p \in Proc, Appending(p) # "none",
         CutShort(job[p].entry, Appending(p)),
         UNCHANGED <<box, staged, taken, said>>
  PROVE  \E e \in Entry :
           /\ e = job[p].entry /\ Only(e) /\ Stranded(e)' /\ Reported(e)' /\ Holds(p)
<1>1. IInv /\ TypeOK /\ Placed(p) /\ Ready(p) /\ Bound(p)
  BY EntryAtHand DEF PInv
<1>2. PICK e \in Entry :
        /\ e = job[p].entry /\ Appending(p) \in Operations
        /\ CanFollow(hist[e], Appending(p)) /\ Holds(p)
  BY <1>1, AppendingFollows
<1>3. /\ Phase(e)' \in {Phase(e), PhaseAfter(Appending(p))}
      /\ \A x \in Entry \ {e} : hist'[x] = hist[x]
  BY <1>1, <1>2, LinesWritten
<1>4. Only(e)
  BY <1>3 DEF Only
<1>5. Stranded(e) /\ Reported(e)
  BY DEF PInv
<1>6. /\ Phase(e) \in {"none", "active", "purge_pending"}
      /\ Phase(e)' = Phase(e) \/ Phase(e)' # "none"
      /\ staged[e] = None
  <2>1. CASE pc[p] = "append"
    <3>1. hist[e] = << >> /\ box[e] \in Obj /\ Appending(p) = "trash"
      BY <1>1, <1>2, <2>1 DEF Ready, Appending, At
    <3> QED BY <1>3, <1>5, <3>1, PhasesAfter DEF Phase, PhaseOf, Stranded
  <2>2. CASE pc[p] = "record"
    <3>1. Phase(e) = "active" /\ staged[e] = None /\ Appending(p) = "restore"
      BY <1>1, <1>2, <2>2 DEF Ready, Placed, Appending, At
    <3> QED BY <1>3, <3>1, PhasesAfter
  <2>3. CASE pc[p] = "intend"
    <3>1. Phase(e) = "active" /\ box[e] \in Obj /\ Appending(p) = "purge_intent"
      BY <1>1, <1>2, <2>3 DEF Ready, Placed, Appending, At
    <3> QED BY <1>3, <1>5, <3>1, PhasesAfter DEF Stranded
  <2>4. CASE pc[p] = "abandon"
    <3>1. Phase(e) = "purge_pending" /\ box[e] \in Obj /\ Appending(p) = "purge_failed"
      BY <1>1, <1>2, <2>4 DEF Ready, Placed, Appending, At
    <3> QED BY <1>3, <1>5, <3>1, PhasesAfter DEF Stranded
  <2>5. CASE pc[p] = "complete"
    <3>1. Phase(e) = "purge_pending" /\ staged[e] = None /\ Appending(p) = "purge_complete"
      BY <1>1, <1>2, <2>5 DEF Ready, Placed, Appending, At
    <3> QED BY <1>3, <3>1, PhasesAfter
  <2> QED BY <2>1, <2>2, <2>3, <2>4, <2>5 DEF Appending, At
<1>7. Stranded(e)' /\ Reported(e)'
  BY <1>5, <1>6 DEF Stranded, Reported
<1> QED BY <1>2, <1>4, <1>7

LEMMA PurgeAppendFailsPInv ==
  ASSUME PInv, IInv', NEW p \in Proc, PurgeAppendFails(p)
  PROVE  PInv'
<1>1. /\ Appending(p) # "none" /\ CutShort(job[p].entry, Appending(p))
      /\ UNCHANGED <<box, staged, taken, said, job>> /\ Goto(p, "done")
  BY DEF PurgeAppendFails, Appending, At
<1>2. \E e \in Entry : Only(e) /\ Stranded(e)' /\ Reported(e)' /\ Holds(p)
  BY <1>1, CutShortEntry
<1>3. TypeOK
  BY DEF PInv, IInv
<1>4. pc'[p] = "done" /\ Elsewhere(p)
  BY <1>1, <1>3, Moves
<1>5. pc'[p] \in Indifferent
  BY <1>4 DEF Indifferent
<1> QED BY <1>2, <1>4, <1>5, NothingToKnow, TouchPInv

LEMMA PurgePInv ==
  ASSUME PInv, IInv', NEW p \in Proc, Purge(p)
  PROVE  PInv'
BY StartsPInv, EndsPInv, StartPurgePInv, PurgeNextPInv, PurgeRemovesPartPInv,
   PurgeRemovesPInv, PurgeDecidesPInv, PurgeCompletePInv, PurgeAppendFailsPInv DEF Purge

LEMMA CrashPInv ==
  ASSUME PInv, IInv', NEW p \in Proc, Crash(p)
  PROVE  PInv'
<1>1. TypeOK
  BY DEF PInv, IInv
<1>2. /\ pc'[p] = "idle" /\ Elsewhere(p)
      /\ UNCHANGED <<box, staged, taken, said>>
  BY <1>1, Moves DEF Crash, Unlock
<1>3. pc'[p] \in Indifferent
  BY <1>2 DEF Indifferent, Waiting
<1>4. CASE Appending(p) = "none"
  <2>1. Quiet
    BY <1>2, <1>4 DEF Crash, Quiet
  <2> QED BY <1>2, <1>3, <2>1, NothingToKnow, QuietPInv
<1>5. CASE Appending(p) # "none"
  <2>1. CutShort(job[p].entry, Appending(p))
    BY <1>5 DEF Crash
  <2>2. \E e \in Entry : Only(e) /\ Stranded(e)' /\ Reported(e)' /\ Holds(p)
    BY <1>2, <1>5, <2>1, CutShortEntry
  <2> QED BY <1>2, <1>3, <2>2, NothingToKnow, TouchPInv
<1> QED BY <1>4, <1>5

-----------------------------------------------------------------------------
(***************************************************************************)
(* The invariant.                                                          *)
(***************************************************************************)

LEMMA InitPInv == Init => PInv
<1> SUFFICES ASSUME Init PROVE PInv
  OBVIOUS
<1>1. \A p \in Proc : Placed(p) /\ Told(p) /\ Sweeping(p)
  BY DEF Init, Placed, Told, Sweeping, Purging
<1>2. \A e \in Entry : Stranded(e) /\ Reported(e)
  BY DEF Init, Stranded, Reported
<1> QED BY <1>1, <1>2, InitIInv DEF PInv

LEMMA NextPInv == PInv /\ [Next]_vars => PInv'
<1> SUFFICES ASSUME PInv, [Next]_vars PROVE PInv'
  OBVIOUS
<1>1. IInv'
  BY NextIInv DEF PInv
<1>2. ASSUME NEW p \in Proc, BeginCommand(p) \/ Work(p) \/ Crash(p) PROVE PInv'
  BY <1>1, <1>2, StartsPInv, AddPInv, RestorePInv, PurgePInv, CrashPInv DEF Work
<1>3. CASE User \/ Tick
  <2>1. Quiet /\ UNCHANGED <<pc, job>>
    BY <1>3 DEF User, UserCreate, UserDelete, Tick, Quiet, store
  <2> QED BY <1>1, <2>1, OutsidePInv
<1>4. CASE UNCHANGED vars
  <2>1. Quiet /\ UNCHANGED <<pc, job>>
    BY <1>4 DEF vars, Quiet, store
  <2> QED BY <1>1, <2>1, OutsidePInv
<1> QED BY <1>2, <1>3, <1>4 DEF Next

LEMMA PInvHolds == Spec => []PInv
BY InitPInv, NextPInv, PTL DEF Spec

-----------------------------------------------------------------------------
(***************************************************************************)
(* What follows from it.                                                   *)
(***************************************************************************)

\* What a command reported as trashed, restored or purged is so, and nothing
\* that happens later takes it back.
THEOREM ReportsStayTrue == Spec => []ReportsAreTrue
<1>1. PInv => ReportsAreTrue
  BY DEF PInv, Reported, ReportsAreTrue
<1> QED BY <1>1, PInvHolds, PTL

\* A payload that a restore left in trash/staging makes the audit fail for its
\* entry, although the audit does not look there.
THEOREM StrandedFailsTheAudit == Spec => []StrandedIsVisible
<1>1. PInv => StrandedIsVisible
  BY DEF PInv, Stranded, StrandedIsVisible, EntryClean, Expected
<1> QED BY <1>1, PInvHolds, PTL

\* Whenever the loop of a purge turns to the next candidate the whole store is
\* clean, also after removals that failed.
THEOREM PurgeNeverPassesDamage == Spec => []PurgeStopsAtDamage
<1>1. PInv => PurgeStopsAtDamage
  BY DEF PInv, Sweeping, PurgeStopsAtDamage, At
<1> QED BY <1>1, PInvHolds, PTL

\* A purge that comes to the end of its candidates leaves no purge unfinished,
\* whoever began it.
THEOREM PurgeFinishesAll == Spec => PurgeResolvesAll
<1> DEFINE Resolved ==
      \A p \in Proc : PurgeFinish(p) => \A e \in Entry : Phase(e) # "purge_pending"
<1>1. PInv => Resolved
  BY DEF PInv, Sweeping, Purging, PurgeFinish, At
<1>2. Spec => [][Resolved]_vars
  BY <1>1, PInvHolds, PTL DEF Spec
<1> QED BY <1>2 DEF PurgeResolvesAll

-----------------------------------------------------------------------------
(***************************************************************************)
(* The store implements Lifecycle: every step that changes the ledger is   *)
(* one of its records, every step that changes whether an object directory *)
(* holds a payload is one of its moves, and no step is both.               *)
(***************************************************************************)

\* The steps that write to the ledger.
LEMMA HistChanges ==
  ASSUME Next, hist' # hist
  PROVE  \E p \in Proc :
           \/ AddAppend(p) \/ RestoreRecord(p)
           \/ PurgeIntend(p) \/ PurgeAbandon(p) \/ PurgeComplete(p)
           \/ /\ Appending(p) # "none" /\ CutShort(job[p].entry, Appending(p))
              /\ UNCHANGED <<box, staged, taken>>
<1>1. ASSUME NEW p \in Proc, BeginCommand(p) PROVE hist' = hist
  BY <1>1 DEF BeginCommand, BeginAdd, BeginRestore, BeginPurge, BeginEmpty, BeginPreview,
              BeginList, Begin, store
<1>2. ASSUME NEW p \in Proc, Add(p)
      PROVE  hist' = hist \/ AddAppend(p) \/ AddAppendFails(p)
  BY <1>2 DEF Add, StartAdd, AddRefuse, AddInspect, AddFinish, AddCheck, AddRename,
              AddRenameUnverified, AddRenameFails, AddRmdir, AddRmdirFails, AddUndo,
              AddUndoFails, AddUnbox, store
<1>3. ASSUME NEW p \in Proc, Restore(p)
      PROVE  hist' = hist \/ RestoreRecord(p) \/ RestoreRecordFails(p)
  BY <1>3 DEF Restore, StartRestore, RestoreOpen, RestoreOpenStaged, RestoreRefuse,
              RestorePlace, RestoreVerify, RestoreVerifyFails, RestoreStage,
              RestoreStageUnverified, RestorePublish, RestorePublishFails, RestoreUnstage,
              RestoreRecheck, RestorePutBack, RestorePutBackFails, Bounce, store
<1>4. ASSUME NEW p \in Proc, Purge(p)
      PROVE  \/ hist' = hist
             \/ PurgeIntend(p) \/ PurgeAbandon(p) \/ PurgeComplete(p)
             \/ PurgeAppendFails(p)
  BY <1>4 DEF Purge, CheckToken, StartPurge, EndPreview, PurgeNext, PurgeFinish,
              PurgeRemovePart, PurgeRemove, PurgeRemoveFails, PurgeReclaim,
              PurgeReclaimFails, store
<1>5. ASSUME NEW p \in Proc,
             AcquireExclusive(p) \/ AcquireShared(p) \/ AuditRefuses(p) \/ Release(p)
      PROVE  hist' = hist
  BY <1>5 DEF AcquireExclusive, AcquireShared, AuditRefuses, Release, store
<1>6. User \/ Tick => hist' = hist
  BY DEF User, UserCreate, UserDelete, Tick, store
<1>7. ASSUME NEW p \in Proc,
             \/ AddAppendFails(p) \/ RestoreRecordFails(p) \/ PurgeAppendFails(p)
             \/ Crash(p)
      PROVE  \/ hist' = hist
             \/ /\ Appending(p) # "none" /\ CutShort(job[p].entry, Appending(p))
                /\ UNCHANGED <<box, staged, taken>>
  BY <1>7 DEF AddAppendFails, RestoreRecordFails, PurgeAppendFails, Crash, Appending, At
<1> QED BY <1>1, <1>2, <1>3, <1>4, <1>5, <1>6, <1>7 DEF Next, Work

\* The state variables of Lifecycle.
PhaseMap == [e \in Entry |-> Phase(e)]
HeldSet  == {e \in Entry : box[e] \in Obj}

LEMMA RecordsMap ==
  ASSUME TypeOK, TypeOK', NEW e \in Entry, NEW op \in Operations,
         CutShort(e, op), hist' # hist, box' = box
  PROVE  PhaseMap' = [PhaseMap EXCEPT ![e] = PhaseAfter(op)] /\ HeldSet' = HeldSet
<1>1. hist' = [hist EXCEPT ![e] = Append(@, op)]
  BY DEF CutShort, Appended
<1>2. hist[e] \in Seq(Operations) /\ hist \in [Entry -> Seq(Operations)]
  BY DEF TypeOK
<1>3. PhaseOf(Append(hist[e], op)) = PhaseAfter(op)
  <2>1. Append(hist[e], op) # << >> /\ Append(hist[e], op)[Len(Append(hist[e], op))] = op
    BY <1>2
  <2> QED BY <2>1 DEF PhaseOf
<1>4. \A x \in Entry : Phase(x)' = IF x = e THEN PhaseAfter(op) ELSE Phase(x)
  BY <1>1, <1>2, <1>3 DEF Phase
<1> QED BY <1>4 DEF PhaseMap, HeldSet

\* The event that p is about to append is a record of Lifecycle.
LEMMA AppendsRefine ==
  ASSUME PInv, PInv', NEW p \in Proc, Appending(p) # "none",
         CutShort(job[p].entry, Appending(p)), hist' # hist, box' = box
  PROVE  Abstract!Next
<1> DEFINE e == job[p].entry
           op == Appending(p)
<1>1. TypeOK /\ TypeOK' /\ IInv /\ Placed(p) /\ Ready(p)
  BY EntryAtHand DEF PInv, IInv
<1>2. e \in Entry /\ op \in Operations
  BY <1>1, AppendingFollows
<1>3. PhaseMap' = [PhaseMap EXCEPT ![e] = PhaseAfter(op)] /\ HeldSet' = HeldSet
  BY <1>1, <1>2, RecordsMap
<1>4. PhaseMap[e] = Phase(e) /\ (e \in HeldSet <=> box[e] \in Obj)
  BY <1>2 DEF PhaseMap, HeldSet
<1> HIDE DEF e, op
<1>5. CASE pc[p] = "append"
  <2>1. op = "trash" /\ Phase(e) = "none" /\ box[e] \in Obj
    BY <1>1, <1>5 DEF Appending, At, Ready, Phase, PhaseOf, e, op
  <2>2. Abstract!Trash(e)
    BY <1>3, <1>4, <2>1, PhasesAfter DEF Abstract!Trash, Abstract!Record, PhaseMap, HeldSet
  <2> QED BY <1>2, <2>2 DEF Abstract!Next
<1>6. CASE pc[p] = "record"
  <2>1. op = "restore" /\ Phase(e) = "active" /\ box[e] \notin Obj
    BY <1>1, <1>6 DEF Appending, At, Ready, Placed, e, op
  <2>2. Abstract!Restore(e)
    BY <1>3, <1>4, <2>1, PhasesAfter DEF Abstract!Restore, Abstract!Record, PhaseMap, HeldSet
  <2> QED BY <1>2, <2>2 DEF Abstract!Next
<1>7. CASE pc[p] = "intend"
  <2>1. op = "purge_intent" /\ Phase(e) = "active" /\ box[e] \in Obj
    BY <1>1, <1>7 DEF Appending, At, Ready, Placed, e, op
  <2>2. Abstract!Intend(e)
    BY <1>3, <1>4, <2>1, PhasesAfter DEF Abstract!Intend, Abstract!Record, PhaseMap, HeldSet
  <2> QED BY <1>2, <2>2 DEF Abstract!Next
<1>8. CASE pc[p] = "abandon"
  <2>1. op = "purge_failed" /\ Phase(e) = "purge_pending" /\ box[e] \in Obj
    BY <1>1, <1>8 DEF Appending, At, Ready, Placed, e, op
  <2>2. Abstract!Abandon(e)
    BY <1>3, <1>4, <2>1, PhasesAfter DEF Abstract!Abandon, Abstract!Record, PhaseMap, HeldSet
  <2> QED BY <1>2, <2>2 DEF Abstract!Next
<1>9. CASE pc[p] = "complete"
  <2>1. op = "purge_complete" /\ Phase(e) = "purge_pending" /\ box[e] \notin Obj
    BY <1>1, <1>9 DEF Appending, At, Ready, Placed, e, op
  <2>2. Abstract!Complete(e)
    BY <1>3, <1>4, <2>1, PhasesAfter DEF Abstract!Complete, Abstract!Record, PhaseMap, HeldSet
  <2> QED BY <1>2, <2>2 DEF Abstract!Next
<1> QED BY <1>5, <1>6, <1>7, <1>8, <1>9 DEF Appending, At

LEMMA PayloadsMap ==
  ASSUME TypeOK, NEW e \in Entry, NEW v, box' = [box EXCEPT ![e] = v], hist' = hist
  PROVE  /\ PhaseMap' = PhaseMap
         /\ HeldSet' = IF v \in Obj THEN HeldSet \cup {e} ELSE HeldSet \ {e}
<1>1. \A x \in Entry : Phase(x)' = Phase(x) /\ box'[x] = IF x = e THEN v ELSE box[x]
  BY DEF Phase, TypeOK
<1> QED BY <1>1 DEF PhaseMap, HeldSet

\* A payload that goes in or out is a move of Lifecycle, if the state that the
\* ledger gives to its entry allows it.
LEMMA MovesRefine ==
  ASSUME TypeOK, NEW e \in Entry, NEW v, box' = [box EXCEPT ![e] = v], hist' = hist,
         v \in Obj /\ box[e] \notin Obj => Phase(e) \in {"none", "active", "restored"},
         v \notin Obj /\ box[e] \in Obj => Phase(e) \in {"none", "active", "purge_pending"}
  PROVE  [Abstract!Next]_(Abstract!vars)
<1>1. /\ PhaseMap' = PhaseMap
      /\ HeldSet' = IF v \in Obj THEN HeldSet \cup {e} ELSE HeldSet \ {e}
  BY PayloadsMap
<1>2. PhaseMap[e] = Phase(e) /\ (e \in HeldSet <=> box[e] \in Obj)
  BY DEF PhaseMap, HeldSet
<1>3. CASE v \in Obj /\ box[e] \notin Obj
  <2>1. Abstract!Take(e) \/ Abstract!Return(e)
    BY <1>1, <1>2, <1>3 DEF Abstract!Take, Abstract!Return, PhaseMap, HeldSet
  <2> QED BY <2>1 DEF Abstract!Next
<1>4. CASE v \notin Obj /\ box[e] \in Obj
  <2>1. Abstract!Release(e) \/ Abstract!Destroy(e)
    BY <1>1, <1>2, <1>4 DEF Abstract!Release, Abstract!Destroy, PhaseMap, HeldSet
  <2> QED BY <2>1 DEF Abstract!Next
<1>5. CASE v \in Obj <=> box[e] \in Obj
  <2>1. PhaseMap' = PhaseMap /\ HeldSet' = HeldSet
    BY <1>1, <1>2, <1>5
  <2> QED BY <2>1 DEF Abstract!vars, PhaseMap, HeldSet
<1> QED BY <1>3, <1>4, <1>5

LEMMA AddMovesRefine ==
  ASSUME PInv, PInv', NEW p \in Proc,
         \/ AddInspect(p) \/ AddRename(p) \/ AddRenameUnverified(p) \/ AddRmdir(p)
         \/ AddUndo(p) \/ AddUnbox(p)
  PROVE  [Abstract!Next]_(Abstract!vars)
<1>1. TypeOK /\ Ready(p) /\ Placed(p) /\ Told(p)
  BY EntryAtHand
<1>2. CASE AddInspect(p)
  <2>1. PICK e \in Entry : FreshEntry(e) /\ box' = [box EXCEPT ![e] = Empty] /\ hist' = hist
    BY <1>2 DEF AddInspect
  <2> QED BY <1>1, <2>1, MovesRefine DEF FreshEntry
<1>3. CASE AddRename(p) \/ AddRenameUnverified(p)
  <2>1. pc[p] = "rename"
    BY <1>3 DEF AddRename, AddRenameUnverified, At
  <2>2. /\ job[p].entry \in Entry /\ Phase(job[p].entry) = "none"
        /\ box[job[p].entry] \notin Obj
    BY <1>1, <2>1, EntryAtHand DEF Ready, Phase, PhaseOf, Adding
  <2>3. box' = [box EXCEPT ![job[p].entry] = file[job[p].path]] /\ hist' = hist
    BY <1>3 DEF AddRename, AddRenameUnverified
  <2> QED BY <1>1, <2>2, <2>3, MovesRefine
<1>4. CASE AddRmdir(p) \/ AddUnbox(p)
  <2>1. pc[p] \in {"rmdir", "unbox"}
    BY <1>4 DEF AddRmdir, AddUnbox, At
  <2>2. job[p].entry \in Entry
    BY <2>1, EntryAtHand DEF Adding
  <2>3. box' = WithoutEmptyBox(job[p].entry) /\ hist' = hist
    BY <1>4 DEF AddRmdir, AddUnbox
  <2>4. CASE box[job[p].entry] = Empty
    <3>1. box' = [box EXCEPT ![job[p].entry] = None]
      BY <2>3, <2>4 DEF WithoutEmptyBox
    <3> QED BY <1>1, <2>2, <2>3, <2>4, <3>1, MovesRefine
  <2>5. CASE box[job[p].entry] # Empty
    <3>1. box' = box
      BY <2>3, <2>5 DEF WithoutEmptyBox
    <3> QED BY <2>3, <3>1 DEF Abstract!vars, Phase
  <2> QED BY <2>4, <2>5
<1>5. CASE AddUndo(p)
  <2>1. pc[p] = "undo"
    BY <1>5 DEF AddUndo, At
  <2>2. job[p].entry \in Entry /\ Phase(job[p].entry) \in {"none", "active"}
    BY <1>1, <2>1, EntryAtHand DEF Told, Adding
  <2>3. box' = [box EXCEPT ![job[p].entry] = Empty] /\ hist' = hist
    BY <1>5 DEF AddUndo
  <2> QED BY <1>1, <2>2, <2>3, MovesRefine
<1> QED BY <1>2, <1>3, <1>4, <1>5

LEMMA RestoreMovesRefine ==
  ASSUME PInv, PInv', NEW p \in Proc,
         \/ RestorePlace(p) \/ RestoreStage(p) \/ RestoreStageUnverified(p)
         \/ RestoreUnstage(p) \/ RestorePutBack(p)
  PROVE  [Abstract!Next]_(Abstract!vars)
<1>1. TypeOK /\ Ready(p) /\ Placed(p) /\ Told(p)
  BY EntryAtHand
<1>2. pc[p] \in {"place", "stage", "unstage", "putback"}
  BY DEF RestorePlace, RestoreStage, RestoreStageUnverified, RestoreUnstage, RestorePutBack, At
<1>3. job[p].entry \in Entry /\ Phase(job[p].entry) \in {"active", "restored"}
  BY <1>1, <1>2, EntryAtHand DEF Ready, Told, Restoring
<1>4. PICK v : box' = [box EXCEPT ![job[p].entry] = v] /\ hist' = hist
                 /\ (v = Empty \/ box[job[p].entry] = Empty)
  BY <1>1 DEF RestorePlace, RestoreStage, RestoreStageUnverified, RestoreUnstage,
              RestorePutBack, Placed, At
<1>5. v = Empty => Phase(job[p].entry) = "active"
  <2>1. CASE pc[p] \in {"place", "stage", "unstage"}
    BY <1>1, <2>1 DEF Ready, Told
  <2>2. CASE pc[p] = "putback"
    <3>1. box' = [box EXCEPT ![job[p].entry] = file[job[p].path]]
          /\ file[job[p].path] # None
      BY <2>2 DEF RestorePlace, RestoreStage, RestoreStageUnverified, RestoreUnstage,
                  RestorePutBack, At
    <3>2. file[job[p].path] \in Obj
      BY <1>1, <2>2, <3>1 DEF TypeOK, Bound, Restoring, PInv, IInv
    <3> QED BY <1>1, <1>3, <1>4, <3>1, <3>2 DEF TypeOK
  <2> QED BY <1>2, <2>1, <2>2
<1> QED BY <1>1, <1>3, <1>4, <1>5, MovesRefine

LEMMA PurgeMovesRefine ==
  ASSUME PInv, PInv', NEW p \in Proc, PurgeRemove(p) \/ PurgeReclaim(p)
  PROVE  [Abstract!Next]_(Abstract!vars)
<1>1. TypeOK /\ Ready(p) /\ Placed(p)
  BY EntryAtHand
<1>2. pc[p] \in {"remove", "reclaim"}
  BY DEF PurgeRemove, PurgeReclaim, At
<1>3. job[p].entry \in Entry /\ Phase(job[p].entry) = "purge_pending"
  BY <1>1, <1>2, EntryAtHand DEF Ready, Purging
<1>4. PICK v \in {Empty, None} : box' = [box EXCEPT ![job[p].entry] = v] /\ hist' = hist
  BY <1>1 DEF PurgeRemove, PurgeReclaim, WithoutEmptyBox, Placed, At
<1> QED BY <1>1, <1>3, <1>4, MovesRefine

\* The ledger and the payloads change in the order that Lifecycle prescribes,
\* whoever is interrupted where: nothing is recorded as trashed before it is in
\* its object directory, or as restored before it is out of it, and nothing is
\* destroyed without an intent or completed before it is gone.
THEOREM StoreImplementsLifecycle == Spec => ImplementsLifecycle
<1>1. Init => Abstract!Init
  BY DEF Init, Abstract!Init, Phase, PhaseOf
<1>2. ASSUME PInv, [Next]_vars PROVE [Abstract!Next]_(Abstract!vars)
  <2>1. PInv'
    BY <1>2, NextPInv
  <2>2. CASE hist' = hist /\ box' = box
    BY <2>2 DEF Abstract!vars, Phase
  <2>3. CASE Next /\ box' # box
    BY <1>2, <2>1, <2>3, BoxChanges, AddMovesRefine, RestoreMovesRefine, PurgeMovesRefine
  <2>4. CASE Next /\ hist' # hist
    <3>1. PICK p \in Proc :
            \/ AddAppend(p) \/ RestoreRecord(p)
            \/ PurgeIntend(p) \/ PurgeAbandon(p) \/ PurgeComplete(p)
            \/ /\ Appending(p) # "none" /\ CutShort(job[p].entry, Appending(p))
               /\ UNCHANGED <<box, staged, taken>>
      BY <2>4, HistChanges
    <3>2. /\ Appending(p) # "none" /\ CutShort(job[p].entry, Appending(p))
          /\ box' = box
      BY <3>1 DEF AddAppend, RestoreRecord, PurgeIntend, PurgeAbandon, PurgeComplete,
                  Appending, At, CutShort
    <3> QED BY <1>2, <2>1, <2>4, <3>2, AppendsRefine
  <2>5. vars' = vars => hist' = hist /\ box' = box
    BY DEF vars, store
  <2> QED BY <1>2, <2>2, <2>3, <2>4, <2>5
<1>3. Spec => Abstract!Spec
  BY <1>1, <1>2, PInvHolds, PTL DEF Spec, Abstract!Spec
<1> QED BY <1>3 DEF ImplementsLifecycle

-----------------------------------------------------------------------------
(***************************************************************************)
(* No object is lost or duplicated.  A step moves an object from one of    *)
(* the three kinds of places to another that holds none, or it changes     *)
(* what has become of the object.                                          *)
(***************************************************************************)

\* The steps that change a path, the staging area or the contents of an object.
LEMMA ObjectMoves ==
  ASSUME Next, ~UNCHANGED <<file, content, staged>>
  PROVE  (\E p \in Proc : RestorePublish(p) \/ PurgeRemovePart(p) \/ PurgeRemove(p)
                            \/ AddRename(p) \/ AddRenameUnverified(p) \/ AddUndo(p)
                            \/ RestorePlace(p) \/ RestoreStage(p)
                            \/ RestoreStageUnverified(p) \/ RestoreUnstage(p)
                            \/ RestorePutBack(p))
         \/ User
<1>1. ASSUME NEW p \in Proc, BeginCommand(p) PROVE UNCHANGED <<file, content, staged>>
  BY <1>1 DEF BeginCommand, BeginAdd, BeginRestore, BeginPurge, BeginEmpty, BeginPreview,
              BeginList, Begin, store, world
<1>2. ASSUME NEW p \in Proc, Add(p)
      PROVE  \/ UNCHANGED <<file, content, staged>>
             \/ AddRename(p) \/ AddRenameUnverified(p) \/ AddUndo(p)
  BY <1>2 DEF Add, StartAdd, AddRefuse, AddInspect, AddFinish, AddCheck, AddRenameFails,
              AddRmdir, AddRmdirFails, AddAppend, AddAppendFails, AddUndoFails, AddUnbox,
              store, world
<1>3. ASSUME NEW p \in Proc, Restore(p)
      PROVE  \/ UNCHANGED <<file, content, staged>>
             \/ RestorePlace(p) \/ RestoreStage(p) \/ RestoreStageUnverified(p)
             \/ RestorePublish(p) \/ RestoreUnstage(p) \/ RestorePutBack(p)
  BY <1>3 DEF Restore, StartRestore, RestoreOpen, RestoreOpenStaged, RestoreRefuse,
              RestoreVerify, RestoreVerifyFails, RestorePublishFails, RestoreRecord,
              RestoreRecordFails, RestoreRecheck, RestorePutBackFails, Bounce, store, world
<1>4. ASSUME NEW p \in Proc, Purge(p)
      PROVE  UNCHANGED <<file, content, staged>> \/ PurgeRemovePart(p) \/ PurgeRemove(p)
  BY <1>4 DEF Purge, CheckToken, StartPurge, EndPreview, PurgeNext, PurgeFinish,
              PurgeIntend, PurgeRemoveFails, PurgeReclaim, PurgeReclaimFails,
              PurgeAbandon, PurgeComplete, PurgeAppendFails, store, world
<1>5. ASSUME NEW p \in Proc,
             \/ AcquireExclusive(p) \/ AcquireShared(p) \/ AuditRefuses(p)
             \/ Release(p) \/ Crash(p)
      PROVE  UNCHANGED <<file, content, staged>>
  BY <1>5 DEF AcquireExclusive, AcquireShared, AuditRefuses, Release, Crash, store, world
<1>6. Tick => UNCHANGED <<file, content, staged>>
  BY DEF Tick, store, world
<1> QED BY <1>1, <1>2, <1>3, <1>4, <1>5, <1>6 DEF Next, Work

\* From a path into an object directory that holds nothing.
LEMMA FileToBox ==
  ASSUME TypeOK, CInv, NEW x \in Path, NEW e \in Entry,
         file[x] # None, box[e] \notin Obj,
         file' = [file EXCEPT ![x] = None], box' = [box EXCEPT ![e] = file[x]],
         UNCHANGED <<staged, content>>
  PROVE  CInv'
<1>1. /\ \A y \in Path : file'[y] = IF y = x THEN None ELSE file[y]
      /\ \A y \in Entry : box'[y] = IF y = e THEN file[x] ELSE box[y]
      /\ file[x] \in Obj
  BY DEF TypeOK
<1>2. Lone'
  BY <1>1 DEF CInv, Lone
<1>3. \A o \in Obj : Somewhere(o)' <=> Somewhere(o)
  BY <1>1 DEF Somewhere
<1> QED BY <1>2, <1>3 DEF CInv, Alive

\* From an object directory to a free path.
LEMMA BoxToFile ==
  ASSUME TypeOK, CInv, NEW x \in Path, NEW e \in Entry,
         file[x] = None, box[e] \in Obj,
         file' = [file EXCEPT ![x] = box[e]], box' = [box EXCEPT ![e] = Empty],
         UNCHANGED <<staged, content>>
  PROVE  CInv'
<1>1. /\ \A y \in Path : file'[y] = IF y = x THEN box[e] ELSE file[y]
      /\ \A y \in Entry : box'[y] = IF y = e THEN Empty ELSE box[y]
      /\ file[x] \notin Obj
  BY DEF TypeOK
<1>2. Lone'
  BY <1>1 DEF CInv, Lone, TypeOK
<1>3. \A o \in Obj : Somewhere(o)' <=> Somewhere(o)
  BY <1>1 DEF Somewhere
<1> QED BY <1>2, <1>3 DEF CInv, Alive

\* From an object directory to the staging area.
LEMMA BoxToStaged ==
  ASSUME TypeOK, CInv, NEW e \in Entry,
         staged[e] = None, box[e] \in Obj,
         staged' = [staged EXCEPT ![e] = box[e]], box' = [box EXCEPT ![e] = Empty],
         UNCHANGED <<file, content>>
  PROVE  CInv'
<1>1. /\ \A y \in Entry : staged'[y] = IF y = e THEN box[e] ELSE staged[y]
      /\ \A y \in Entry : box'[y] = IF y = e THEN Empty ELSE box[y]
      /\ staged[e] \notin Obj
  BY DEF TypeOK
<1>2. Lone'
  BY <1>1 DEF CInv, Lone, TypeOK
<1>3. \A o \in Obj : Somewhere(o)' <=> Somewhere(o)
  BY <1>1 DEF Somewhere
<1> QED BY <1>2, <1>3 DEF CInv, Alive

\* From the staging area to a free path.
LEMMA StagedToFile ==
  ASSUME TypeOK, CInv, NEW x \in Path, NEW e \in Entry,
         file[x] = None, staged[e] \in Obj,
         file' = [file EXCEPT ![x] = staged[e]], staged' = [staged EXCEPT ![e] = None],
         UNCHANGED <<box, content>>
  PROVE  CInv'
<1>1. /\ \A y \in Path : file'[y] = IF y = x THEN staged[e] ELSE file[y]
      /\ \A y \in Entry : staged'[y] = IF y = e THEN None ELSE staged[y]
      /\ file[x] \notin Obj
  BY DEF TypeOK
<1>2. Lone'
  BY <1>1 DEF CInv, Lone, TypeOK
<1>3. \A o \in Obj : Somewhere(o)' <=> Somewhere(o)
  BY <1>1 DEF Somewhere
<1> QED BY <1>2, <1>3 DEF CInv, Alive

\* From the staging area back.
LEMMA StagedToBox ==
  ASSUME TypeOK, CInv, NEW e \in Entry,
         box[e] = Empty, staged[e] \in Obj,
         box' = [box EXCEPT ![e] = staged[e]], staged' = [staged EXCEPT ![e] = None],
         UNCHANGED <<file, content>>
  PROVE  CInv'
<1>1. /\ \A y \in Entry : box'[y] = IF y = e THEN staged[e] ELSE box[y]
      /\ \A y \in Entry : staged'[y] = IF y = e THEN None ELSE staged[y]
      /\ box[e] \notin Obj
  BY DEF TypeOK
<1>2. Lone'
  BY <1>1 DEF CInv, Lone, TypeOK
<1>3. \A o \in Obj : Somewhere(o)' <=> Somewhere(o)
  BY <1>1 DEF Somewhere
<1> QED BY <1>2, <1>3 DEF CInv, Alive

\* An object directory that holds nothing is made or removed.
LEMMA BoxOnly ==
  ASSUME TypeOK, CInv, NEW e \in Entry, box[e] \notin Obj,
         box' = [box EXCEPT ![e] = None] \/ box' = [box EXCEPT ![e] = Empty],
         UNCHANGED <<file, staged, content>>
  PROVE  CInv'
<1>1. \A y \in Entry : box'[y] \in Obj \/ box[y] \in Obj => box'[y] = box[y]
  BY DEF TypeOK
<1>2. Lone'
  BY <1>1 DEF CInv, Lone, TypeOK
<1>3. \A o \in Obj : Somewhere(o)' <=> Somewhere(o)
  BY <1>1 DEF Somewhere
<1> QED BY <1>2, <1>3 DEF CInv, Alive

LEMMA AddMovesObjects ==
  ASSUME PInv, CInv, NEW p \in Proc,
         \/ AddInspect(p) \/ AddRename(p) \/ AddRenameUnverified(p) \/ AddRmdir(p)
         \/ AddUndo(p) \/ AddUnbox(p)
  PROVE  CInv'
<1>1. TypeOK /\ Ready(p) /\ Bound(p)
  BY EntryAtHand
<1>2. CASE AddInspect(p)
  <2>1. /\ \E e \in Entry : box[e] = None /\ box' = [box EXCEPT ![e] = Empty]
        /\ UNCHANGED <<file, staged, content>>
    BY <1>2 DEF AddInspect, FreshEntry, world
  <2> QED BY <1>1, <2>1, BoxOnly
<1>3. CASE AddRename(p) \/ AddRenameUnverified(p)
  <2>1. /\ pc[p] = "rename" /\ file[job[p].path] # None
        /\ file' = [file EXCEPT ![job[p].path] = None]
        /\ box' = [box EXCEPT ![job[p].entry] = file[job[p].path]]
        /\ UNCHANGED <<staged, content>>
    BY <1>3 DEF AddRename, AddRenameUnverified, At
  <2>2. job[p].entry \in Entry /\ job[p].path \in Path /\ box[job[p].entry] = Empty
    BY <1>1, <2>1 DEF Bound, Ready, Adding
  <2> QED BY <1>1, <2>1, <2>2, FileToBox
<1>4. CASE AddRmdir(p) \/ AddUnbox(p)
  <2>1. /\ pc[p] \in {"rmdir", "unbox"} /\ box' = WithoutEmptyBox(job[p].entry)
        /\ UNCHANGED <<file, staged, content>>
    BY <1>4 DEF AddRmdir, AddUnbox, At, world
  <2>2. job[p].entry \in Entry
    BY <1>1, <2>1 DEF Bound, Adding
  <2>3. CASE box[job[p].entry] = Empty
    BY <1>1, <2>1, <2>2, <2>3, BoxOnly DEF WithoutEmptyBox
  <2>4. CASE box[job[p].entry] # Empty
    BY <2>1, <2>4 DEF WithoutEmptyBox, CInv, Lone, Somewhere, Alive
  <2> QED BY <2>3, <2>4
<1>5. CASE AddUndo(p)
  <2>1. /\ pc[p] = "undo" /\ file[job[p].path] = None
        /\ file' = [file EXCEPT ![job[p].path] = box[job[p].entry]]
        /\ box' = [box EXCEPT ![job[p].entry] = Empty]
        /\ UNCHANGED <<staged, content>>
    BY <1>5 DEF AddUndo, At
  <2>2. job[p].entry \in Entry /\ job[p].path \in Path /\ box[job[p].entry] \in Obj
    BY <1>1, <2>1 DEF Bound, Ready, Adding
  <2> QED BY <1>1, <2>1, <2>2, BoxToFile
<1> QED BY <1>2, <1>3, <1>4, <1>5

LEMMA RestoreMovesObjects ==
  ASSUME PInv, CInv, NEW p \in Proc,
         \/ RestorePlace(p) \/ RestoreStage(p) \/ RestoreStageUnverified(p)
         \/ RestorePublish(p) \/ RestoreUnstage(p) \/ RestorePutBack(p)
  PROVE  CInv'
<1>1. TypeOK /\ Ready(p) /\ Placed(p)
  BY EntryAtHand
<1>2. pc[p] \in Restoring
  BY DEF RestorePlace, RestoreStage, RestoreStageUnverified, RestorePublish,
         RestoreUnstage, RestorePutBack, At, Restoring
<1>3. job[p].entry \in Entry /\ job[p].path \in Path
  BY <1>2, RestoreContext DEF PInv
<1>4. CASE RestorePlace(p)
  <2>1. /\ file[job[p].path] = None /\ box[job[p].entry] \in Obj
        /\ file' = [file EXCEPT ![job[p].path] = box[job[p].entry]]
        /\ box' = [box EXCEPT ![job[p].entry] = Empty]
        /\ UNCHANGED <<staged, content>>
    BY <1>1, <1>4 DEF RestorePlace, At, Ready
  <2> QED BY <1>1, <1>3, <2>1, BoxToFile
<1>5. CASE RestoreStage(p) \/ RestoreStageUnverified(p)
  <2>1. /\ pc[p] = "stage" /\ box[job[p].entry] \in Obj
        /\ staged' = [staged EXCEPT ![job[p].entry] = box[job[p].entry]]
        /\ box' = [box EXCEPT ![job[p].entry] = Empty]
        /\ UNCHANGED <<file, content>>
    BY <1>1, <1>5 DEF RestoreStage, RestoreStageUnverified, At, Ready, world
  <2>2. staged[job[p].entry] = None
    BY <1>3, <2>1 DEF PInv, Stranded
  <2> QED BY <1>1, <1>3, <2>1, <2>2, BoxToStaged
<1>6. CASE RestorePublish(p)
  <2>1. /\ file[job[p].path] = None /\ staged[job[p].entry] \in Obj
        /\ file' = [file EXCEPT ![job[p].path] = staged[job[p].entry]]
        /\ staged' = [staged EXCEPT ![job[p].entry] = None]
        /\ UNCHANGED <<box, content>>
    BY <1>1, <1>6 DEF RestorePublish, At, Placed
  <2> QED BY <1>1, <1>3, <2>1, StagedToFile
<1>7. CASE RestoreUnstage(p)
  <2>1. /\ box[job[p].entry] = Empty /\ staged[job[p].entry] \in Obj
        /\ box' = [box EXCEPT ![job[p].entry] = staged[job[p].entry]]
        /\ staged' = [staged EXCEPT ![job[p].entry] = None]
        /\ UNCHANGED <<file, content>>
    BY <1>1, <1>7 DEF RestoreUnstage, At, Placed, world
  <2> QED BY <1>1, <1>3, <2>1, StagedToBox
<1>8. CASE RestorePutBack(p)
  <2>1. /\ file[job[p].path] # None /\ box[job[p].entry] = Empty
        /\ file' = [file EXCEPT ![job[p].path] = None]
        /\ box' = [box EXCEPT ![job[p].entry] = file[job[p].path]]
        /\ UNCHANGED <<staged, content>>
    BY <1>1, <1>8 DEF RestorePutBack, At, Placed
  <2> QED BY <1>1, <1>3, <2>1, FileToBox
<1> QED BY <1>4, <1>5, <1>6, <1>7, <1>8

\* A purge destroys the object that it takes out of its directory.
LEMMA PurgeMovesObjects ==
  ASSUME PInv, CInv, NEW p \in Proc,
         PurgeRemovePart(p) \/ PurgeRemove(p) \/ PurgeReclaim(p)
  PROVE  CInv'
<1>1. TypeOK /\ Placed(p)
  BY EntryAtHand
<1>2. pc[p] \in {"remove", "reclaim"}
  BY DEF PurgeRemovePart, PurgeRemove, PurgeReclaim, At
<1>3. PICK e \in Entry : e = job[p].entry
  BY <1>2, EntryAtHand DEF Purging
<1>4. CASE PurgeRemovePart(p)
  <2>1. /\ box[e] \in Obj /\ content[box[e]] = "whole"
        /\ content' = [content EXCEPT ![box[e]] = "part"]
        /\ UNCHANGED <<file, box, staged>>
    BY <1>3, <1>4 DEF PurgeRemovePart, store
  <2>2. \A o \in Obj : (Alive(o)' <=> Alive(o)) /\ (Somewhere(o)' <=> Somewhere(o))
    BY <1>1, <2>1 DEF Alive, Somewhere, TypeOK
  <2>3. Lone'
    BY <2>1 DEF CInv, Lone
  <2> QED BY <2>2, <2>3 DEF CInv
<1>5. CASE PurgeRemove(p)
  <2>1. /\ box[e] \in Obj
        /\ content' = [content EXCEPT ![box[e]] = "purged"]
        /\ box' = [box EXCEPT ![e] = Empty]
        /\ UNCHANGED <<file, staged>>
    BY <1>3, <1>5 DEF PurgeRemove
  <2>2. /\ \A y \in Entry : box'[y] = IF y = e THEN Empty ELSE box[y]
        /\ \A o \in Obj : content'[o] = IF o = box[e] THEN "purged" ELSE content[o]
    BY <1>1, <2>1 DEF TypeOK
  <2>3. Lone'
    BY <1>1, <2>1, <2>2 DEF CInv, Lone, TypeOK
  <2>4. ASSUME NEW o \in Obj PROVE Alive(o)' <=> Somewhere(o)'
    <3>1. CASE o = box[e]
      BY <1>1, <2>1, <2>2, <3>1 DEF CInv, Lone, Alive, Somewhere, TypeOK
    <3>2. CASE o # box[e]
      BY <2>1, <2>2, <3>2 DEF CInv, Alive, Somewhere
    <3> QED BY <3>1, <3>2
  <2> QED BY <2>3, <2>4 DEF CInv
<1>6. CASE PurgeReclaim(p)
  <2>1. box[e] = Empty /\ box' = WithoutEmptyBox(e) /\ UNCHANGED <<file, staged, content>>
    BY <1>1, <1>3, <1>6 DEF PurgeReclaim, At, Placed, world
  <2> QED BY <1>1, <2>1, BoxOnly DEF WithoutEmptyBox
<1> QED BY <1>4, <1>5, <1>6

LEMMA UserMovesObjects ==
  ASSUME PInv, CInv, User
  PROVE  CInv'
<1>1. TypeOK
  BY DEF PInv, IInv
<1>2. ASSUME NEW x \in Path, UserDelete(x) PROVE CInv'
  <2>1. /\ file[x] \in Obj
        /\ \A y \in Path : file'[y] = IF y = x THEN None ELSE file[y]
        /\ \A o \in Obj : content'[o] = IF o = file[x] THEN "deleted" ELSE content[o]
        /\ UNCHANGED <<box, staged>>
    BY <1>1, <1>2 DEF UserDelete, TypeOK, store
  <2>2. Lone'
    BY <2>1 DEF CInv, Lone
  <2>3. ASSUME NEW o \in Obj PROVE Alive(o)' <=> Somewhere(o)'
    <3>1. CASE o = file[x]
      BY <2>1, <3>1 DEF CInv, Lone, Alive, Somewhere
    <3>2. CASE o # file[x]
      BY <2>1, <3>2 DEF CInv, Alive, Somewhere
    <3> QED BY <3>1, <3>2
  <2> QED BY <2>2, <2>3 DEF CInv
<1>3. ASSUME NEW x \in Path, NEW o \in Obj, UserCreate(x, o) PROVE CInv'
  <2>1. /\ file[x] = None /\ ~Alive(o)
        /\ \A y \in Path : file'[y] = IF y = x THEN o ELSE file[y]
        /\ \A q \in Obj : content'[q] = IF q = o THEN "whole" ELSE content[q]
        /\ UNCHANGED <<box, staged>>
    BY <1>1, <1>3 DEF UserCreate, TypeOK, store, Alive
  <2>2. ~Somewhere(o)
    BY <2>1 DEF CInv
  <2>3. Lone'
    BY <2>1, <2>2 DEF CInv, Lone, Somewhere
  <2>4. ASSUME NEW q \in Obj PROVE Alive(q)' <=> Somewhere(q)'
    <3>1. CASE q = o
      BY <2>1, <3>1 DEF Alive, Somewhere
    <3>2. CASE q # o
      BY <2>1, <3>2 DEF CInv, Alive, Somewhere
    <3> QED BY <3>1, <3>2
  <2> QED BY <2>3, <2>4 DEF CInv
<1> QED BY <1>2, <1>3 DEF User

LEMMA InitCInv == Init => CInv
<1> SUFFICES ASSUME Init PROVE CInv
  OBVIOUS
<1>1. Lone
  BY DEF Init, Lone
<1>2. \A o \in Obj : Alive(o) <=> Somewhere(o)
  BY DEF Init, Alive, Somewhere
<1> QED BY <1>1, <1>2 DEF CInv

LEMMA NextCInv == PInv /\ CInv /\ [Next]_vars => CInv'
<1> SUFFICES ASSUME PInv, CInv, [Next]_vars PROVE CInv'
  OBVIOUS
<1>1. CASE UNCHANGED <<file, content, box, staged>>
  BY <1>1 DEF CInv, Lone, Alive, Somewhere
<1>2. CASE Next /\ ~UNCHANGED <<file, content, box, staged>>
  <2>1. \/ User
        \/ \E p \in Proc :
             \/ AddInspect(p) \/ AddRename(p) \/ AddRenameUnverified(p) \/ AddRmdir(p)
             \/ AddUndo(p) \/ AddUnbox(p)
             \/ RestorePlace(p) \/ RestoreStage(p) \/ RestoreStageUnverified(p)
             \/ RestorePublish(p) \/ RestoreUnstage(p) \/ RestorePutBack(p)
             \/ PurgeRemovePart(p) \/ PurgeRemove(p) \/ PurgeReclaim(p)
    <3>1. CASE box' # box
      BY <1>2, <3>1, BoxChanges
    <3>2. CASE ~UNCHANGED <<file, content, staged>>
      BY <1>2, <3>2, ObjectMoves
    <3> QED BY <1>2, <3>1, <3>2
  <2> QED BY <2>1, AddMovesObjects, RestoreMovesObjects, PurgeMovesObjects, UserMovesObjects
<1>3. UNCHANGED vars => UNCHANGED <<file, content, box, staged>>
  BY DEF vars, store, world
<1> QED BY <1>1, <1>2, <1>3

\* A set whose elements are all equal has at most one.
LEMMA AtMostOne ==
  ASSUME NEW S, \A x, y \in S : x = y
  PROVE  Cardinality(S) = IF S = {} THEN 0 ELSE 1
<1>1. CASE S = {}
  BY <1>1, FS_EmptySet
<1>2. CASE S # {}
  <2>1. PICK x : S = {x}
    BY <1>2
  <2> QED BY <1>2, <2>1, FS_Singleton
<1> QED BY <1>1, <1>2

LEMMA LoneIsConserved ==
  ASSUME TypeOK, CInv
  PROVE  Conserved
<1> SUFFICES ASSUME NEW o \in Obj
             PROVE  Cardinality({x \in Path : file[x] = o})
                      + Cardinality({e \in Entry : box[e] = o})
                      + Cardinality({e \in Entry : staged[e] = o})
                        = IF Alive(o) THEN 1 ELSE 0
  BY DEF Conserved
<1> DEFINE F == {x \in Path : file[x] = o}
           B == {e \in Entry : box[e] = o}
           S == {e \in Entry : staged[e] = o}
<1>1. /\ \A x, y \in F : x = y
      /\ \A x, y \in B : x = y
      /\ \A x, y \in S : x = y
      /\ F # {} => B = {} /\ S = {}
      /\ B # {} => S = {}
  BY DEF CInv, Lone
<1>2. Alive(o) <=> F # {} \/ B # {} \/ S # {}
  BY DEF CInv, Somewhere
<1> HIDE DEF F, B, S
<1>3. /\ Cardinality(F) = IF F = {} THEN 0 ELSE 1
      /\ Cardinality(B) = IF B = {} THEN 0 ELSE 1
      /\ Cardinality(S) = IF S = {} THEN 0 ELSE 1
  BY <1>1, AtMostOne
<1>4. Cardinality(F) + Cardinality(B) + Cardinality(S) = IF Alive(o) THEN 1 ELSE 0
  BY <1>1, <1>2, <1>3
<1> QED BY <1>4 DEF F, B, S

\* Whatever fails, whoever is killed and whatever the user does meanwhile, an
\* object that exists is in exactly one place and a destroyed one is nowhere:
\* no command loses, copies or overwrites anything.
THEOREM NothingIsLost == Spec => []Conserved
<1>1. Spec => []CInv
  BY InitCInv, NextCInv, PInvHolds, PTL DEF Spec
<1>2. PInv /\ CInv => Conserved
  BY LoneIsConserved DEF PInv, IInv
<1> QED BY <1>1, <1>2, PInvHolds, PTL

-----------------------------------------------------------------------------
(***************************************************************************)
(* The lock, and what the steps of its holder have in common.              *)
(***************************************************************************)

LEMMA AddKeepsLock ==
  ASSUME TypeOK, NEW p \in Proc, Add(p)
  PROVE  UNCHANGED locks /\ Holds(p) /\ Holds(p)' /\ Elsewhere(p)
<1>1. UNCHANGED locks /\ pc[p] \in Adding \cup {"audit"}
  BY DEF Add, StartAdd, AddRefuse, AddInspect, AddFinish, AddCheck, AddRename,
         AddRenameUnverified, AddRenameFails, AddRmdir, AddRmdirFails, AddAppend,
         AddAppendFails, AddUndo, AddUndoFails, AddUnbox, At, Adding
<1>2. \/ pc' = pc
      \/ \E l \in {"add", "done", "move", "rename", "rmdir", "append", "undo", "unbox"} :
           Goto(p, l)
  BY DEF Add, StartAdd, AddRefuse, AddInspect, AddFinish, AddCheck, AddRename,
         AddRenameUnverified, AddRenameFails, AddRmdir, AddRmdirFails, AddAppend,
         AddAppendFails, AddUndo, AddUndoFails, AddUnbox
<1>3. job' = job \/ \E j : Store(p, j)
  BY DEF Add, StartAdd, AddRefuse, AddInspect, AddFinish, AddCheck, AddRename,
         AddRenameUnverified, AddRenameFails, AddRmdir, AddRmdirFails, AddAppend,
         AddAppendFails, AddUndo, AddUndoFails, AddUnbox
<1>4. Elsewhere(p) /\ pc'[p] \in Adding \cup {"audit", "done"}
  BY <1>1, <1>2, <1>3 DEF TypeOK, Goto, Store, Elsewhere, Adding
<1> QED BY <1>1, <1>4 DEF Holds, Waiting, Reading, Adding

LEMMA RestoreKeepsLock ==
  ASSUME TypeOK, NEW p \in Proc, Restore(p)
  PROVE  UNCHANGED locks /\ Holds(p) /\ Holds(p)' /\ Elsewhere(p)
<1>1. UNCHANGED locks /\ pc[p] \in Restoring \cup {"audit"}
  BY DEF Restore, StartRestore, RestoreOpen, RestoreOpenStaged, RestoreRefuse,
         RestorePlace, RestoreVerify, RestoreVerifyFails, RestoreStage,
         RestoreStageUnverified, RestorePublish, RestorePublishFails, RestoreUnstage,
         RestoreRecord, RestoreRecordFails, RestoreRecheck, RestorePutBack,
         RestorePutBackFails, Bounce, At, Restoring
<1>2. \E l \in Restoring \cup {"done"} : Goto(p, l)
  BY DEF Restore, StartRestore, RestoreOpen, RestoreOpenStaged, RestoreRefuse,
         RestorePlace, RestoreVerify, RestoreVerifyFails, RestoreStage,
         RestoreStageUnverified, RestorePublish, RestorePublishFails, RestoreUnstage,
         RestoreRecord, RestoreRecordFails, RestoreRecheck, RestorePutBack,
         RestorePutBackFails, Bounce, Restoring
<1>3. job' = job \/ \E j : Store(p, j)
  BY DEF Restore, StartRestore, RestoreOpen, RestoreOpenStaged, RestoreRefuse,
         RestorePlace, RestoreVerify, RestoreVerifyFails, RestoreStage,
         RestoreStageUnverified, RestorePublish, RestorePublishFails, RestoreUnstage,
         RestoreRecord, RestoreRecordFails, RestoreRecheck, RestorePutBack,
         RestorePutBackFails, Bounce
<1>4. Elsewhere(p) /\ pc'[p] \in Restoring \cup {"done"}
  BY <1>2, <1>3 DEF TypeOK, Goto, Store, Elsewhere
<1> QED BY <1>1, <1>4 DEF Holds, Waiting, Reading, Restoring

LEMMA PurgeKeepsLock ==
  ASSUME TypeOK, NEW p \in Proc, Purge(p) \/ AuditRefuses(p)
  PROVE  UNCHANGED locks /\ Holds(p) /\ Holds(p)' /\ Elsewhere(p)
<1>1. UNCHANGED locks /\ pc[p] \in Purging \cup {"audit", "token"}
  BY DEF Purge, CheckToken, StartPurge, EndPreview, PurgeNext, PurgeFinish, PurgeIntend,
         PurgeRemovePart, PurgeRemove, PurgeRemoveFails, PurgeReclaim, PurgeReclaimFails,
         PurgeAbandon, PurgeComplete, PurgeAppendFails, AuditRefuses, At, Purging
<1>2. pc' = pc \/ \E l \in Purging \cup {"audit", "done"} : Goto(p, l)
  BY DEF Purge, CheckToken, StartPurge, EndPreview, PurgeNext, PurgeFinish, PurgeIntend,
         PurgeRemovePart, PurgeRemove, PurgeRemoveFails, PurgeReclaim, PurgeReclaimFails,
         PurgeAbandon, PurgeComplete, PurgeAppendFails, AuditRefuses, Purging
<1>3. job' = job \/ \E j : Store(p, j)
  BY DEF Purge, CheckToken, StartPurge, EndPreview, PurgeNext, PurgeFinish, PurgeIntend,
         PurgeRemovePart, PurgeRemove, PurgeRemoveFails, PurgeReclaim, PurgeReclaimFails,
         PurgeAbandon, PurgeComplete, PurgeAppendFails, AuditRefuses
<1>4. Elsewhere(p) /\ pc'[p] \in Purging \cup {"audit", "done", "token"}
  BY <1>1, <1>2, <1>3 DEF TypeOK, Goto, Store, Elsewhere
<1> QED BY <1>1, <1>4 DEF Holds, Waiting, Reading, Purging

\* A step that lets go of the lock, or takes it.
LEMMA LocksLInv ==
  ASSUME TypeOK, LInv, NEW p \in Proc,
         \/ AcquireExclusive(p) \/ AcquireShared(p) \/ Release(p) \/ Crash(p)
  PROVE  LInv'
<1>1. CASE AcquireExclusive(p)
  <2>1. /\ lock' = p /\ readers' = {} /\ pc'[p] \in {"token", "audit"}
    BY <1>1, Moves DEF AcquireExclusive, Free
  <2> QED BY <2>1 DEF LInv, Holds, Waiting, Reading
<1>2. CASE AcquireShared(p)
  BY <1>2 DEF AcquireShared, LInv
<1>3. CASE Release(p) \/ Crash(p)
  <2>1. Elsewhere(p)
    BY <1>3, Moves DEF Release, Crash, Unlock
  <2>2. /\ lock' = (IF lock = p THEN None ELSE lock)
        /\ readers' = readers \ {p}
    BY <1>3 DEF Release, Crash, Unlock
  <2> QED BY <2>1, <2>2 DEF LInv, Holds, Elsewhere
<1> QED BY <1>1, <1>2, <1>3

LEMMA NextLInv == TypeOK /\ LInv /\ [Next]_vars => LInv'
<1> SUFFICES ASSUME TypeOK, LInv, [Next]_vars PROVE LInv'
  OBVIOUS
<1>1. ASSUME NEW p \in Proc, BeginCommand(p) PROVE LInv'
  <2>1. PICK j : Begin(p, j)
    BY <1>1 DEF BeginCommand, BeginAdd, BeginRestore, BeginPurge, BeginEmpty,
                BeginPreview, BeginList
  <2>2. pc[p] = "idle" /\ Elsewhere(p) /\ UNCHANGED locks
    BY <2>1, Moves DEF Begin, At
  <2>3. lock # p
    BY <2>2 DEF LInv, Holds, Waiting
  <2> QED BY <2>2, <2>3 DEF LInv, Holds, Elsewhere, locks
<1>2. ASSUME NEW p \in Proc, Add(p) \/ Restore(p) \/ Purge(p) \/ AuditRefuses(p)
      PROVE  LInv'
  <2>1. UNCHANGED locks /\ Holds(p)' /\ Elsewhere(p)
    BY <1>2, AddKeepsLock, RestoreKeepsLock, PurgeKeepsLock
  <2> QED BY <2>1 DEF LInv, Holds, Elsewhere, locks
<1>3. CASE User \/ Tick \/ UNCHANGED vars
  <2>1. UNCHANGED locks /\ UNCHANGED pc
    BY <1>3 DEF User, UserCreate, UserDelete, Tick, vars
  <2> QED BY <2>1 DEF LInv, Holds, locks
<1> QED BY <1>1, <1>2, <1>3, LocksLInv DEF Next, Work

\* What fails, is killed or is changed by the user is counted.
LEMMA Counted ==
  ASSUME TypeOK, Undisturbed'
  PROVE  /\ ~Fault
         /\ ~Edit
         /\ \A p \in Proc : ~Crash(p)
         /\ UNCHANGED <<crashes, faults, edits>> => Undisturbed
BY DEF Undisturbed, Fault, Edit, Crash, TypeOK

-----------------------------------------------------------------------------
(***************************************************************************)
(* The store is clean between commands as long as nothing but commands     *)
(* has touched it.                                                         *)
(***************************************************************************)

LEMMA SteadyKept ==
  ASSUME NEW q \in Proc, Steady(q), Quiet, file' = file,
         pc'[q] = pc[q], job'[q] = job[q]
  PROVE  Steady(q)'
<1>1. \A e \in Entry : EntryClean(e)' <=> EntryClean(e)
  BY UntouchedIsClean DEF Quiet
<1> QED BY <1>1 DEF Steady, Quiet, KindOf

\* A step that leaves the store and the files alone, and disturbs nobody.
LEMMA CalmUInv ==
  ASSUME PInv, UInv, LInv', NEW p \in Proc, Elsewhere(p), Quiet, file' = file,
         Undisturbed' => Undisturbed, ~Holds(p)', lock' = lock \/ lock' = None,
         Holds(p) /\ Undisturbed' => AuditClean,
         lock' # lock => Holds(p)
  PROVE  UInv'
<1> SUFFICES ASSUME Undisturbed'
             PROVE  /\ lock' = None => AuditClean'
                    /\ \A q \in Proc : Holds(q)' => Steady(q)'
  BY DEF UInv
<1>1. AuditClean' <=> AuditClean
  BY UntouchedIsClean DEF AuditClean, Quiet
<1>2. lock' = None => AuditClean'
  BY <1>1 DEF UInv
<1>3. ASSUME NEW q \in Proc, Holds(q)' PROVE Steady(q)'
  <2>1. q # p /\ pc'[q] = pc[q] /\ job'[q] = job[q]
    BY <1>3 DEF Elsewhere
  <2>2. Steady(q)
    BY <1>3, <2>1 DEF Holds, UInv
  <2> QED BY <2>1, <2>2, SteadyKept
<1> QED BY <1>2, <1>3

\* A step of the holder of the lock.
LEMMA HolderUInv ==
  ASSUME PInv, LInv', NEW p \in Proc, Holds(p)', UNCHANGED locks, Elsewhere(p), Holds(p),
         Undisturbed' => Steady(p)'
  PROVE  UInv'
<1>1. lock = p /\ lock # None
  BY DEF PInv, IInv, Locked
<1>2. \A q \in Proc \ {p} : ~Holds(q)'
  BY <1>1 DEF PInv, IInv, Locked, Holds, Elsewhere
<1> QED BY <1>1, <1>2 DEF UInv, locks

\* What the holder of the lock knows if nothing has been disturbed.
LEMMA SteadyNow ==
  ASSUME PInv, UInv, NEW p \in Proc, Holds(p), Undisturbed
  PROVE  /\ Steady(p) /\ TypeOK /\ Ready(p) /\ Bound(p) /\ Placed(p) /\ Told(p)
         /\ pc[p] \notin Halfway => AuditClean
<1>1. Steady(p)
  BY DEF UInv
<1>2. pc[p] \notin Halfway => AuditClean
  BY <1>1 DEF Steady, AuditClean
<1> QED BY <1>1, <1>2, EntryAtHand

\* Labels at which being steady is that the store is clean.
Between == {"audit", "token", "done", "add", "open", "stage", "rmdir"} \cup
           {"purge", "intend", "remove", "abandon"}

LEMMA CleanIsSteady ==
  ASSUME NEW p \in Proc, pc'[p] \in Between, AuditClean'
  PROVE  Steady(p)'
BY DEF Steady, Between, AuditClean

\* A purge is steady in all circumstances.
LEMMA PurgingIsSteady ==
  ASSUME NEW p \in Proc, pc'[p] \in Purging, Sweeping(p)'
  PROVE  Steady(p)'
BY DEF Steady, Sweeping, Purging, Halfway, AuditClean

LEMMA PurgeSteady ==
  ASSUME PInv, PInv', UInv, NEW p \in Proc, Purge(p) \/ AuditRefuses(p), Undisturbed'
  PROVE  Steady(p)'
<1>1. TypeOK /\ Holds(p) /\ Sweeping(p)'
  BY PurgeKeepsLock, EntryAtHand DEF PInv
<1>2. CASE \/ StartPurge(p) \/ PurgeNext(p) \/ PurgeIntend(p) \/ PurgeRemovePart(p)
           \/ PurgeRemove(p) \/ PurgeReclaim(p) \/ PurgeAbandon(p) \/ PurgeComplete(p)
  <2>1. (pc' = pc /\ pc[p] = "remove") \/ \E l \in Purging : Goto(p, l)
    BY <1>2 DEF StartPurge, PurgeNext, PurgeIntend, PurgeRemovePart, PurgeRemove,
                PurgeReclaim, PurgeAbandon, PurgeComplete, Purging, At
  <2>2. pc'[p] \in Purging
    BY <1>1, <2>1 DEF TypeOK, Goto, Purging
  <2> QED BY <1>1, <2>2, PurgingIsSteady
<1>3. CASE AuditRefuses(p) \/ CheckToken(p) \/ EndPreview(p) \/ PurgeFinish(p)
  <2>1. /\ pc[p] \in {"audit", "token", "purge"} /\ Quiet /\ UNCHANGED bounds
        /\ Goto(p, "audit") \/ Goto(p, "done")
    BY <1>3 DEF AuditRefuses, CheckToken, EndPreview, PurgeFinish, At, Quiet, store
  <2>2. Undisturbed
    BY <1>1, <2>1, Counted DEF bounds
  <2>3. AuditClean
    BY <1>1, <2>1, <2>2, SteadyNow DEF Halfway
  <2>4. AuditClean'
    BY <2>1, <2>3, UntouchedIsClean DEF AuditClean, Quiet
  <2>5. pc'[p] \in Between
    BY <1>1, <2>1, Moves DEF TypeOK, Goto, Between
  <2> QED BY <2>4, <2>5, CleanIsSteady
<1>4. ~PurgeRemoveFails(p) /\ ~PurgeReclaimFails(p) /\ ~PurgeAppendFails(p)
  BY <1>1, Counted DEF PurgeRemoveFails, PurgeReclaimFails, PurgeAppendFails
<1> QED BY <1>2, <1>3, <1>4 DEF Purge

LEMMA AddSteady ==
  ASSUME PInv, PInv', UInv, NEW p \in Proc, Add(p), Undisturbed'
  PROVE  Steady(p)'
<1>1. TypeOK /\ Holds(p) /\ HistoriesValid /\ IInv'
  BY AddKeepsLock DEF PInv, IInv
<1>2. CASE StartAdd(p) \/ AddRefuse(p) \/ AddFinish(p)
  <2>1. /\ pc[p] \in {"audit", "add"} /\ Quiet /\ UNCHANGED bounds
        /\ Goto(p, "add") \/ Goto(p, "done") \/ pc' = pc
    BY <1>2 DEF StartAdd, AddRefuse, AddFinish, At, Quiet, store
  <2>2. Undisturbed
    BY <1>1, <2>1, Counted DEF bounds
  <2>3. AuditClean
    BY <1>1, <2>1, <2>2, SteadyNow DEF Halfway
  <2>4. AuditClean'
    BY <2>1, <2>3, UntouchedIsClean DEF AuditClean, Quiet
  <2>5. pc'[p] \in Between
    BY <1>1, <2>1 DEF TypeOK, Goto, Between
  <2> QED BY <2>4, <2>5, CleanIsSteady
<1>3. CASE AddInspect(p)
  <2>1. PICK x \in job[p].todo, e \in Entry :
          /\ FreshEntry(e)
          /\ box' = [box EXCEPT ![e] = Empty]
          /\ Store(p, [job[p] EXCEPT !.todo = @ \ {x}, !.entry = e,
                                     !.path = x, !.seen = file[x]])
    BY <1>3 DEF AddInspect
  <2>2. /\ pc[p] = "add" /\ UNCHANGED <<file, hist, torn, taken, bounds>>
    BY <1>3 DEF AddInspect, At, world
  <2>3. /\ pc'[p] = "move"
        /\ job'[p] = [job[p] EXCEPT !.todo = @ \ {x}, !.entry = e,
                                    !.path = x, !.seen = file[x]]
    BY <1>1, <1>3, <2>1, Moves DEF AddInspect
  <2>4. job'[p].path = x /\ job'[p].seen = file[x]
    BY <1>1, <2>3 DEF TypeOK, Jobs
  <2>5. AuditClean
    BY <1>1, <2>2, Counted, SteadyNow DEF bounds, Halfway
  <2>6. EntryClean(e)'
    <3>1. Phase(e)' = "none" /\ box'[e] = Empty
      BY <1>1, <2>1, <2>2 DEF FreshEntry, Phase, PhaseOf, TypeOK
    <3> QED BY <1>1, <3>1, PassesAudit DEF Expected
  <2>7. ASSUME NEW y \in Entry \ {e} PROVE EntryClean(y)'
    <3>1. box'[y] = box[y]
      BY <1>1, <2>1 DEF TypeOK
    <3> QED BY <2>2, <2>5, <3>1, UntouchedIsClean DEF AuditClean
  <2>8. ~torn'
    BY <2>2, <2>5 DEF AuditClean
  <2> QED BY <2>2, <2>3, <2>4, <2>6, <2>7, <2>8 DEF Steady
<1>4. CASE AddCheck(p) \/ AddRenameFails(p)
  <2>1. /\ pc[p] \in {"move", "rename"} /\ pc'[p] \in {"rename", "rmdir"}
        /\ Quiet /\ UNCHANGED <<file, bounds>> /\ job'[p] = job[p]
    BY <1>1, <1>4, Moves, Counted DEF AddCheck, AddRenameFails, At, Quiet, store, world
  <2>2. Steady(p) /\ AuditClean
    BY <1>1, <2>1, Counted, SteadyNow DEF bounds, Halfway
  <2>3. \A e \in Entry : EntryClean(e)'
    BY <2>1, <2>2, UntouchedIsClean DEF AuditClean, Quiet
  <2> QED BY <2>1, <2>2, <2>3 DEF Steady, Quiet
<1>5. CASE AddRename(p)
  <2>1. pc[p] = "rename" /\ UNCHANGED <<hist, torn, bounds, job>>
    BY <1>5 DEF AddRename, At
  <2>2. Steady(p) /\ AuditClean
    BY <1>1, <2>1, Counted, SteadyNow DEF bounds, Halfway
  <2>3. PICK e \in Entry : e = job[p].entry
    BY <2>1, EntryAtHand DEF Adding
  <2>4. /\ Goto(p, "append")
        /\ box' = [box EXCEPT ![e] = job[p].seen]
        /\ taken' = [taken EXCEPT ![e] = job[p].seen]
    BY <1>5, <2>1, <2>2, <2>3 DEF AddRename, Steady
  <2>5. /\ pc'[p] = "append" /\ job'[p] = job[p]
        /\ box'[e] = taken'[e]
        /\ \A y \in Entry \ {e} : box'[y] = box[y] /\ taken'[y] = taken[y]
    <3>1. pc'[p] = "append" /\ job'[p] = job[p]
      BY <1>1, <2>1, <2>4, Moves
    <3>2. /\ box'[e] = taken'[e]
          /\ \A y \in Entry \ {e} : box'[y] = box[y] /\ taken'[y] = taken[y]
      BY <1>1, <2>4 DEF TypeOK
    <3> QED BY <3>1, <3>2
  <2>6. \A y \in Entry \ {e} : EntryClean(y)'
    BY <2>1, <2>2, <2>5, UntouchedIsClean DEF AuditClean
  <2> QED BY <2>1, <2>2, <2>3, <2>5, <2>6 DEF Steady, Halfway
<1>6. CASE AddRmdir(p)
  <2>1. /\ pc[p] = "rmdir" /\ UNCHANGED <<hist, torn, taken, bounds>>
        /\ box' = WithoutEmptyBox(job[p].entry) /\ pc'[p] = "add"
    BY <1>1, <1>6, Moves DEF AddRmdir, At
  <2>2. AuditClean
    BY <1>1, <2>1, Counted, SteadyNow DEF bounds, Halfway
  <2>3. ASSUME NEW y \in Entry PROVE EntryClean(y)'
    <3>1. box'[y] = box[y] \/ (box[y] \notin Obj /\ box'[y] \notin Obj)
      BY <1>1, <2>1 DEF WithoutEmptyBox, TypeOK
    <3>2. CASE box'[y] = box[y]
      BY <2>1, <2>2, <3>2, UntouchedIsClean DEF AuditClean
    <3>3. CASE box[y] \notin Obj /\ box'[y] \notin Obj
      <4>1. ~Expected(y)
        BY <2>2, <3>3 DEF AuditClean, EntryClean
      <4>2. ~Expected(y)'
        BY <2>1, <4>1 DEF Expected, Phase
      <4> QED BY <1>1, <3>3, <4>2, PassesAudit
    <3> QED BY <3>1, <3>2, <3>3
  <2>4. AuditClean' /\ pc'[p] \in Between
    BY <2>1, <2>2, <2>3 DEF AuditClean, Between
  <2> QED BY <2>4, CleanIsSteady
<1>7. CASE AddAppend(p)
  <2>1. /\ pc[p] = "append" /\ UNCHANGED <<box, taken, bounds>>
        /\ pc'[p] = "add"
    BY <1>1, <1>7, Moves DEF AddAppend, At
  <2>2. PICK e \in Entry : e = job[p].entry
    BY <2>1, EntryAtHand DEF Adding
  <2>3. Steady(p) /\ Ready(p)
    BY <1>1, <2>1, Counted, SteadyNow DEF bounds
  <2>4. /\ Appended(e, "trash") /\ CanFollow(hist[e], "trash") /\ "trash" \in Operations
    BY <1>7, <2>1, <2>2, <2>3 DEF AddAppend, Ready, CanFollow, Operations
  <2>5. /\ Phase(e)' = "active" /\ torn' = torn
        /\ \A y \in Entry \ {e} : hist'[y] = hist[y]
    BY <2>4, LinesWritten, PhasesAfter DEF PInv
  <2>6. EntryClean(e)'
    <3>1. box[e] \in Obj /\ box[e] = taken[e]
      BY <2>1, <2>2, <2>3 DEF Ready, Steady
    <3> QED BY <1>1, <2>1, <2>5, <3>1, PassesAudit DEF Expected
  <2>7. \A y \in Entry \ {e} : EntryClean(y)'
    BY <2>1, <2>2, <2>3, <2>5, UntouchedIsClean DEF Steady
  <2>8. AuditClean' /\ pc'[p] \in Between
    BY <2>1, <2>3, <2>5, <2>6, <2>7 DEF AuditClean, Between, Steady
  <2> QED BY <2>8, CleanIsSteady
<1>8. ~AddRenameUnverified(p) /\ ~AddRmdirFails(p) /\ ~AddAppendFails(p)
  BY <1>1, Counted DEF AddRenameUnverified, AddRmdirFails, AddAppendFails
<1>9. ~AddUndo(p) /\ ~AddUndoFails(p) /\ ~AddUnbox(p)
  <2>1. AddUndo(p) \/ AddUndoFails(p) \/ AddUnbox(p) => UNCHANGED bounds
    BY <1>1, Counted DEF AddUndo, AddUndoFails, AddUnbox
  <2>2. AddUndo(p) \/ AddUndoFails(p) \/ AddUnbox(p) => pc[p] \in {"undo", "unbox"}
    BY DEF AddUndo, AddUndoFails, AddUnbox, At
  <2>3. UNCHANGED bounds => Steady(p)
    BY <1>1, Counted, SteadyNow DEF bounds
  <2> QED BY <2>1, <2>2, <2>3 DEF Steady
<1> QED BY <1>2, <1>3, <1>4, <1>5, <1>6, <1>7, <1>8, <1>9 DEF Add

LEMMA RestoreSteady ==
  ASSUME PInv, PInv', UInv, NEW p \in Proc, Restore(p), Undisturbed'
  PROVE  Steady(p)'
<1>1. TypeOK /\ Holds(p) /\ IInv'
  BY RestoreKeepsLock DEF PInv, IInv
<1>2. CASE StartRestore(p) \/ RestoreOpenStaged(p) \/ RestoreRefuse(p)
  <2>1. /\ pc[p] \in {"audit", "open", "place", "stage"} /\ Quiet /\ UNCHANGED bounds
        /\ Goto(p, "open") \/ Goto(p, "done") \/ Goto(p, "stage")
    BY <1>2 DEF StartRestore, RestoreOpenStaged, RestoreRefuse, Bounce, At, Quiet, store
  <2>2. AuditClean
    BY <1>1, <2>1, Counted, SteadyNow DEF bounds, Halfway
  <2>3. AuditClean'
    BY <2>1, <2>2, UntouchedIsClean DEF AuditClean, Quiet
  <2>4. pc'[p] \in Between
    BY <1>1, <2>1 DEF TypeOK, Goto, Between
  <2> QED BY <2>3, <2>4, CleanIsSteady
<1>3. CASE RestoreOpen(p)
  <2>1. /\ pc[p] = "open" /\ Quiet /\ UNCHANGED <<file, bounds>> /\ pc'[p] = "place"
        /\ job'[p] = [job[p] EXCEPT !.seen = box[job[p].entry]]
    BY <1>1, <1>3, Moves DEF RestoreOpen, At, Quiet, store, world
  <2>2. AuditClean
    BY <1>1, <2>1, Counted, SteadyNow DEF bounds, Halfway
  <2>3. AuditClean'
    BY <2>1, <2>2, UntouchedIsClean DEF AuditClean, Quiet
  <2>4. job'[p].entry = job[p].entry /\ job'[p].seen = box[job[p].entry]
    BY <1>1, <2>1 DEF TypeOK, Jobs
  <2>5. box'[job'[p].entry] = job'[p].seen
    BY <2>1, <2>4 DEF Quiet
  <2> QED BY <2>1, <2>3, <2>5 DEF Steady, AuditClean
<1>4. CASE RestorePlace(p)
  <2>1. /\ pc[p] = "place" /\ UNCHANGED <<hist, torn, taken, bounds>>
        /\ pc'[p] = "verify" /\ job'[p] = job[p]
    BY <1>1, <1>4, Moves DEF RestorePlace, At
  <2>2. PICK e \in Entry : e = job[p].entry
    BY <2>1, EntryAtHand DEF Restoring
  <2>3. Steady(p) /\ AuditClean
    BY <1>1, <2>1, Counted, SteadyNow DEF bounds, Halfway
  <2>4. job[p].path \in Path
    BY <1>1, <2>1, EntryAtHand DEF Bound, Restoring
  <2>5. file'[job[p].path] = job[p].seen
    BY <1>1, <1>4, <2>1, <2>3, <2>4 DEF RestorePlace, TypeOK, Steady
  <2>6. \A y \in Entry \ {e} : box'[y] = box[y]
    BY <1>1, <1>4, <2>2 DEF RestorePlace, TypeOK
  <2>7. \A y \in Entry \ {e} : EntryClean(y)'
    BY <2>1, <2>3, <2>6, UntouchedIsClean DEF AuditClean
  <2> QED BY <2>1, <2>2, <2>3, <2>5, <2>7 DEF Steady, Halfway
<1>5. CASE RestoreVerify(p) \/ RestorePublishFails(p)
  <2>1. /\ pc[p] \in {"verify", "publish"} /\ Quiet /\ UNCHANGED <<file, bounds>>
        /\ job'[p] = job[p]
        /\ pc[p] = "verify" =>
             pc'[p] = IF file[job[p].path] = job[p].seen THEN "record" ELSE "done"
        /\ pc[p] = "publish" => pc'[p] = "unstage"
    BY <1>1, <1>5, Moves DEF RestoreVerify, RestorePublishFails, At, Quiet, store, world
  <2>2. Steady(p)
    BY <1>1, <2>1, Counted, SteadyNow DEF bounds
  <2>3. /\ pc'[p] \in {"record", "unstage"}
        /\ pc'[p] = "unstage" => pc[p] = "publish"
    BY <2>1, <2>2 DEF Steady
  <2>4. \A e \in Entry : EntryClean(e)' <=> EntryClean(e)
    BY <2>1, UntouchedIsClean DEF Quiet
  <2>5. \A e \in Entry : EntryClean(e)' \/ e = job'[p].entry
    BY <2>1, <2>2, <2>4 DEF Steady
  <2>6. pc'[p] = "unstage" =>
          KindOf(staged'[job'[p].entry]) = KindOf(taken'[job'[p].entry])
    BY <2>1, <2>2, <2>3 DEF Steady, Quiet
  <2> QED BY <2>1, <2>2, <2>3, <2>5, <2>6 DEF Steady, Halfway, Quiet, KindOf
<1>6. CASE RestoreStage(p)
  <2>1. /\ pc[p] = "stage" /\ UNCHANGED <<hist, torn, taken, bounds>>
        /\ pc'[p] = "publish" /\ job'[p] = job[p]
    BY <1>1, <1>6, Moves DEF RestoreStage, At
  <2>2. PICK e \in Entry : e = job[p].entry /\ Phase(e) = "active"
    BY <2>1, EntryAtHand DEF Restoring, Ready
  <2>3. Steady(p) /\ AuditClean
    BY <1>1, <2>1, Counted, SteadyNow DEF bounds, Halfway
  <2>4. KindOf(box[e]) = KindOf(taken[e])
    BY <2>2, <2>3 DEF AuditClean, EntryClean, Expected
  <2>5. /\ staged'[e] = box[e]
        /\ \A y \in Entry \ {e} : box'[y] = box[y]
    BY <1>1, <1>6, <2>2 DEF RestoreStage, TypeOK
  <2>6. \A y \in Entry \ {e} : EntryClean(y)'
    BY <2>1, <2>3, <2>5, UntouchedIsClean DEF AuditClean
  <2>7. KindOf(staged'[e]) = KindOf(taken'[e])
    BY <2>1, <2>4, <2>5 DEF KindOf
  <2> QED BY <2>1, <2>2, <2>3, <2>6, <2>7 DEF Steady, Halfway, KindOf
<1>7. CASE RestorePublish(p)
  <2>1. /\ pc[p] = "publish" /\ UNCHANGED <<box, hist, torn, taken, bounds>>
        /\ pc'[p] = "record" /\ job'[p] = job[p]
    BY <1>1, <1>7, Moves DEF RestorePublish, At
  <2>2. Steady(p)
    BY <1>1, <2>1, Counted, SteadyNow DEF bounds
  <2>3. \A y \in Entry : EntryClean(y)' \/ y = job'[p].entry
    BY <2>1, <2>2, UntouchedIsClean DEF Steady
  <2> QED BY <2>1, <2>2, <2>3 DEF Steady, Halfway
<1>8. CASE RestoreUnstage(p)
  <2>1. /\ pc[p] = "unstage" /\ UNCHANGED <<hist, torn, taken, bounds>>
        /\ pc'[p] = "done"
    BY <1>1, <1>8, Moves DEF RestoreUnstage, At
  <2>2. PICK e \in Entry : e = job[p].entry /\ Phase(e) = "active" /\ staged[e] \in Obj
    BY <2>1, EntryAtHand DEF Restoring, Told, Placed
  <2>3. Steady(p)
    BY <1>1, <2>1, Counted, SteadyNow DEF bounds
  <2>4. /\ box'[e] = staged[e]
        /\ \A y \in Entry \ {e} : box'[y] = box[y]
    BY <1>1, <1>8, <2>2 DEF RestoreUnstage, TypeOK
  <2>5. EntryClean(e)'
    <3>1. Expected(e)'
      BY <2>1, <2>2 DEF Expected, Phase
    <3>2. KindOf(box'[e]) = KindOf(taken'[e])
      BY <2>1, <2>2, <2>3, <2>4 DEF Steady, KindOf
    <3> QED BY <1>1, <2>2, <2>4, <3>1, <3>2, PassesAudit
  <2>6. \A y \in Entry \ {e} : EntryClean(y)'
    BY <2>1, <2>2, <2>3, <2>4, UntouchedIsClean DEF Steady
  <2>7. AuditClean' /\ pc'[p] \in Between
    BY <2>1, <2>3, <2>5, <2>6 DEF AuditClean, Between, Steady
  <2> QED BY <2>7, CleanIsSteady
<1>9. CASE RestoreRecord(p)
  <2>1. /\ pc[p] = "record" /\ UNCHANGED <<box, taken, bounds>>
        /\ pc'[p] = "done" /\ Appended(job[p].entry, "restore")
    BY <1>1, <1>9, Moves DEF RestoreRecord, At
  <2>2. PICK e \in Entry : e = job[p].entry /\ Phase(e) = "active" /\ box[e] = Empty
    BY <2>1, EntryAtHand DEF Restoring, Ready, Placed
  <2>3. Steady(p)
    BY <1>1, <2>1, Counted, SteadyNow DEF bounds
  <2>4. CanFollow(hist[e], "restore") /\ "restore" \in Operations
    BY <1>1, <2>2, EventsThatFollow DEF TypeOK, Phase, Operations
  <2>5. /\ Phase(e)' = "restored" /\ torn' = torn
        /\ \A y \in Entry \ {e} : hist'[y] = hist[y]
    BY <2>1, <2>2, <2>4, LinesWritten, PhasesAfter DEF PInv
  <2>6. EntryClean(e)'
    <3>1. ~Expected(e)' /\ box'[e] \notin Obj
      BY <2>1, <2>2, <2>5 DEF Expected
    <3> QED BY <1>1, <3>1, PassesAudit
  <2>7. \A y \in Entry \ {e} : EntryClean(y)'
    BY <2>1, <2>2, <2>3, <2>5, UntouchedIsClean DEF Steady
  <2>8. AuditClean' /\ pc'[p] \in Between
    BY <2>1, <2>3, <2>5, <2>6, <2>7 DEF AuditClean, Between, Steady
  <2> QED BY <2>8, CleanIsSteady
<1>10. ~RestoreVerifyFails(p) /\ ~RestoreStageUnverified(p) /\ ~RestoreRecordFails(p)
  BY <1>1, Counted DEF RestoreVerifyFails, RestoreStageUnverified, RestoreRecordFails
<1>11. ~RestoreRecheck(p) /\ ~RestorePutBack(p) /\ ~RestorePutBackFails(p)
  <2>1. RestoreRecheck(p) \/ RestorePutBack(p) \/ RestorePutBackFails(p) =>
          UNCHANGED bounds /\ pc[p] \in {"recheck", "putback"}
    BY <1>1, Counted DEF RestoreRecheck, RestorePutBack, RestorePutBackFails, At
  <2>2. UNCHANGED bounds => Steady(p)
    BY <1>1, Counted, SteadyNow DEF bounds
  <2> QED BY <2>1, <2>2 DEF Steady
<1> QED BY <1>2, <1>3, <1>4, <1>5, <1>6, <1>7, <1>8, <1>9, <1>10, <1>11 DEF Restore

LEMMA WorkUInv ==
  ASSUME PInv, PInv', UInv, LInv', NEW p \in Proc,
         Add(p) \/ Restore(p) \/ Purge(p) \/ AuditRefuses(p)
  PROVE  UInv'
<1>1. UNCHANGED locks /\ Holds(p) /\ Holds(p)' /\ Elsewhere(p)
  BY AddKeepsLock, RestoreKeepsLock, PurgeKeepsLock DEF PInv, IInv
<1>2. Undisturbed' => Steady(p)'
  BY AddSteady, RestoreSteady, PurgeSteady
<1> QED BY <1>1, <1>2, HolderUInv

\* A command is begun, takes the lock or gives it back.
LEMMA LockUInv ==
  ASSUME PInv, PInv', UInv, LInv', NEW p \in Proc,
         \/ BeginCommand(p) \/ AcquireExclusive(p) \/ AcquireShared(p) \/ Release(p)
  PROVE  UInv'
<1>1. TypeOK
  BY DEF PInv, IInv
<1>2. CASE BeginCommand(p)
  <2>1. PICK j : Begin(p, j)
    BY <1>2 DEF BeginCommand, BeginAdd, BeginRestore, BeginPurge, BeginEmpty,
                BeginPreview, BeginList
  <2>2. /\ pc[p] = "idle" /\ pc'[p] = "wait" /\ Elsewhere(p) /\ Quiet
        /\ UNCHANGED <<file, locks, bounds>>
    BY <1>1, <2>1, Moves DEF Begin, At, Quiet, store, world
  <2>3. ~Holds(p) /\ ~Holds(p)' /\ (Undisturbed' => Undisturbed)
    BY <2>2 DEF Holds, Waiting, Undisturbed, bounds
  <2> QED BY <2>2, <2>3, CalmUInv DEF locks
<1>3. CASE AcquireShared(p)
  <2>1. /\ pc[p] = "wait" /\ pc'[p] = "read" /\ Elsewhere(p) /\ Quiet
        /\ UNCHANGED <<file, lock, bounds>>
    BY <1>1, <1>3, Moves DEF AcquireShared, At, Quiet, store, world
  <2>2. ~Holds(p) /\ ~Holds(p)' /\ (Undisturbed' => Undisturbed)
    BY <2>1 DEF Holds, Waiting, Reading, Undisturbed, bounds
  <2> QED BY <2>1, <2>2, CalmUInv
<1>4. CASE Release(p)
  <2>1. /\ pc[p] \in {"done", "read"} /\ pc'[p] = "idle" /\ Elsewhere(p) /\ Quiet
        /\ UNCHANGED <<file, bounds>>
        /\ lock' = (IF lock = p THEN None ELSE lock)
    BY <1>1, <1>4, Moves DEF Release, Unlock, Quiet, store, world
  <2>2. ~Holds(p)' /\ (Undisturbed' => Undisturbed)
    BY <2>1 DEF Holds, Waiting, Undisturbed, bounds
  <2>3. ASSUME Holds(p), Undisturbed' PROVE AuditClean
    <3>1. pc[p] \notin Halfway
      BY <2>1 DEF Halfway
    <3> QED BY <2>2, <2>3, <3>1, SteadyNow
  <2>4. lock' # lock => Holds(p)
    BY <2>1 DEF UInv, LInv
  <2> QED BY <2>1, <2>2, <2>3, <2>4, CalmUInv
<1>5. CASE AcquireExclusive(p)
  <2>1. /\ lock = None /\ lock' = p /\ pc'[p] \in {"token", "audit"} /\ Elsewhere(p) /\ Quiet
        /\ UNCHANGED bounds
    BY <1>1, <1>5, Moves DEF AcquireExclusive, Free, Quiet, store
  <2>2. \A q \in Proc \ {p} : ~Holds(q)'
    BY <2>1 DEF PInv, IInv, Locked, Holds, Elsewhere
  <2>3. ASSUME Undisturbed' PROVE Steady(p)'
    <3>1. AuditClean
      BY <2>1, <2>3 DEF UInv, Undisturbed, bounds
    <3>2. AuditClean' /\ pc'[p] \in Between
      BY <2>1, <3>1, UntouchedIsClean DEF AuditClean, Quiet, Between
    <3> QED BY <3>2, CleanIsSteady
  <2> QED BY <2>1, <2>2, <2>3 DEF UInv
<1> QED BY <1>2, <1>3, <1>4, <1>5

LEMMA OutsideUInv ==
  ASSUME PInv, UInv, LInv', User \/ Tick \/ UNCHANGED vars
  PROVE  UInv'
<1> SUFFICES ASSUME Undisturbed'
             PROVE  /\ lock' = None => AuditClean'
                    /\ \A q \in Proc : Holds(q)' => Steady(q)'
  BY DEF UInv
<1>1. TypeOK
  BY DEF PInv, IInv
<1>2. ~User
  BY <1>1, Counted DEF User, UserCreate, UserDelete
<1>3. /\ Quiet /\ UNCHANGED <<file, lock, pc, job>>
      /\ UNCHANGED <<crashes, faults, edits>>
  BY <1>2 DEF Tick, vars, store, world, locks, bounds, Quiet
<1>4. Undisturbed
  BY <1>3 DEF Undisturbed
<1>5. AuditClean' <=> AuditClean
  BY <1>3, UntouchedIsClean DEF AuditClean, Quiet
<1>6. ASSUME NEW q \in Proc, Holds(q)' PROVE Steady(q)'
  BY <1>3, <1>4, <1>6, SteadyKept DEF UInv, Holds
<1> QED BY <1>3, <1>4, <1>5, <1>6 DEF UInv

LEMMA CrashUInv ==
  ASSUME PInv, LInv', NEW p \in Proc, Crash(p)
  PROVE  UInv'
<1>1. ~Undisturbed'
  BY Counted DEF PInv, IInv
<1> QED BY <1>1 DEF UInv

LEMMA InitUInv == Init => UInv
<1> SUFFICES ASSUME Init PROVE UInv
  OBVIOUS
<1>1. \A p \in Proc : ~Holds(p) /\ lock # p
  BY DEF Init, Holds, Waiting
<1>2. AuditClean
  BY DEF Init, AuditClean, EntryClean, Expected, Phase, PhaseOf, ValidHistory
<1> QED BY <1>1, <1>2 DEF Init, UInv, LInv

LEMMA NextUInv == PInv /\ PInv' /\ UInv /\ [Next]_vars => UInv'
<1> SUFFICES ASSUME PInv, PInv', UInv, [Next]_vars PROVE UInv'
  OBVIOUS
<1>1. LInv'
  BY NextLInv DEF PInv, IInv, UInv
<1> QED BY <1>1, WorkUInv, LockUInv, OutsideUInv, CrashUInv DEF Next, Work

\* Interleaving alone never damages the store: as long as nothing crashed or
\* failed and the user left the files alone, it is clean whenever no command
\* has it to itself, so every reader and the next command find it clean.
THEOREM CleanBetweenCommands == Spec => []CleanUnlessDisturbed
<1>1. Spec => []UInv
  BY InitUInv, NextUInv, PInvHolds, PTL DEF Spec
<1>2. UInv => CleanUnlessDisturbed
  BY DEF UInv, LInv, Undisturbed, CleanUnlessDisturbed
<1> QED BY <1>1, <1>2, PTL
==============================================================================
