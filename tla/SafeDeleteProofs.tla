-------------------------- MODULE SafeDeleteProofs --------------------------
(***************************************************************************)
(* Proofs about SafeDelete, for any number of processes, paths, objects,   *)
(* entries, kills, failures and changes by the user.                       *)
(*                                                                         *)
(* The argument: whoever is past the audit holds the lock, so only its own *)
(* steps change the ledger and the object directories; and at every label  *)
(* it knows the state of the entry it works on, from the audit and from    *)
(* what it has done since.                                                 *)
(***************************************************************************)
EXTENDS SafeDelete, TLAPS

\* The conjuncts of TypeOK that are not about processes.
StoreTypes ==
  /\ file \in [Path -> Obj \cup {None}]
  /\ content \in [Obj -> Contents]
  /\ box \in [Entry -> Obj \cup {None, Empty}]
  /\ staged \in [Entry -> Obj \cup {None}]
  /\ hist \in [Entry -> Seq(Operations)]
  /\ torn \in BOOLEAN
  /\ stamp \in [Entry -> Times]
  /\ taken \in [Entry -> Obj \cup {None}]
  /\ said \in [Entry -> Reports]
  /\ clock \in Times
  /\ crashes \in 0..MaxCrashes
  /\ faults \in 0..MaxFaults
  /\ edits \in 0..MaxEdits

\* A process that is past the lock.
Holds(p) == pc[p] \notin Waiting \cup Reading

Locked == \A p \in Proc : Holds(p) => lock = p

\* The local variables that the next steps use are set.
Bound(p) ==
  /\ job[p].op = "restore" => job[p].entry \in Entry /\ job[p].path \in Path
  /\ pc[p] \in Restoring => job[p].op = "restore"
  /\ pc[p] \in Adding => job[p].op = "add"
  /\ pc[p] \in Adding \ {"add"} => job[p].entry \in Entry /\ job[p].path \in Path
  /\ pc[p] \in Purging \ {"purge"} => job[p].entry \in Entry

\* A purge may begin on e: it was trashed before the purge was invoked, and
\* the token, if one was given, stands for it too.
MayPurge(p, e) ==
  /\ Phase(e) = "active" => stamp[e] <= job[p].asof
  /\ job[p].op = "empty" => e \in job[p].token

\* What a process knows of the entry it works on, a purge of the candidates it
\* has not come to yet, and an empty between its two audits.
Ready(p) ==
  /\ pc[p] \in {"move", "rename", "append"} => hist[job[p].entry] = << >>
  /\ pc[p] \in {"move", "rename"} => box[job[p].entry] = Empty
  /\ pc[p] \in {"append", "undo", "open", "place", "stage"} =>
       box[job[p].entry] \in Obj
  /\ pc[p] \in {"open", "place", "stage", "verify", "publish", "record", "intend"} =>
       Phase(job[p].entry) = "active"
  /\ pc[p] \in {"recheck", "putback", "unstage"} => hist[job[p].entry] # << >>
  /\ pc[p] \in {"remove", "reclaim", "abandon", "complete"} =>
       Phase(job[p].entry) = "purge_pending"
  /\ pc[p] \in Purging => \A e \in job[p].cand :
       Phase(e) \in {"active", "purge_pending"} /\ MayPurge(p, e)
  /\ pc[p] \in Purging \ {"purge"} => job[p].entry \notin job[p].cand
  /\ pc[p] = "intend" => MayPurge(p, job[p].entry)
  /\ pc[p] = "audit" /\ job[p].op = "empty" => Candidates(job[p]) = job[p].token

IInv ==
  /\ TypeOK
  /\ Locked
  /\ \A p \in Proc : Bound(p) /\ Ready(p)
  /\ HistoriesValid

USE ConstantsAssumption

-----------------------------------------------------------------------------
(***************************************************************************)
(* Histories.                                                              *)
(***************************************************************************)

\* What PhaseOf says of a history is what its last event is.
LEMMA PhaseOfHistory ==
  ASSUME NEW h \in Seq(Operations)
  PROVE  /\ PhaseOf(h) = "none" <=> h = << >>
         /\ PhaseOf(h) = "active" => h # << >> /\ h[Len(h)] \in {"trash", "purge_failed"}
         /\ PhaseOf(h) = "purge_pending" => h # << >> /\ h[Len(h)] = "purge_intent"
<1>1. CASE h = << >>
  BY <1>1 DEF PhaseOf
<1>2. CASE h # << >>
  <2>1. h[Len(h)] \in Operations
    BY <1>2
  <2>2. PhaseOf(h) = PhaseAfter(h[Len(h)])
    BY <1>2 DEF PhaseOf
  <2>3. /\ PhaseAfter("trash") = "active"
        /\ PhaseAfter("restore") = "restored"
        /\ PhaseAfter("purge_intent") = "purge_pending"
        /\ PhaseAfter("purge_complete") = "purged"
        /\ PhaseAfter("purge_failed") = "active"
    BY DEF PhaseAfter
  <2> QED BY <1>2, <2>1, <2>2, <2>3 DEF Operations
<1> QED BY <1>1, <1>2

LEMMA EventsThatFollow ==
  ASSUME NEW h \in Seq(Operations)
  PROVE  /\ h = << >> => CanFollow(h, "trash")
         /\ PhaseOf(h) = "active" => CanFollow(h, "restore") /\ CanFollow(h, "purge_intent")
         /\ PhaseOf(h) = "purge_pending" =>
              CanFollow(h, "purge_failed") /\ CanFollow(h, "purge_complete")
BY PhaseOfHistory DEF CanFollow, Enables

\* An event that may follow keeps a history valid.
LEMMA AppendIsValid ==
  ASSUME NEW h \in Seq(Operations), NEW op \in Operations,
         ValidHistory(h), CanFollow(h, op)
  PROVE  /\ Append(h, op) \in Seq(Operations)
         /\ ValidHistory(Append(h, op))
         /\ PhaseOf(Append(h, op)) = PhaseAfter(op)
<1> DEFINE g == Append(h, op)
           n == Len(h)
<1>1. /\ n \in Nat /\ g \in Seq(Operations) /\ Len(g) = n + 1 /\ g # << >>
      /\ g[n + 1] = op /\ \A i \in 1..n : g[i] = h[i]
  OBVIOUS
<1>2. n = 0 <=> h = << >>
  OBVIOUS
<1>3. n > 0 => Enables(h[n], op)
  BY <1>2 DEF CanFollow
<1>4. n = 0 => op = "trash"
  BY <1>2 DEF CanFollow
<1>5. \A i \in 1..n : IF i = 1 THEN h[1] = "trash" ELSE Enables(h[i - 1], h[i])
  BY DEF ValidHistory
<1> HIDE DEF g, n
<1>6. ValidHistory(g)
  <2> SUFFICES ASSUME NEW i \in 1..n + 1
               PROVE  IF i = 1 THEN g[1] = "trash" ELSE Enables(g[i - 1], g[i])
    BY <1>1 DEF ValidHistory
  <2>1. CASE i <= n
    <3>1. g[i] = h[i] /\ (i # 1 => g[i - 1] = h[i - 1])
      BY <1>1, <2>1
    <3> QED BY <1>1, <1>5, <2>1, <3>1
  <2>2. CASE i = n + 1 /\ n = 0
    BY <1>1, <1>4, <2>2
  <2>3. CASE i = n + 1 /\ n > 0
    <3>1. g[i] = op /\ i # 1 /\ g[i - 1] = h[n]
      BY <1>1, <2>3
    <3> QED BY <1>3, <2>3, <3>1
  <2> QED BY <1>1, <2>1, <2>2, <2>3
<1>7. PhaseOf(g) = PhaseAfter(op)
  BY <1>1 DEF PhaseOf
<1> QED BY <1>1, <1>6, <1>7 DEF g

\* append_event, when it returns and when it is cut short.
LEMMA AppendedKeepsHistories ==
  ASSUME TypeOK, HistoriesValid, NEW e \in Entry, NEW op \in Operations,
         CanFollow(hist[e], op), Appended(e, op)
  PROVE  /\ hist' \in [Entry -> Seq(Operations)] /\ torn' \in BOOLEAN
         /\ HistoriesValid'
         /\ PhaseOf(hist'[e]) = PhaseAfter(op)
         /\ \A x \in Entry \ {e} : hist'[x] = hist[x]
<1>1. /\ hist \in [Entry -> Seq(Operations)] /\ torn \in BOOLEAN
      /\ hist' = [hist EXCEPT ![e] = Append(hist[e], op)] /\ torn' = torn
  BY DEF TypeOK, Appended
<1>2. /\ Append(hist[e], op) \in Seq(Operations)
      /\ ValidHistory(Append(hist[e], op))
      /\ PhaseOf(Append(hist[e], op)) = PhaseAfter(op)
  BY <1>1, AppendIsValid DEF HistoriesValid
<1>3. \A x \in Entry : hist'[x] = IF x = e THEN Append(hist[e], op) ELSE hist[x]
  BY <1>1
<1>4. hist' \in [Entry -> Seq(Operations)]
  BY <1>1, <1>2
<1>5. HistoriesValid'
  BY <1>2, <1>3 DEF HistoriesValid
<1> QED BY <1>1, <1>2, <1>3, <1>4, <1>5

LEMMA CutShortKeepsHistories ==
  ASSUME TypeOK, HistoriesValid, NEW e \in Entry, NEW op \in Operations,
         CanFollow(hist[e], op), CutShort(e, op)
  PROVE  /\ hist' \in [Entry -> Seq(Operations)] /\ torn' \in BOOLEAN
         /\ HistoriesValid'
<1>1. CASE UNCHANGED <<hist, torn>> \/ (torn' = TRUE /\ UNCHANGED hist)
  BY <1>1 DEF TypeOK, HistoriesValid
<1>2. CASE Appended(e, op)
  BY <1>2, AppendedKeepsHistories
<1> QED BY <1>1, <1>2 DEF CutShort

-----------------------------------------------------------------------------
(***************************************************************************)
(* Steps in general.                                                       *)
(***************************************************************************)

\* A step of p changes no other process's label and variables.
Steps(p) ==
  /\ pc' \in [Proc -> Labels] /\ job' \in [Proc -> Jobs]
  /\ \A q \in Proc \ {p} : pc'[q] = pc[q] /\ job'[q] = job[q]

\* What has to be shown of a step of p: its own part of the invariant, and
\* that no process at work is disturbed.
LEMMA StepIInv ==
  ASSUME IInv, NEW p \in Proc, Steps(p),
         StoreTypes', HistoriesValid',
         lock' \in Proc \cup {None}, readers' \subseteq Proc,
         Bound(p)', Ready(p)', Holds(p)' => lock' = p,
         \A q \in Proc \ {p} :
           Holds(q) => lock' = q /\ UNCHANGED <<hist, box, stamp>>
  PROVE  IInv'
<1>1. TypeOK'
  BY DEF Steps, StoreTypes, TypeOK
<1>2. ASSUME NEW q \in Proc \ {p}
      PROVE  (Holds(q)' => lock' = q) /\ Bound(q)' /\ Ready(q)'
  <2>1. pc'[q] = pc[q] /\ job'[q] = job[q]
    BY DEF Steps
  <2>2. Bound(q) /\ Ready(q)
    BY DEF IInv
  <2>3. Bound(q)'
    BY <2>1, <2>2 DEF Bound
  <2>4. CASE Holds(q)
    <3>1. lock' = q /\ hist' = hist /\ box' = box /\ stamp' = stamp
      BY <2>4
    <3>2. Candidates(job[q])' = Candidates(job[q])
      BY <2>1, <3>1 DEF Candidates, Eligible, Phase
    <3>3. Ready(q)'
      BY <2>1, <2>2, <3>1, <3>2 DEF Ready, Phase, MayPurge
    <3> QED BY <2>3, <3>1, <3>3
  <2>5. CASE ~Holds(q)
    <3>1. ~Holds(q)'
      BY <2>1, <2>5 DEF Holds
    <3>2. pc'[q] \in Waiting \cup Reading
      BY <2>1, <2>5 DEF Holds
    <3>3. Ready(q)'
      BY <3>2 DEF Ready, Waiting, Reading, Purging
    <3> QED BY <2>3, <3>1, <3>3
  <2> QED BY <2>4, <2>5
<1>3. Locked'
  BY <1>2 DEF Locked
<1> QED BY <1>1, <1>2, <1>3 DEF IInv

\* A step of the process that holds the lock.
LEMMA OwnStepIInv ==
  ASSUME IInv, NEW p \in Proc, Holds(p), Steps(p),
         StoreTypes', HistoriesValid',
         lock' = lock, readers' = readers,
         Bound(p)', Ready(p)'
  PROVE  IInv'
<1>1. lock = p /\ \A q \in Proc \ {p} : ~Holds(q)
  BY DEF IInv, Locked
<1>2. lock \in Proc \cup {None} /\ readers \subseteq Proc
  BY DEF IInv, TypeOK
<1> QED BY <1>1, <1>2, StepIInv

\* The step changes neither the store nor the files.
Calm ==
  /\ UNCHANGED <<store, world, locks, said, clock, crashes, edits>>
  /\ faults' \in 0..MaxFaults

LEMMA CalmStepIInv ==
  ASSUME IInv, NEW p \in Proc, Holds(p), Steps(p), Calm,
         Bound(p)', Ready(p)'
  PROVE  IInv'
<1>1. StoreTypes'
  BY DEF IInv, TypeOK, StoreTypes, Calm, store, world
<1>2. HistoriesValid'
  BY DEF IInv, HistoriesValid, Calm, store
<1> QED BY <1>1, <1>2, OwnStepIInv DEF Calm, locks

\* Changing the label alone.
LEMMA GotoSteps ==
  ASSUME IInv, NEW p \in Proc, NEW l \in Labels, Goto(p, l), UNCHANGED job
  PROVE  Steps(p) /\ pc'[p] = l /\ job'[p] = job[p]
BY DEF IInv, TypeOK, Goto, Steps

LEMMA StoreSteps ==
  ASSUME IInv, NEW p \in Proc, NEW l \in Labels, NEW j \in Jobs,
         Goto(p, l), Store(p, j)
  PROVE  Steps(p) /\ pc'[p] = l /\ job'[p] = j
BY DEF IInv, TypeOK, Goto, Store, Steps

\* Nothing has to be known at the end of a command or between two inputs.
LEMMA IdleLabels ==
  ASSUME IInv, NEW p \in Proc, pc'[p] \in {"done", "audit", "token"},
         job'[p] = job[p], pc'[p] = "audit" => job[p].op # "empty"
  PROVE  Bound(p)' /\ Ready(p)'
<1>1. Bound(p)
  BY DEF IInv
<1> QED BY <1>1 DEF Bound, Ready, Adding, Restoring, Purging

-----------------------------------------------------------------------------
(***************************************************************************)
(* Steps that change nothing but the label.                                *)
(***************************************************************************)

LEMMA ToDone ==
  ASSUME IInv, NEW p \in Proc, Holds(p), Goto(p, "done"), UNCHANGED job, Calm
  PROVE  IInv'
<1>1. "done" \in Labels
  BY DEF Labels
<1>2. Steps(p) /\ pc'[p] = "done" /\ job'[p] = job[p]
  BY <1>1, GotoSteps
<1> QED BY <1>2, IdleLabels, CalmStepIInv

\* The steps that end a command, and how they do nothing else.
LEMMA EndsIInv ==
  ASSUME IInv, NEW p \in Proc,
         \/ AuditRefuses(p) \/ EndPreview(p) \/ AddFinish(p) \/ RestoreRefuse(p)
         \/ RestoreVerifyFails(p) \/ RestorePutBackFails(p)
         \/ PurgeFinish(p) \/ PurgeReclaimFails(p)
  PROVE  IInv'
<1>1. faults \in 0..MaxFaults
  BY DEF IInv, TypeOK
<1>2. Holds(p)
  BY DEF AuditRefuses, EndPreview, AddFinish, RestoreRefuse, RestoreVerifyFails,
         RestorePutBackFails, PurgeFinish, PurgeReclaimFails, At, Holds,
         Waiting, Reading
<1>3. Goto(p, "done") /\ UNCHANGED job
  BY DEF AuditRefuses, EndPreview, AddFinish, RestoreRefuse, RestoreVerifyFails,
         RestorePutBackFails, PurgeFinish, PurgeReclaimFails, Bounce
<1>4. Calm
  <2>1. CASE \/ AuditRefuses(p) \/ EndPreview(p) \/ AddFinish(p) \/ RestoreRefuse(p)
             \/ PurgeFinish(p)
    BY <1>1, <2>1 DEF AuditRefuses, EndPreview, AddFinish, RestoreRefuse,
                      PurgeFinish, Bounce, Calm, bounds
  <2>2. CASE RestoreVerifyFails(p) \/ RestorePutBackFails(p) \/ PurgeReclaimFails(p)
    BY <1>1, <2>2 DEF RestoreVerifyFails, RestorePutBackFails, PurgeReclaimFails,
                      Fault, Calm, bounds
  <2> QED BY <2>1, <2>2
<1> QED BY <1>2, <1>3, <1>4, ToDone

-----------------------------------------------------------------------------
(***************************************************************************)
(* Invocation, lock and audit.                                             *)
(***************************************************************************)

\* A process that does not hold the lock changes nothing that others know.
LEMMA BeginIInv ==
  ASSUME IInv, NEW p \in Proc, NEW j \in Jobs, Begin(p, j),
         j.op = "restore" => j.entry \in Entry /\ j.path \in Path
  PROVE  IInv'
<1>1. "wait" \in Labels
  BY DEF Labels, Waiting
<1>2. Steps(p) /\ pc'[p] = "wait" /\ job'[p] = j
  BY <1>1, StoreSteps DEF Begin
<1>3. StoreTypes' /\ HistoriesValid' /\ UNCHANGED <<hist, box, stamp, lock, readers>>
  BY DEF Begin, IInv, TypeOK, StoreTypes, HistoriesValid, store, world, locks, bounds
<1>4. Bound(p)' /\ Ready(p)' /\ ~Holds(p)'
  BY <1>2 DEF Bound, Ready, Holds, Waiting, Adding, Restoring, Purging
<1>5. /\ lock \in Proc \cup {None} /\ readers \subseteq Proc
      /\ \A q \in Proc : Holds(q) => lock = q
  BY DEF IInv, TypeOK, Locked
<1> QED BY <1>2, <1>3, <1>4, <1>5, StepIInv

LEMMA BeginCommandIInv ==
  ASSUME IInv, NEW p \in Proc, BeginCommand(p)
  PROVE  IInv'
<1>1. clock \in Times /\ 0 \in Times
  BY DEF IInv, TypeOK, Times
<1>2. CASE BeginAdd(p)
  <2>1. PICK inputs \in (SUBSET Path) \ {{}} :
               Begin(p, [NoJob EXCEPT !.op = "add", !.todo = inputs])
    BY <1>2 DEF BeginAdd
  <2> DEFINE j == [NoJob EXCEPT !.op = "add", !.todo = inputs]
  <2>2. j \in Jobs /\ j.op # "restore"
    BY <1>1, <2>1 DEF NoJob, Jobs, Begin
  <2> QED BY <2>1, <2>2, BeginIInv
<1>3. CASE BeginRestore(p)
  <2>1. PICK e \in Entry, x \in Path :
               Begin(p, [NoJob EXCEPT !.op = "restore", !.entry = e, !.path = x])
    BY <1>3 DEF BeginRestore
  <2> DEFINE j == [NoJob EXCEPT !.op = "restore", !.entry = e, !.path = x]
  <2>2. j \in Jobs /\ j.entry \in Entry /\ j.path \in Path
    BY <1>1, <2>1 DEF NoJob, Jobs, Begin
  <2> QED BY <2>1, <2>2, BeginIInv
<1>4. CASE BeginPurge(p)
  <2>1. PICK cut \in Times :
               Begin(p, [NoJob EXCEPT !.op = "purge", !.asof = clock, !.cutoff = cut])
    BY <1>4 DEF BeginPurge
  <2> DEFINE j == [NoJob EXCEPT !.op = "purge", !.asof = clock, !.cutoff = cut]
  <2>2. j \in Jobs /\ j.op # "restore"
    BY <1>1, <2>1 DEF NoJob, Jobs, Begin
  <2> QED BY <2>1, <2>2, BeginIInv
<1>5. CASE BeginEmpty(p)
  <2>1. PICK cut \in Times, shown \in SUBSET Entry :
               Begin(p, [NoJob EXCEPT !.op = "empty", !.asof = clock, !.cutoff = cut,
                                      !.token = shown])
    BY <1>5 DEF BeginEmpty
  <2> DEFINE j == [NoJob EXCEPT !.op = "empty", !.asof = clock, !.cutoff = cut,
                                !.token = shown]
  <2>2. j \in Jobs /\ j.op # "restore"
    BY <1>1, <2>1 DEF NoJob, Jobs, Begin
  <2> QED BY <2>1, <2>2, BeginIInv
<1>6. CASE BeginPreview(p)
  <2> DEFINE j == [NoJob EXCEPT !.op = "preview"]
  <2>1. Begin(p, j)
    BY <1>6 DEF BeginPreview
  <2>2. j \in Jobs /\ j.op # "restore"
    BY <1>1, <2>1 DEF NoJob, Jobs, Begin
  <2> QED BY <2>1, <2>2, BeginIInv
<1>7. CASE BeginList(p)
  <2> DEFINE j == [NoJob EXCEPT !.op = "list"]
  <2>1. Begin(p, j)
    BY <1>7 DEF BeginList
  <2>2. j \in Jobs /\ j.op # "restore"
    BY <1>1, <2>1 DEF NoJob, Jobs, Begin
  <2> QED BY <2>1, <2>2, BeginIInv
<1> QED BY <1>2, <1>3, <1>4, <1>5, <1>6, <1>7 DEF BeginCommand

\* Nobody holds a lock that is free.
LEMMA AcquireIInv ==
  ASSUME IInv, NEW p \in Proc, AcquireExclusive(p) \/ AcquireShared(p)
  PROVE  IInv'
<1>1. /\ StoreTypes' /\ HistoriesValid'
      /\ UNCHANGED job
  BY DEF AcquireExclusive, AcquireShared, IInv, TypeOK, StoreTypes, HistoriesValid,
         store, world, bounds
<1>2. /\ lock = None /\ readers \subseteq Proc
      /\ \A q \in Proc : ~Holds(q)
  BY DEF AcquireExclusive, AcquireShared, Free, IInv, TypeOK, Locked
<1>3. Bound(p)
  BY DEF IInv
<1>4. CASE AcquireExclusive(p)
  <2> DEFINE l == IF job[p].op = "empty" THEN "token" ELSE "audit"
  <2>1. l \in Labels /\ Goto(p, l) /\ lock' = p /\ readers' = readers
    BY <1>4 DEF AcquireExclusive, Labels
  <2>2. Steps(p) /\ pc'[p] = l /\ job'[p] = job[p]
    BY <1>1, <2>1, GotoSteps
  <2>3. Bound(p)' /\ Ready(p)'
    BY <2>2, IdleLabels
  <2> QED BY <1>1, <1>2, <2>1, <2>2, <2>3, StepIInv
<1>5. CASE AcquireShared(p)
  <2>1. /\ "read" \in Labels /\ Goto(p, "read")
        /\ lock' = lock /\ readers' \subseteq Proc
    BY <1>2, <1>5 DEF AcquireShared, Labels, Reading
  <2>2. Steps(p) /\ pc'[p] = "read" /\ job'[p] = job[p]
    BY <1>1, <2>1, GotoSteps
  <2>3. Bound(p)' /\ Ready(p)' /\ ~Holds(p)'
    BY <1>3, <2>2 DEF Bound, Ready, Holds, Reading, Adding, Restoring, Purging
  <2> QED BY <1>1, <1>2, <2>1, <2>2, <2>3, StepIInv
<1> QED BY <1>4, <1>5

\* A process that goes, by its own will or not, leaves the others alone.
LEMMA UnlockIInv ==
  ASSUME IInv, NEW p \in Proc, Unlock(p), StoreTypes', HistoriesValid',
         UNCHANGED <<box, stamp>>, Holds(p) \/ hist' = hist
  PROVE  IInv'
<1>1. "idle" \in Labels /\ NoJob \in Jobs /\ NoJob.op # "restore"
  <2>1. 0 \in Times
    BY DEF Times
  <2> QED BY <2>1 DEF Labels, Waiting, NoJob, Jobs, Verbs
<1>2. Steps(p) /\ pc'[p] = "idle" /\ job'[p] = NoJob
  BY <1>1, StoreSteps DEF Unlock
<1>3. Bound(p)' /\ Ready(p)' /\ ~Holds(p)'
  BY <1>1, <1>2 DEF Bound, Ready, Holds, Waiting, Adding, Restoring, Purging
<1>4. lock' \in Proc \cup {None} /\ readers' \subseteq Proc
  BY DEF Unlock, IInv, TypeOK
<1>5. ASSUME NEW q \in Proc \ {p}, Holds(q)
      PROVE  lock' = q /\ UNCHANGED <<hist, box, stamp>>
  BY <1>5 DEF Unlock, IInv, Locked
<1> QED BY <1>2, <1>3, <1>4, <1>5, StepIInv

LEMMA ReleaseIInv ==
  ASSUME IInv, NEW p \in Proc, Release(p)
  PROVE  IInv'
<1>1. StoreTypes' /\ HistoriesValid' /\ UNCHANGED <<box, hist, stamp>>
  BY DEF Release, IInv, TypeOK, StoreTypes, HistoriesValid, store, world, bounds
<1> QED BY <1>1, UnlockIInv DEF Release

-----------------------------------------------------------------------------
(***************************************************************************)
(* add.                                                                    *)
(***************************************************************************)

\* What the proofs of the steps start from.
LEMMA Context ==
  ASSUME IInv, NEW p \in Proc
  PROVE  /\ TypeOK /\ StoreTypes /\ HistoriesValid
         /\ Bound(p) /\ Ready(p)
         /\ job[p] \in Jobs /\ pc[p] \in Labels
BY DEF IInv, TypeOK, StoreTypes

LEMMA NextInputIsJob ==
  ASSUME IInv, NEW p \in Proc
  PROVE  NextInput(p) \in Jobs /\ NextInput(p).op = job[p].op
BY Context DEF NextInput, Jobs

\* Back to the next input nothing is known.
LEMMA ToNextInput ==
  ASSUME IInv, NEW p \in Proc, pc[p] \in Adding \ {"add"},
         Goto(p, "add"), Store(p, NextInput(p)),
         StoreTypes', HistoriesValid', UNCHANGED locks
  PROVE  IInv'
<1>1. "add" \in Labels /\ Holds(p)
  BY DEF Labels, Adding, Holds, Waiting, Reading
<1>2. job[p].op = "add"
  BY Context DEF Bound
<1>3. Steps(p) /\ pc'[p] = "add" /\ job'[p] = NextInput(p)
  BY <1>1, NextInputIsJob, StoreSteps
<1>4. Bound(p)' /\ Ready(p)'
  BY <1>2, <1>3, NextInputIsJob DEF Bound, Ready, Adding, Restoring, Purging
<1> QED BY <1>1, <1>3, <1>4, OwnStepIInv DEF locks

LEMMA StartAddIInv ==
  ASSUME IInv, NEW p \in Proc, StartAdd(p)
  PROVE  IInv'
<1>1. "add" \in Labels /\ Holds(p) /\ job[p].op = "add"
  BY DEF StartAdd, Labels, Adding, At, Holds, Waiting, Reading
<1>2. Goto(p, "add") /\ UNCHANGED job /\ Calm
  BY Context DEF StartAdd, Calm, bounds, StoreTypes
<1>3. Steps(p) /\ pc'[p] = "add" /\ job'[p] = job[p]
  BY <1>1, <1>2, GotoSteps
<1>4. Bound(p)' /\ Ready(p)'
  BY <1>1, <1>3 DEF Bound, Ready, Adding, Restoring, Purging
<1> QED BY <1>1, <1>2, <1>3, <1>4, CalmStepIInv

LEMMA AddRefuseIInv ==
  ASSUME IInv, NEW p \in Proc, AddRefuse(p)
  PROVE  IInv'
<1>1. PICK x \in job[p].todo : Store(p, [job[p] EXCEPT !.todo = @ \ {x}])
  BY DEF AddRefuse
<1> DEFINE j == [job[p] EXCEPT !.todo = @ \ {x}]
<1>2. j \in Jobs /\ j.op = job[p].op
  BY Context DEF Jobs
<1>3. pc[p] = "add" /\ pc' = pc /\ Holds(p) /\ Calm
  BY Context DEF AddRefuse, At, Holds, Waiting, Reading, Calm, bounds, StoreTypes
<1>4. Steps(p) /\ pc'[p] = "add" /\ job'[p] = j
  BY <1>1, <1>2, <1>3 DEF IInv, TypeOK, Store, Steps
<1>5. j.op = "add"
  BY <1>2, <1>3, Context DEF Bound, Adding
<1>6. Bound(p)' /\ Ready(p)'
  BY <1>4, <1>5 DEF Bound, Ready, Adding, Restoring, Purging
<1> QED BY <1>3, <1>4, <1>6, CalmStepIInv

LEMMA AddInspectIInv ==
  ASSUME IInv, NEW p \in Proc, AddInspect(p)
  PROVE  IInv'
<1>1. PICK x \in job[p].todo, e \in Entry :
        /\ file[x] # None
        /\ FreshEntry(e)
        /\ box' = [box EXCEPT ![e] = Empty]
        /\ Store(p, [job[p] EXCEPT !.todo = @ \ {x}, !.entry = e,
                                   !.path = x, !.seen = file[x]])
  BY DEF AddInspect
<1> DEFINE j == [job[p] EXCEPT !.todo = @ \ {x}, !.entry = e, !.path = x, !.seen = file[x]]
<1>2. x \in Path /\ file[x] \in Obj \cup {None}
  <2>1. job[p] \in Jobs /\ StoreTypes
    BY Context
  <2>2. job[p].todo \subseteq Path
    BY <2>1 DEF Jobs
  <2>3. file \in [Path -> Obj \cup {None}]
    BY <2>1 DEF StoreTypes
  <2> QED BY <2>2, <2>3
<1>3. j \in Jobs /\ j.op = job[p].op /\ j.entry = e /\ j.path = x
  <2>1. job[p] \in Jobs
    BY Context
  <2>2. j \in Jobs
    BY <1>2, <2>1 DEF Jobs
  <2> QED BY <2>1, <2>2 DEF Jobs
<1>4. pc[p] = "add" /\ Holds(p) /\ "move" \in Labels
  BY DEF AddInspect, At, Holds, Waiting, Reading, Labels, Adding
<1>5. Steps(p) /\ pc'[p] = "move" /\ job'[p] = j
  BY <1>1, <1>3, <1>4, StoreSteps DEF AddInspect
<1>6. /\ StoreTypes' /\ HistoriesValid' /\ hist' = hist
      /\ lock' = lock /\ readers' = readers
  BY <1>1, Context DEF AddInspect, StoreTypes, HistoriesValid, world, locks, bounds
<1>7. j.op = "add" /\ hist'[e] = << >> /\ box'[e] = Empty
  BY <1>1, <1>3, <1>4, <1>6, Context DEF Bound, Adding, FreshEntry, StoreTypes
<1> HIDE DEF j
<1>8. Bound(p)' /\ Ready(p)'
  BY <1>2, <1>3, <1>5, <1>7 DEF Bound, Ready, Adding, Restoring, Purging
<1> QED BY <1>4, <1>5, <1>6, <1>8, OwnStepIInv

LEMMA AddCheckIInv ==
  ASSUME IInv, NEW p \in Proc, AddCheck(p)
  PROVE  IInv'
<1> DEFINE l == IF file[job[p].path] = job[p].seen THEN "rename" ELSE "rmdir"
<1>1. pc[p] = "move" /\ Holds(p) /\ l \in Labels
  BY DEF AddCheck, At, Holds, Waiting, Reading, Labels, Adding
<1>2. Goto(p, l) /\ UNCHANGED <<job, hist, box>> /\ Calm
  BY Context DEF AddCheck, Calm, bounds, store, StoreTypes
<1>3. Steps(p) /\ pc'[p] = l /\ job'[p] = job[p]
  BY <1>1, <1>2, GotoSteps
<1>4. Bound(p)' /\ Ready(p)'
  BY <1>1, <1>2, <1>3, Context DEF Bound, Ready, Adding, Restoring, Purging
<1> QED BY <1>1, <1>2, <1>3, <1>4, CalmStepIInv

\* Both outcomes of the comparison after the rename, and its failure.
LEMMA AddRenameIInv ==
  ASSUME IInv, NEW p \in Proc, AddRename(p) \/ AddRenameUnverified(p)
  PROVE  IInv'
<1> DEFINE e == job[p].entry
           x == job[p].path
<1>1. pc[p] = "rename" /\ Holds(p)
  BY DEF AddRename, AddRenameUnverified, At, Holds, Waiting, Reading
<1>2. /\ e \in Entry /\ x \in Path /\ job[p].op = "add" /\ hist[e] = << >>
      /\ file[x] \in Obj
  BY <1>1, Context DEF Bound, Ready, Adding, AddRename, AddRenameUnverified, StoreTypes
<1>3. /\ file' = [file EXCEPT ![x] = None]
      /\ box' = [box EXCEPT ![e] = file[x]]
      /\ UNCHANGED <<staged, hist, torn, content, lock, readers, job, said>>
  BY DEF AddRename, AddRenameUnverified, locks
<1>4. \/ Goto(p, "rmdir") /\ UNCHANGED <<stamp, taken>>
      \/ /\ Goto(p, "append") /\ job[p].seen = file[x]
         /\ stamp' = [stamp EXCEPT ![e] = clock]
         /\ taken' = [taken EXCEPT ![e] = job[p].seen]
  BY DEF AddRename, AddRenameUnverified
<1>5. /\ clock' \in Times /\ crashes' \in 0..MaxCrashes
      /\ faults' \in 0..MaxFaults /\ edits' \in 0..MaxEdits
  <2>1. /\ clock \in Times /\ crashes \in 0..MaxCrashes
        /\ faults \in 0..MaxFaults /\ edits \in 0..MaxEdits
    BY Context DEF StoreTypes
  <2>2. CASE AddRename(p)
    <3>1. UNCHANGED <<clock, crashes, faults, edits>>
      BY <2>2 DEF AddRename, bounds
    <3> QED BY <2>1, <3>1
  <2>3. CASE AddRenameUnverified(p)
    <3>1. /\ faults < MaxFaults /\ faults' = faults + 1
          /\ UNCHANGED <<clock, crashes, edits>>
      BY <2>3 DEF AddRenameUnverified, Fault, bounds
    <3> QED BY <2>1, <3>1
  <2> QED BY <2>2, <2>3
<1>6. StoreTypes'
  <2>0. StoreTypes /\ clock \in Times
    BY Context DEF StoreTypes
  <2>1. file' \in [Path -> Obj \cup {None}] /\ box' \in [Entry -> Obj \cup {None, Empty}]
    BY <1>2, <1>3, <2>0 DEF StoreTypes
  <2>2. stamp' \in [Entry -> Times]
    BY <1>2, <1>4, <2>0 DEF StoreTypes
  <2>3. taken' \in [Entry -> Obj \cup {None}]
    BY <1>2, <1>4, <2>0 DEF StoreTypes
  <2> QED BY <1>3, <1>5, <2>0, <2>1, <2>2, <2>3 DEF StoreTypes
<1>7. HistoriesValid'
  BY <1>3, Context DEF HistoriesValid
<1>8. Steps(p) /\ pc'[p] \in {"rmdir", "append"} /\ job'[p] = job[p]
  <2>1. "rmdir" \in Labels /\ "append" \in Labels
    BY DEF Labels, Adding
  <2> QED BY <1>3, <1>4, <2>1, GotoSteps
<1>9. box'[e] \in Obj /\ hist'[e] = << >>
  BY <1>2, <1>3, Context DEF StoreTypes
<1> HIDE DEF e, x
<1>10. Bound(p)' /\ Ready(p)'
  <2>1. Bound(p)'
    BY <1>2, <1>8 DEF Bound, Adding, Restoring, Purging, e, x
  <2>2. Ready(p)'
    BY <1>8, <1>9 DEF Ready, Purging, e
  <2> QED BY <2>1, <2>2
<1> QED BY <1>1, <1>3, <1>6, <1>7, <1>8, <1>10, OwnStepIInv

LEMMA AddRenameFailsIInv ==
  ASSUME IInv, NEW p \in Proc, AddRenameFails(p)
  PROVE  IInv'
<1>1. pc[p] = "rename" /\ Holds(p) /\ "rmdir" \in Labels
  BY DEF AddRenameFails, At, Holds, Waiting, Reading, Labels, Adding
<1>2. Goto(p, "rmdir") /\ UNCHANGED job /\ Calm
  BY Context DEF AddRenameFails, Fault, Calm, bounds, StoreTypes
<1>3. Steps(p) /\ pc'[p] = "rmdir" /\ job'[p] = job[p]
  BY <1>1, <1>2, GotoSteps
<1>4. Bound(p)' /\ Ready(p)'
  BY <1>1, <1>3, Context DEF Bound, Ready, Adding, Restoring, Purging
<1> QED BY <1>1, <1>2, <1>3, <1>4, CalmStepIInv

\* The steps that end the work on an input without an event.
LEMMA AddGivesUpIInv ==
  ASSUME IInv, NEW p \in Proc,
         AddRmdir(p) \/ AddRmdirFails(p) \/ AddUndoFails(p) \/ AddUnbox(p)
  PROVE  IInv'
<1>1. pc[p] \in Adding \ {"add"}
  BY DEF AddRmdir, AddRmdirFails, AddUndoFails, AddUnbox, At, Adding
<1>2. Goto(p, "add") /\ Store(p, NextInput(p)) /\ UNCHANGED locks
  BY DEF AddRmdir, AddRmdirFails, AddUndoFails, AddUnbox
<1>3. box' \in [Entry -> Obj \cup {None, Empty}]
  BY Context DEF AddRmdir, AddRmdirFails, AddUndoFails, AddUnbox, WithoutEmptyBox,
                 StoreTypes, store
<1>4. said' \in [Entry -> Reports]
  BY Context DEF AddRmdir, AddRmdirFails, AddUndoFails, AddUnbox, Say, Reports, StoreTypes
<1>5. UNCHANGED <<file, content, staged, hist, torn, stamp, taken>>
  BY DEF AddRmdir, AddRmdirFails, AddUndoFails, AddUnbox, store, world
<1>6. /\ clock' \in Times /\ crashes' \in 0..MaxCrashes
      /\ faults' \in 0..MaxFaults /\ edits' \in 0..MaxEdits
  BY Context DEF AddRmdir, AddRmdirFails, AddUndoFails, AddUnbox, Fault, bounds, StoreTypes
<1>7. StoreTypes' /\ HistoriesValid'
  BY <1>3, <1>4, <1>5, <1>6, Context DEF StoreTypes, HistoriesValid
<1> QED BY <1>1, <1>2, <1>7, ToNextInput

LEMMA AddAppendIInv ==
  ASSUME IInv, NEW p \in Proc, AddAppend(p)
  PROVE  IInv'
<1> DEFINE e == job[p].entry
<1>1. pc[p] = "append" /\ pc[p] \in Adding \ {"add"}
  BY DEF AddAppend, At, Adding
<1>2. e \in Entry /\ hist[e] = << >>
  BY <1>1, Context DEF Bound, Ready
<1>3. CanFollow(hist[e], "trash") /\ "trash" \in Operations
  BY <1>2 DEF CanFollow, Operations
<1>4. Appended(e, "trash")
  BY DEF AddAppend
<1>5. hist' \in [Entry -> Seq(Operations)] /\ torn' \in BOOLEAN /\ HistoriesValid'
  BY <1>2, <1>3, <1>4, Context, AppendedKeepsHistories
<1>6. said' \in [Entry -> Reports]
  BY Context DEF AddAppend, Say, Reports, StoreTypes
<1>7. StoreTypes'
  BY <1>5, <1>6, Context DEF AddAppend, StoreTypes, world, bounds
<1> QED BY <1>1, <1>5, <1>7, ToNextInput DEF AddAppend

LEMMA AddAppendFailsIInv ==
  ASSUME IInv, NEW p \in Proc, AddAppendFails(p)
  PROVE  IInv'
<1> DEFINE e == job[p].entry
<1>1. pc[p] = "append" /\ Holds(p) /\ "undo" \in Labels
  BY DEF AddAppendFails, At, Holds, Waiting, Reading, Labels, Adding
<1>2. e \in Entry /\ hist[e] = << >> /\ box[e] \in Obj
  BY <1>1, Context DEF Bound, Ready, Adding
<1>3. CanFollow(hist[e], "trash") /\ "trash" \in Operations
  BY <1>2 DEF CanFollow, Operations
<1>4. CutShort(e, "trash")
  BY DEF AddAppendFails
<1>5. hist' \in [Entry -> Seq(Operations)] /\ torn' \in BOOLEAN /\ HistoriesValid'
  BY <1>2, <1>3, <1>4, Context, CutShortKeepsHistories
<1>6. StoreTypes'
  BY <1>5, Context DEF AddAppendFails, Fault, StoreTypes, world, bounds
<1>7. Goto(p, "undo") /\ UNCHANGED <<job, box, lock, readers>>
  BY DEF AddAppendFails, locks
<1>8. Steps(p) /\ pc'[p] = "undo" /\ job'[p] = job[p]
  BY <1>1, <1>7, GotoSteps
<1>9. Bound(p)' /\ Ready(p)'
  BY <1>1, <1>2, <1>7, <1>8, Context DEF Bound, Ready, Adding, Restoring, Purging
<1> QED BY <1>1, <1>5, <1>6, <1>7, <1>8, <1>9, OwnStepIInv

LEMMA AddUndoIInv ==
  ASSUME IInv, NEW p \in Proc, AddUndo(p)
  PROVE  IInv'
<1>1. pc[p] = "undo" /\ Holds(p) /\ "unbox" \in Labels
  BY DEF AddUndo, At, Holds, Waiting, Reading, Labels, Adding
<1>2. job[p].entry \in Entry /\ box[job[p].entry] \in Obj
  BY <1>1, Context DEF Bound, Ready, Adding
<1>3. StoreTypes' /\ HistoriesValid'
  BY <1>2, Context DEF AddUndo, StoreTypes, HistoriesValid, bounds
<1>4. Goto(p, "unbox") /\ UNCHANGED <<job, lock, readers>>
  BY DEF AddUndo, locks
<1>5. Steps(p) /\ pc'[p] = "unbox" /\ job'[p] = job[p]
  BY <1>1, <1>4, GotoSteps
<1>6. Bound(p)' /\ Ready(p)'
  BY <1>1, <1>5, Context DEF Bound, Ready, Adding, Restoring, Purging
<1> QED BY <1>1, <1>3, <1>4, <1>5, <1>6, OwnStepIInv

LEMMA AddIInv ==
  ASSUME IInv, NEW p \in Proc, Add(p)
  PROVE  IInv'
BY StartAddIInv, AddRefuseIInv, AddInspectIInv, EndsIInv, AddCheckIInv, AddRenameIInv,
   AddRenameFailsIInv, AddGivesUpIInv, AddAppendIInv, AddAppendFailsIInv, AddUndoIInv
   DEF Add

-----------------------------------------------------------------------------
(***************************************************************************)
(* restore.                                                                *)
(***************************************************************************)

\* The variables of a restore.
LEMMA RestoreContext ==
  ASSUME IInv, NEW p \in Proc, pc[p] \in Restoring
  PROVE  /\ job[p].op = "restore" /\ job[p].entry \in Entry /\ job[p].path \in Path
         /\ Holds(p)
BY Context DEF Bound, Holds, Restoring, Waiting, Reading

\* A clean audit finds the payload of an active entry.
LEMMA StartRestoreIInv ==
  ASSUME IInv, NEW p \in Proc, StartRestore(p)
  PROVE  IInv'
<1> DEFINE e == job[p].entry
           l == IF Phase(e) = "active" THEN "open" ELSE "done"
<1>1. /\ pc[p] = "audit" /\ Holds(p) /\ l \in Labels
      /\ job[p].op = "restore" /\ AuditClean
  BY DEF StartRestore, At, Holds, Waiting, Reading, Labels, Restoring
<1>2. e \in Entry /\ job[p].path \in Path
  BY <1>1, Context DEF Bound
<1>3. Phase(e) = "active" => box[e] \in Obj
  BY <1>1, <1>2 DEF AuditClean, EntryClean, Expected
<1>4. Goto(p, l) /\ UNCHANGED <<job, hist, box>> /\ Calm
  BY Context DEF StartRestore, Calm, bounds, store, StoreTypes
<1>5. Steps(p) /\ pc'[p] = l /\ job'[p] = job[p]
  BY <1>1, <1>4, GotoSteps
<1>6. Bound(p)'
  BY <1>1, <1>2, <1>5 DEF Bound, Adding, Restoring, Purging
<1>7. Ready(p)'
  BY <1>3, <1>4, <1>5 DEF Ready, Phase, Purging
<1> QED BY <1>1, <1>4, <1>5, <1>6, <1>7, CalmStepIInv

LEMMA RestoreOpenIInv ==
  ASSUME IInv, NEW p \in Proc, RestoreOpen(p) \/ RestoreOpenStaged(p)
  PROVE  IInv'
<1> DEFINE e == job[p].entry
           j == [job[p] EXCEPT !.seen = box[e]]
<1>1. pc[p] = "open" /\ pc[p] \in Restoring
  BY DEF RestoreOpen, RestoreOpenStaged, At, Restoring
<1>2. box[e] \in Obj /\ Phase(e) = "active"
  BY <1>1, Context DEF Ready
<1>3. j \in Jobs /\ j.op = "restore" /\ j.entry = e /\ j.path = job[p].path
  BY <1>1, <1>2, Context, RestoreContext DEF Jobs
<1>4. PICK l \in {"place", "stage"} : Goto(p, l)
  BY DEF RestoreOpen, RestoreOpenStaged
<1>5. Store(p, j) /\ UNCHANGED <<hist, box>> /\ Calm
  BY Context DEF RestoreOpen, RestoreOpenStaged, Calm, bounds, store, StoreTypes
<1>6. l \in Labels
  BY <1>4 DEF Labels, Restoring
<1>7. Steps(p) /\ pc'[p] = l /\ job'[p] = j
  BY <1>3, <1>4, <1>5, <1>6, StoreSteps
<1> HIDE DEF j
<1>8. Bound(p)'
  BY <1>1, <1>3, <1>4, <1>7, RestoreContext DEF Bound, Adding, Restoring, Purging
<1>9. Ready(p)'
  BY <1>2, <1>3, <1>4, <1>5, <1>7 DEF Ready, Phase, Purging
<1> QED BY <1>1, <1>5, <1>7, <1>8, <1>9, RestoreContext, CalmStepIInv

\* The moves of the payload out of the trash, and out of staging.
LEMMA RestoreMovesIInv ==
  ASSUME IInv, NEW p \in Proc,
         \/ RestorePlace(p) \/ RestoreStage(p) \/ RestoreStageUnverified(p)
         \/ RestorePublish(p)
  PROVE  IInv'
<1> DEFINE e == job[p].entry
           x == job[p].path
<1>1. pc[p] \in {"place", "stage", "publish"} /\ pc[p] \in Restoring
  BY DEF RestorePlace, RestoreStage, RestoreStageUnverified, RestorePublish, At, Restoring
<1>2. e \in Entry /\ x \in Path /\ job[p].op = "restore" /\ Holds(p)
  BY <1>1, RestoreContext
<1>3. Phase(e) = "active" /\ (pc[p] \in {"place", "stage"} => box[e] \in Obj)
  BY <1>1, Context DEF Ready
<1>4. PICK l \in {"verify", "publish", "record", "done"} : Goto(p, l)
  BY DEF RestorePlace, RestoreStage, RestoreStageUnverified, RestorePublish
<1>5. UNCHANGED <<hist, torn, stamp, taken, content, lock, readers, job, said>>
  BY DEF RestorePlace, RestoreStage, RestoreStageUnverified, RestorePublish, world, locks
<1>6. /\ file' \in [Path -> Obj \cup {None}]
      /\ box' \in [Entry -> Obj \cup {None, Empty}]
      /\ staged' \in [Entry -> Obj \cup {None}]
  <2>1. CASE RestorePlace(p)
    BY <1>2, <1>3, <2>1, Context DEF RestorePlace, At, StoreTypes
  <2>2. CASE RestoreStage(p) \/ RestoreStageUnverified(p)
    BY <1>2, <1>3, <2>2, Context DEF RestoreStage, RestoreStageUnverified, At, StoreTypes,
                                     world
  <2>3. CASE RestorePublish(p)
    BY <1>2, <2>3, Context DEF RestorePublish, StoreTypes
  <2> QED BY <2>1, <2>2, <2>3
<1>7. /\ clock' \in Times /\ crashes' \in 0..MaxCrashes
      /\ faults' \in 0..MaxFaults /\ edits' \in 0..MaxEdits
  BY Context DEF RestorePlace, RestoreStage, RestoreStageUnverified, RestorePublish,
                 Fault, bounds, StoreTypes
<1>8. StoreTypes' /\ HistoriesValid'
  BY <1>5, <1>6, <1>7, Context DEF StoreTypes, HistoriesValid
<1>9. Steps(p) /\ pc'[p] = l /\ job'[p] = job[p]
  <2>1. l \in Labels
    BY <1>4 DEF Labels, Restoring
  <2> QED BY <1>4, <1>5, <2>1, GotoSteps
<1>10. Bound(p)'
  BY <1>2, <1>4, <1>9 DEF Bound, Adding, Restoring, Purging
<1>11. Ready(p)'
  BY <1>3, <1>4, <1>5, <1>9 DEF Ready, Phase, Purging
<1> QED BY <1>2, <1>5, <1>8, <1>9, <1>10, <1>11, OwnStepIInv

\* The decisions between the moves.
LEMMA RestoreDecidesIInv ==
  ASSUME IInv, NEW p \in Proc,
         RestoreVerify(p) \/ RestorePublishFails(p) \/ RestoreRecheck(p)
  PROVE  IInv'
<1>1. pc[p] \in {"verify", "publish", "recheck"} /\ pc[p] \in Restoring
  BY DEF RestoreVerify, RestorePublishFails, RestoreRecheck, At, Restoring
<1>2. /\ job[p].entry \in Entry /\ job[p].path \in Path
      /\ job[p].op = "restore" /\ Holds(p)
  BY <1>1, RestoreContext
<1>3. PICK l \in {"record", "done", "unstage", "putback"} :
        Goto(p, l) /\ (l = "record" => pc[p] = "verify")
  BY DEF RestoreVerify, RestorePublishFails, RestoreRecheck, At
<1>4. UNCHANGED <<job, hist>> /\ Calm
  BY Context DEF RestoreVerify, RestorePublishFails, RestoreRecheck, Calm, bounds, store,
                 StoreTypes
<1>5. Steps(p) /\ pc'[p] = l /\ job'[p] = job[p]
  <2>1. l \in Labels
    BY <1>3 DEF Labels, Restoring
  <2> QED BY <1>3, <1>4, <2>1, GotoSteps
<1>6. Bound(p)'
  BY <1>2, <1>3, <1>5 DEF Bound, Adding, Restoring, Purging
<1>7. /\ pc[p] \in {"verify", "publish"} => Phase(job[p].entry) = "active"
      /\ hist[job[p].entry] # << >>
  BY <1>1, Context DEF Ready, Phase, PhaseOf
<1>8. Ready(p)'
  BY <1>3, <1>4, <1>5, <1>7 DEF Ready, Phase, Purging
<1> QED BY <1>2, <1>4, <1>5, <1>6, <1>8, CalmStepIInv

\* The moves back into the trash.
LEMMA RestoreReturnsIInv ==
  ASSUME IInv, NEW p \in Proc, RestoreUnstage(p) \/ RestorePutBack(p)
  PROVE  IInv'
<1>1. pc[p] \in Restoring
  BY DEF RestoreUnstage, RestorePutBack, At, Restoring
<1>2. job[p].entry \in Entry /\ job[p].path \in Path /\ Holds(p)
  BY <1>1, RestoreContext
<1>3. /\ file' \in [Path -> Obj \cup {None}]
      /\ box' \in [Entry -> Obj \cup {None, Empty}]
      /\ staged' \in [Entry -> Obj \cup {None}]
      /\ said' \in [Entry -> Reports]
  <2>0. StoreTypes
    BY Context
  <2>1. CASE RestoreUnstage(p)
    <3>1. file' \in [Path -> Obj \cup {None}]
      BY <2>0, <2>1 DEF RestoreUnstage, StoreTypes, world
    <3>2. box' \in [Entry -> Obj \cup {None, Empty}]
      BY <1>2, <2>0, <2>1 DEF RestoreUnstage, StoreTypes
    <3>3. staged' \in [Entry -> Obj \cup {None}]
      BY <1>2, <2>0, <2>1 DEF RestoreUnstage, StoreTypes
    <3>4. said' \in [Entry -> Reports]
      BY <1>2, <2>0, <2>1 DEF RestoreUnstage, Say, Reports, StoreTypes
    <3> QED BY <3>1, <3>2, <3>3, <3>4
  <2>2. CASE RestorePutBack(p)
    <3>1. file' \in [Path -> Obj \cup {None}] /\ staged' \in [Entry -> Obj \cup {None}]
      BY <1>2, <2>0, <2>2 DEF RestorePutBack, StoreTypes
    <3>2. box' \in [Entry -> Obj \cup {None, Empty}]
      BY <1>2, <2>0, <2>2 DEF RestorePutBack, StoreTypes
    <3>3. said' \in [Entry -> Reports]
      BY <1>2, <2>0, <2>2 DEF RestorePutBack, Say, Reports, StoreTypes
    <3> QED BY <3>1, <3>2, <3>3
  <2> QED BY <2>1, <2>2
<1>4. /\ UNCHANGED <<hist, torn, stamp, taken, content, lock, readers, job>>
      /\ UNCHANGED <<clock, crashes, faults, edits>>
  BY DEF RestoreUnstage, RestorePutBack, world, locks, bounds
<1>5. StoreTypes' /\ HistoriesValid'
  BY <1>3, <1>4, Context DEF StoreTypes, HistoriesValid
<1>6. "done" \in Labels /\ Goto(p, "done")
  BY DEF RestoreUnstage, RestorePutBack, Labels
<1>7. Steps(p) /\ pc'[p] = "done" /\ job'[p] = job[p]
  BY <1>4, <1>6, GotoSteps
<1>8. Bound(p)' /\ Ready(p)'
  BY <1>7, IdleLabels
<1> QED BY <1>2, <1>4, <1>5, <1>7, <1>8, OwnStepIInv

LEMMA RestoreRecordIInv ==
  ASSUME IInv, NEW p \in Proc, RestoreRecord(p) \/ RestoreRecordFails(p)
  PROVE  IInv'
<1> DEFINE e == job[p].entry
<1>1. pc[p] = "record" /\ pc[p] \in Restoring
  BY DEF RestoreRecord, RestoreRecordFails, At, Restoring
<1>2. e \in Entry /\ job[p].path \in Path /\ job[p].op = "restore" /\ Holds(p)
  BY <1>1, RestoreContext
<1>3. hist[e] \in Seq(Operations)
  BY <1>2, Context DEF StoreTypes
<1>4. CanFollow(hist[e], "restore") /\ "restore" \in Operations
  BY <1>1, <1>3, Context, EventsThatFollow DEF Ready, Phase, Operations
<1>5. Appended(e, "restore") \/ CutShort(e, "restore")
  BY DEF RestoreRecord, RestoreRecordFails
<1>6. hist' \in [Entry -> Seq(Operations)] /\ torn' \in BOOLEAN /\ HistoriesValid'
  BY <1>2, <1>4, <1>5, Context, AppendedKeepsHistories, CutShortKeepsHistories
<1>7. said' \in [Entry -> Reports]
  BY Context DEF RestoreRecord, RestoreRecordFails, Say, Reports, StoreTypes
<1>8. /\ UNCHANGED <<file, content, box, staged, stamp, taken, lock, readers, job>>
      /\ clock' \in Times /\ crashes' \in 0..MaxCrashes
      /\ faults' \in 0..MaxFaults /\ edits' \in 0..MaxEdits
  BY Context DEF RestoreRecord, RestoreRecordFails, Fault, world, locks, bounds, StoreTypes
<1>9. StoreTypes'
  BY <1>6, <1>7, <1>8, Context DEF StoreTypes
<1>10. PICK l \in {"done", "recheck"} : Goto(p, l)
  BY DEF RestoreRecord, RestoreRecordFails
<1>11. Steps(p) /\ pc'[p] = l /\ job'[p] = job[p]
  <2>1. l \in Labels
    BY <1>10 DEF Labels, Restoring
  <2> QED BY <1>8, <1>10, <2>1, GotoSteps
<1>12. Bound(p)'
  BY <1>2, <1>10, <1>11 DEF Bound, Adding, Restoring, Purging
<1>13. hist'[e] # << >>
  <2>1. hist[e] # << >>
    BY <1>1, Context DEF Ready, Phase, PhaseOf
  <2> QED BY <1>2, <1>3, <1>5, <2>1, Context DEF Appended, CutShort, StoreTypes
<1>14. Ready(p)'
  BY <1>8, <1>10, <1>11, <1>13 DEF Ready, Purging
<1> QED BY <1>2, <1>6, <1>8, <1>9, <1>11, <1>12, <1>14, OwnStepIInv

LEMMA RestoreIInv ==
  ASSUME IInv, NEW p \in Proc, Restore(p)
  PROVE  IInv'
BY StartRestoreIInv, RestoreOpenIInv, EndsIInv, RestoreMovesIInv, RestoreDecidesIInv,
   RestoreReturnsIInv, RestoreRecordIInv DEF Restore

-----------------------------------------------------------------------------
(***************************************************************************)
(* purge and empty.                                                        *)
(***************************************************************************)

LEMMA PurgeContext ==
  ASSUME IInv, NEW p \in Proc, pc[p] \in Purging
  PROVE  /\ Holds(p)
         /\ pc[p] # "purge" => job[p].entry \in Entry
         /\ job[p].op = "restore" => job[p].entry \in Entry /\ job[p].path \in Path
BY Context DEF Bound, Holds, Purging, Waiting, Reading

LEMMA CheckTokenIInv ==
  ASSUME IInv, NEW p \in Proc, CheckToken(p)
  PROVE  IInv'
<1> DEFINE l == IF Candidates(job[p]) = job[p].token THEN "audit" ELSE "done"
<1>1. pc[p] = "token" /\ Holds(p) /\ l \in Labels
  BY DEF CheckToken, At, Holds, Waiting, Reading, Labels
<1>2. Goto(p, l) /\ UNCHANGED <<job, hist, stamp>> /\ Calm
  BY Context DEF CheckToken, Calm, bounds, store, StoreTypes
<1>3. Steps(p) /\ pc'[p] = l /\ job'[p] = job[p]
  BY <1>1, <1>2, GotoSteps
<1>4. Candidates(job[p])' = Candidates(job[p])
  BY <1>2 DEF Candidates, Eligible, Phase
<1>5. Bound(p)' /\ Ready(p)'
  BY <1>1, <1>3, <1>4, Context DEF Bound, Ready, Adding, Restoring, Purging
<1> QED BY <1>1, <1>2, <1>3, <1>5, CalmStepIInv

LEMMA StartPurgeIInv ==
  ASSUME IInv, NEW p \in Proc, StartPurge(p)
  PROVE  IInv'
<1> DEFINE j == [job[p] EXCEPT !.cand = Candidates(job[p])]
<1>1. /\ pc[p] = "audit" /\ Holds(p) /\ "purge" \in Labels
      /\ job[p].op \in {"purge", "empty"}
  BY DEF StartPurge, At, Holds, Waiting, Reading, Labels, Purging
<1>2. j \in Jobs /\ j.op = job[p].op /\ j.asof = job[p].asof /\ j.token = job[p].token
      /\ j.cand = Candidates(job[p])
  BY Context DEF Jobs, Candidates
<1>3. Goto(p, "purge") /\ Store(p, j) /\ UNCHANGED <<hist, stamp>> /\ Calm
  BY Context DEF StartPurge, Calm, bounds, store, StoreTypes
<1>4. Steps(p) /\ pc'[p] = "purge" /\ job'[p] = j
  BY <1>1, <1>2, <1>3, StoreSteps
<1>5. ASSUME NEW e \in Candidates(job[p])
      PROVE  /\ Phase(e) \in {"active", "purge_pending"}
             /\ Phase(e) = "active" => stamp[e] <= job[p].asof
             /\ job[p].op = "empty" => e \in job[p].token
  BY <1>1, Context DEF Candidates, Eligible, Ready
<1> HIDE DEF j
<1>6. Bound(p)'
  BY <1>1, <1>2, <1>4 DEF Bound, Adding, Restoring, Purging
<1>7. Ready(p)'
  BY <1>2, <1>3, <1>4, <1>5 DEF Ready, Phase, MayPurge, Purging
<1> QED BY <1>1, <1>3, <1>4, <1>6, <1>7, CalmStepIInv

LEMMA PurgeNextIInv ==
  ASSUME IInv, NEW p \in Proc, PurgeNext(p)
  PROVE  IInv'
<1>1. PICK e \in job[p].cand :
        /\ Store(p, [job[p] EXCEPT !.cand = @ \ {e}, !.entry = e])
        /\ Goto(p, IF Phase(e) = "purge_pending" THEN "remove" ELSE "intend")
  BY DEF PurgeNext
<1> DEFINE j == [job[p] EXCEPT !.cand = @ \ {e}, !.entry = e]
           l == IF Phase(e) = "purge_pending" THEN "remove" ELSE "intend"
<1>2. pc[p] = "purge" /\ pc[p] \in Purging /\ l \in Labels
  BY DEF PurgeNext, At, Labels, Purging
<1>3. /\ j \in Jobs /\ j.op = job[p].op /\ j.asof = job[p].asof /\ j.token = job[p].token
      /\ j.cand = job[p].cand \ {e} /\ j.entry = e /\ j.path = job[p].path
      /\ e \in Entry
  <2>1. job[p] \in Jobs
    BY Context
  <2>2. e \in Entry
    BY <2>1 DEF Jobs
  <2>3. j \in Jobs
    BY <2>1, <2>2 DEF Jobs
  <2> QED BY <2>1, <2>2, <2>3 DEF Jobs
<1>4. UNCHANGED <<hist, stamp>> /\ Calm
  BY Context DEF PurgeNext, Calm, bounds, store, StoreTypes
<1>5. Steps(p) /\ pc'[p] = l /\ job'[p] = j
  BY <1>1, <1>2, <1>3, StoreSteps
<1>6. \A c \in job[p].cand : Phase(c) \in {"active", "purge_pending"} /\ MayPurge(p, c)
  BY <1>2, Context DEF Ready
<1> HIDE DEF j
<1>7. Bound(p)'
  BY <1>2, <1>3, <1>5, PurgeContext DEF Bound, Adding, Restoring, Purging
<1>8. Ready(p)'
  BY <1>1, <1>3, <1>4, <1>5, <1>6 DEF Ready, Phase, MayPurge, Purging
<1> QED BY <1>2, <1>4, <1>5, <1>7, <1>8, PurgeContext, CalmStepIInv

\* Steps of the removal change no event.
LEMMA RemovalKeepsKnowledge ==
  ASSUME IInv, NEW p \in Proc, pc[p] \in {"remove", "reclaim"},
         UNCHANGED <<hist, stamp>>, job'[p] = job[p],
         pc'[p] \in {"remove", "reclaim", "abandon", "complete"}
  PROVE  Bound(p)' /\ Ready(p)'
<1>1. Bound(p) /\ Ready(p) /\ pc[p] \in Purging \ {"purge"}
  BY Context DEF Purging
<1>2. pc'[p] \notin Adding \cup Restoring \cup {"purge", "intend", "audit"}
  BY DEF Adding, Restoring
<1>3. Bound(p)'
  BY <1>1, <1>2 DEF Bound
<1>4. /\ job[p].entry \notin job[p].cand
      /\ Phase(job[p].entry) = "purge_pending"
      /\ \A e \in job[p].cand : Phase(e) \in {"active", "purge_pending"} /\ MayPurge(p, e)
  BY <1>1 DEF Ready
<1>5. /\ PhaseOf(hist'[job'[p].entry]) = "purge_pending"
      /\ \A e \in job'[p].cand : Phase(e)' \in {"active", "purge_pending"} /\ MayPurge(p, e)'
  BY <1>4 DEF Phase, MayPurge
<1>6. Ready(p)'
  BY <1>2, <1>4, <1>5 DEF Ready, Phase, Restoring, Adding
<1> QED BY <1>3, <1>6

LEMMA PurgeRemovesIInv ==
  ASSUME IInv, NEW p \in Proc,
         PurgeRemovePart(p) \/ PurgeRemove(p) \/ PurgeRemoveFails(p) \/ PurgeReclaim(p)
  PROVE  IInv'
<1>1. pc[p] \in {"remove", "reclaim"} /\ pc[p] \in Purging \ {"purge"}
  BY DEF PurgeRemovePart, PurgeRemove, PurgeRemoveFails, PurgeReclaim, At, Purging
<1>2. job[p].entry \in Entry /\ Holds(p)
  BY <1>1, PurgeContext
<1>3. /\ content' \in [Obj -> Contents]
      /\ box' \in [Entry -> Obj \cup {None, Empty}]
  <2>1. CASE PurgeRemovePart(p)
    BY <2>1, Context DEF PurgeRemovePart, store, Contents, StoreTypes
  <2>2. CASE PurgeRemove(p)
    BY <1>2, <2>2, Context DEF PurgeRemove, Contents, StoreTypes
  <2>3. CASE PurgeRemoveFails(p)
    BY <2>3, Context DEF PurgeRemoveFails, store, world, StoreTypes
  <2>4. CASE PurgeReclaim(p)
    BY <1>2, <2>4, Context DEF PurgeReclaim, WithoutEmptyBox, world, StoreTypes
  <2> QED BY <2>1, <2>2, <2>3, <2>4
<1>4. UNCHANGED <<file, staged, hist, torn, stamp, taken, lock, readers, job, said>>
  BY DEF PurgeRemovePart, PurgeRemove, PurgeRemoveFails, PurgeReclaim, store, world, locks
<1>5. /\ clock' \in Times /\ crashes' \in 0..MaxCrashes
      /\ faults' \in 0..MaxFaults /\ edits' \in 0..MaxEdits
  BY Context DEF PurgeRemovePart, PurgeRemove, PurgeRemoveFails, PurgeReclaim, Fault, bounds,
                 StoreTypes
<1>6. StoreTypes' /\ HistoriesValid'
  BY <1>3, <1>4, <1>5, Context DEF StoreTypes, HistoriesValid
<1>7. PICK l \in {"remove", "reclaim", "abandon", "complete"} : Goto(p, l)
  <2>1. PurgeRemovePart(p) => Goto(p, "remove")
    BY Context DEF PurgeRemovePart, Goto, At, IInv, TypeOK
  <2> QED BY <2>1 DEF PurgeRemove, PurgeRemoveFails, PurgeReclaim
<1>8. Steps(p) /\ pc'[p] = l /\ job'[p] = job[p]
  <2>1. l \in Labels
    BY <1>7 DEF Labels, Purging
  <2> QED BY <1>4, <1>7, <2>1, GotoSteps
<1>9. Bound(p)' /\ Ready(p)'
  BY <1>1, <1>4, <1>7, <1>8, RemovalKeepsKnowledge
<1> QED BY <1>2, <1>4, <1>6, <1>8, <1>9, OwnStepIInv

\* The three events of a purge may follow the history of the candidate.
LEMMA PurgeEventsFollow ==
  ASSUME IInv, NEW p \in Proc
  PROVE  /\ pc[p] = "intend" => CanFollow(hist[job[p].entry], "purge_intent")
         /\ pc[p] = "abandon" => CanFollow(hist[job[p].entry], "purge_failed")
         /\ pc[p] = "complete" => CanFollow(hist[job[p].entry], "purge_complete")
<1>1. pc[p] \in {"intend", "abandon", "complete"} => hist[job[p].entry] \in Seq(Operations)
  BY Context DEF Bound, Purging, StoreTypes
<1>2. /\ pc[p] = "intend" => Phase(job[p].entry) = "active"
      /\ pc[p] \in {"abandon", "complete"} => Phase(job[p].entry) = "purge_pending"
  BY Context DEF Ready
<1> QED BY <1>1, <1>2, EventsThatFollow DEF Phase

LEMMA PurgeAppendsIInv ==
  ASSUME IInv, NEW p \in Proc, PurgeIntend(p) \/ PurgeAbandon(p) \/ PurgeComplete(p)
  PROVE  IInv'
<1> DEFINE e == job[p].entry
<1>1. /\ pc[p] \in Purging \ {"purge"}
      /\ pc[p] \in {"intend", "abandon", "complete"}
  BY DEF PurgeIntend, PurgeAbandon, PurgeComplete, At, Purging
<1>2. e \in Entry /\ Holds(p)
  BY <1>1, PurgeContext
<1>3. PICK op \in {"purge_intent", "purge_failed", "purge_complete"} :
        Appended(e, op) /\ CanFollow(hist[e], op)
                        /\ (pc[p] = "intend" => op = "purge_intent")
  BY PurgeEventsFollow DEF PurgeIntend, PurgeAbandon, PurgeComplete, At
<1>4. op \in Operations
  BY <1>3 DEF Operations
<1>5. /\ hist' \in [Entry -> Seq(Operations)] /\ torn' \in BOOLEAN /\ HistoriesValid'
      /\ PhaseOf(hist'[e]) = PhaseAfter(op)
      /\ \A x \in Entry \ {e} : hist'[x] = hist[x]
  BY <1>2, <1>3, <1>4, Context, AppendedKeepsHistories
<1>6. said' \in [Entry -> Reports]
  BY Context DEF PurgeIntend, PurgeAbandon, PurgeComplete, Say, Reports, StoreTypes
<1>7. UNCHANGED <<file, content, box, staged, stamp, taken, lock, readers, job, bounds>>
  BY DEF PurgeIntend, PurgeAbandon, PurgeComplete, world, locks
<1>8. StoreTypes'
  BY <1>5, <1>6, <1>7, Context DEF StoreTypes, bounds
<1>9. PICK l \in {"remove", "purge"} : Goto(p, l) /\ (l = "remove" => pc[p] = "intend")
  BY DEF PurgeIntend, PurgeAbandon, PurgeComplete, At
<1>10. Steps(p) /\ pc'[p] = l /\ job'[p] = job[p]
  <2>1. l \in Labels
    BY <1>9 DEF Labels, Purging
  <2> QED BY <1>7, <1>9, <2>1, GotoSteps
<1>11. Bound(p)'
  BY <1>1, <1>2, <1>9, <1>10, PurgeContext DEF Bound, Adding, Restoring, Purging
<1>12. l = "remove" => PhaseOf(hist'[e]) = "purge_pending"
  <2>1. PhaseAfter("purge_intent") = "purge_pending"
    BY DEF PhaseAfter
  <2> QED BY <1>3, <1>5, <1>9, <2>1
<1>13. ASSUME NEW c \in job[p].cand
       PROVE  Phase(c)' \in {"active", "purge_pending"} /\ MayPurge(p, c)'
  <2>1. c \in Entry \ {e}
    BY <1>1, Context DEF Ready, Jobs
  <2>2. Phase(c) \in {"active", "purge_pending"} /\ MayPurge(p, c)
    BY <1>1, Context DEF Ready
  <2>3. Phase(c)' = Phase(c)
    BY <1>5, <2>1 DEF Phase
  <2> QED BY <1>7, <1>10, <2>2, <2>3 DEF MayPurge
<1>14. Ready(p)'
  <2>1. e \notin job[p].cand
    BY <1>1, Context DEF Ready
  <2> QED BY <1>7, <1>9, <1>10, <1>12, <1>13, <2>1 DEF Ready, Phase, Purging
<1> QED BY <1>2, <1>5, <1>7, <1>8, <1>10, <1>11, <1>14, OwnStepIInv

LEMMA PurgeAppendFailsIInv ==
  ASSUME IInv, NEW p \in Proc, PurgeAppendFails(p)
  PROVE  IInv'
<1> DEFINE e == job[p].entry
<1>1. pc[p] \in Purging \ {"purge"}
  BY DEF PurgeAppendFails, At, Purging
<1>2. e \in Entry /\ Holds(p)
  BY <1>1, PurgeContext
<1>3. PICK op \in {"purge_intent", "purge_failed", "purge_complete"} :
        CutShort(e, op) /\ CanFollow(hist[e], op)
  BY PurgeEventsFollow DEF PurgeAppendFails, At
<1>4. op \in Operations
  BY <1>3 DEF Operations
<1>5. hist' \in [Entry -> Seq(Operations)] /\ torn' \in BOOLEAN /\ HistoriesValid'
  BY <1>2, <1>3, <1>4, Context, CutShortKeepsHistories
<1>6. /\ UNCHANGED <<file, content, box, staged, stamp, taken, lock, readers, job, said>>
      /\ clock' \in Times /\ crashes' \in 0..MaxCrashes
      /\ faults' \in 0..MaxFaults /\ edits' \in 0..MaxEdits
  BY Context DEF PurgeAppendFails, Fault, world, locks, bounds, StoreTypes
<1>7. StoreTypes'
  BY <1>5, <1>6, Context DEF StoreTypes
<1>8. "done" \in Labels /\ Goto(p, "done")
  BY DEF PurgeAppendFails, Labels
<1>9. Steps(p) /\ pc'[p] = "done" /\ job'[p] = job[p]
  BY <1>6, <1>8, GotoSteps
<1>10. Bound(p)' /\ Ready(p)'
  BY <1>9, IdleLabels
<1> QED BY <1>2, <1>5, <1>6, <1>7, <1>9, <1>10, OwnStepIInv

LEMMA PurgeIInv ==
  ASSUME IInv, NEW p \in Proc, Purge(p)
  PROVE  IInv'
BY CheckTokenIInv, StartPurgeIInv, EndsIInv, PurgeNextIInv, PurgeRemovesIInv,
   PurgeAppendsIInv, PurgeAppendFailsIInv DEF Purge

-----------------------------------------------------------------------------
(***************************************************************************)
(* Kills, the user and the clock.                                          *)
(***************************************************************************)

\* A process that is killed while it appends had the right to append.
LEMMA AppendingFollows ==
  ASSUME IInv, NEW p \in Proc, Appending(p) # "none"
  PROVE  /\ job[p].entry \in Entry /\ Appending(p) \in Operations
         /\ CanFollow(hist[job[p].entry], Appending(p))
         /\ Holds(p)
<1>1. /\ pc[p] = "append"   => Appending(p) = "trash"
      /\ pc[p] = "record"   => Appending(p) = "restore"
      /\ pc[p] = "intend"   => Appending(p) = "purge_intent"
      /\ pc[p] = "abandon"  => Appending(p) = "purge_failed"
      /\ pc[p] = "complete" => Appending(p) = "purge_complete"
      /\ pc[p] \in {"append", "record", "intend", "abandon", "complete"}
  BY DEF Appending, At
<1>2. Appending(p) \in Operations /\ Holds(p)
  BY <1>1 DEF Operations, Holds, Waiting, Reading
<1>3. job[p].entry \in Entry
  BY <1>1, Context DEF Bound, Adding, Restoring, Purging
<1>4. hist[job[p].entry] \in Seq(Operations)
  BY <1>3, Context DEF StoreTypes
<1>5. CASE pc[p] = "append"
  <2>1. hist[job[p].entry] = << >>
    BY <1>5, Context DEF Ready
  <2> QED BY <1>1, <1>2, <1>3, <1>4, <1>5, <2>1, EventsThatFollow
<1>6. CASE pc[p] = "record"
  <2>1. PhaseOf(hist[job[p].entry]) = "active"
    BY <1>6, Context DEF Ready, Phase
  <2> QED BY <1>1, <1>2, <1>3, <1>4, <1>6, <2>1, EventsThatFollow
<1>7. CASE pc[p] \in {"intend", "abandon", "complete"}
  BY <1>1, <1>2, <1>3, <1>7, PurgeEventsFollow
<1> QED BY <1>1, <1>5, <1>6, <1>7

LEMMA CrashIInv ==
  ASSUME IInv, NEW p \in Proc, Crash(p)
  PROVE  IInv'
<1>1. /\ UNCHANGED <<file, content, box, staged, stamp, taken, said>>
      /\ clock' \in Times /\ crashes' \in 0..MaxCrashes
      /\ faults' \in 0..MaxFaults /\ edits' \in 0..MaxEdits
      /\ Unlock(p)
  BY Context DEF Crash, StoreTypes, world
<1>2. /\ hist' \in [Entry -> Seq(Operations)] /\ torn' \in BOOLEAN /\ HistoriesValid'
      /\ Holds(p) \/ hist' = hist
  <2>1. CASE Appending(p) = "none"
    <3>1. UNCHANGED <<hist, torn>>
      BY <2>1 DEF Crash
    <3> QED BY <3>1, Context DEF StoreTypes, HistoriesValid
  <2>2. CASE Appending(p) # "none"
    <3>1. CutShort(job[p].entry, Appending(p))
      BY <2>2 DEF Crash
    <3> QED BY <2>2, <3>1, Context, AppendingFollows, CutShortKeepsHistories
  <2> QED BY <2>1, <2>2
<1>3. StoreTypes'
  BY <1>1, <1>2, Context DEF StoreTypes
<1> QED BY <1>1, <1>2, <1>3, UnlockIInv

\* No process depends on the user's files or on the clock.
LEMMA OutsideIInv ==
  ASSUME IInv, StoreTypes', UNCHANGED <<box, hist, stamp, locks, pc, job>>
  PROVE  IInv'
<1>1. TypeOK'
  BY DEF IInv, TypeOK, StoreTypes, locks
<1>2. HistoriesValid'
  BY DEF IInv, HistoriesValid
<1>3. ASSUME NEW q \in Proc
      PROVE  (Holds(q)' => lock' = q) /\ Bound(q)' /\ Ready(q)'
  <2>1. Bound(q) /\ Ready(q) /\ (Holds(q) => lock = q)
    BY DEF IInv, Locked
  <2>2. Candidates(job[q])' = Candidates(job[q])
    BY DEF Candidates, Eligible, Phase
  <2> QED BY <2>1, <2>2 DEF Holds, Bound, Ready, Phase, MayPurge, locks
<1> QED BY <1>1, <1>2, <1>3 DEF IInv, Locked

LEMMA UserIInv ==
  ASSUME IInv, User
  PROVE  IInv'
<1>1. StoreTypes
  BY DEF IInv, TypeOK, StoreTypes
<1>2. CASE \E x \in Path, o \in Obj : UserCreate(x, o)
  <2>1. StoreTypes' /\ UNCHANGED <<box, hist, stamp, locks, pc, job>>
    BY <1>1, <1>2 DEF UserCreate, Edit, StoreTypes, Contents, store
  <2> QED BY <2>1, OutsideIInv
<1>3. CASE \E x \in Path : UserDelete(x)
  <2>1. StoreTypes' /\ UNCHANGED <<box, hist, stamp, locks, pc, job>>
    BY <1>1, <1>3 DEF UserDelete, Edit, StoreTypes, Contents, store
  <2> QED BY <2>1, OutsideIInv
<1> QED BY <1>2, <1>3 DEF User

LEMMA TickIInv ==
  ASSUME IInv, Tick
  PROVE  IInv'
<1>1. StoreTypes
  BY DEF IInv, TypeOK, StoreTypes
<1>2. StoreTypes' /\ UNCHANGED <<box, hist, stamp, locks, pc, job>>
  BY <1>1 DEF Tick, StoreTypes, Times, store, world
<1> QED BY <1>2, OutsideIInv

-----------------------------------------------------------------------------
(***************************************************************************)
(* The invariant.                                                          *)
(***************************************************************************)

LEMMA InitIInv == Init => IInv
<1> SUFFICES ASSUME Init PROVE IInv
  OBVIOUS
<1>1. 0 \in Times /\ NoJob \in Jobs /\ "idle" \in Labels
  BY DEF Times, NoJob, Jobs, Labels, Waiting
<1>2. TypeOK
  <2>1. /\ file \in [Path -> Obj \cup {None}]
        /\ content \in [Obj -> Contents]
        /\ box \in [Entry -> Obj \cup {None, Empty}]
        /\ staged \in [Entry -> Obj \cup {None}]
        /\ taken \in [Entry -> Obj \cup {None}]
    BY DEF Init, Contents
  <2>2. hist \in [Entry -> Seq(Operations)] /\ torn \in BOOLEAN
    <3>1. << >> \in Seq(Operations)
      OBVIOUS
    <3> QED BY <3>1 DEF Init
  <2>3. /\ stamp \in [Entry -> Times] /\ said \in [Entry -> Reports]
        /\ pc \in [Proc -> Labels] /\ job \in [Proc -> Jobs]
    BY <1>1 DEF Init, Reports
  <2>4. /\ lock \in Proc \cup {None} /\ readers \subseteq Proc /\ clock \in Times
        /\ crashes \in 0..MaxCrashes /\ faults \in 0..MaxFaults /\ edits \in 0..MaxEdits
    BY <1>1 DEF Init
  <2> QED BY <2>1, <2>2, <2>3, <2>4 DEF TypeOK
<1>3. \A p \in Proc : pc[p] = "idle" /\ job[p].op = None
  BY DEF Init, NoJob
<1>4. \A p \in Proc : ~Holds(p) /\ Bound(p) /\ Ready(p)
  BY <1>3 DEF Holds, Bound, Ready, Waiting, Adding, Restoring, Purging, Verbs
<1>5. HistoriesValid
  BY DEF Init, HistoriesValid, ValidHistory
<1> QED BY <1>2, <1>4, <1>5 DEF IInv, Locked

LEMMA NextIInv == IInv /\ [Next]_vars => IInv'
<1> SUFFICES ASSUME IInv, [Next]_vars PROVE IInv'
  OBVIOUS
<1>1. ASSUME NEW p \in Proc, BeginCommand(p) PROVE IInv'
  BY <1>1, BeginCommandIInv
<1>2. ASSUME NEW p \in Proc, Work(p) PROVE IInv'
  BY <1>2, AcquireIInv, EndsIInv, AddIInv, RestoreIInv, PurgeIInv, ReleaseIInv DEF Work
<1>3. ASSUME NEW p \in Proc, Crash(p) PROVE IInv'
  BY <1>3, CrashIInv
<1>4. CASE User
  BY <1>4, UserIInv
<1>5. CASE Tick
  BY <1>5, TickIInv
<1>6. CASE UNCHANGED vars
  <2>1. StoreTypes' /\ UNCHANGED <<box, hist, stamp, locks, pc, job>>
    BY <1>6 DEF vars, IInv, TypeOK, StoreTypes, store, world, bounds
  <2> QED BY <2>1, OutsideIInv
<1> QED BY <1>1, <1>2, <1>3, <1>4, <1>5, <1>6 DEF Next

LEMMA IInvHolds == Spec => []IInv
<1> QED BY InitIInv, NextIInv, PTL DEF Spec

-----------------------------------------------------------------------------
(***************************************************************************)
(* The theorems.                                                           *)
(***************************************************************************)

\* Every variable has its type; in particular nothing but an object is ever
\* moved into a path, an object directory or the staging area.
THEOREM TypeCorrect == Spec => []TypeOK
<1>1. IInv => TypeOK
  BY DEF IInv
<1> QED BY <1>1, IInvHolds, PTL

\* Whatever fails and whoever is killed, the commands never append an event
\* that replay calls an impossible transition.
THEOREM HistoriesStayValid == Spec => []HistoriesValid
<1>1. IInv => HistoriesValid
  BY DEF IInv
<1> QED BY <1>1, IInvHolds, PTL

\* The steps that touch an object's contents.
LEMMA ContentChanges ==
  ASSUME Next, content' # content
  PROVE  (\E p \in Proc : PurgeRemovePart(p) \/ PurgeRemove(p)) \/ User
<1>1. ASSUME NEW p \in Proc, BeginCommand(p) PROVE content' = content
  BY <1>1 DEF BeginCommand, BeginAdd, BeginRestore, BeginPurge, BeginEmpty, BeginPreview,
              BeginList, Begin, world
<1>2. ASSUME NEW p \in Proc, Add(p) PROVE content' = content
  BY <1>2 DEF Add, StartAdd, AddRefuse, AddInspect, AddFinish, AddCheck, AddRename,
              AddRenameUnverified, AddRenameFails, AddRmdir, AddRmdirFails, AddAppend,
              AddAppendFails, AddUndo, AddUndoFails, AddUnbox, world
<1>3. ASSUME NEW p \in Proc, Restore(p) PROVE content' = content
  BY <1>3 DEF Restore, StartRestore, RestoreOpen, RestoreOpenStaged, RestoreRefuse,
              RestorePlace, RestoreVerify, RestoreVerifyFails, RestoreStage,
              RestoreStageUnverified, RestorePublish, RestorePublishFails, RestoreUnstage,
              RestoreRecord, RestoreRecordFails, RestoreRecheck, RestorePutBack,
              RestorePutBackFails, Bounce, world
<1>4. ASSUME NEW p \in Proc, Purge(p)
      PROVE  content' = content \/ PurgeRemovePart(p) \/ PurgeRemove(p)
  BY <1>4 DEF Purge, CheckToken, StartPurge, EndPreview, PurgeNext, PurgeFinish,
              PurgeIntend, PurgeRemoveFails, PurgeReclaim, PurgeReclaimFails,
              PurgeAbandon, PurgeComplete, PurgeAppendFails, world
<1>5. ASSUME NEW p \in Proc,
             \/ AcquireExclusive(p) \/ AcquireShared(p) \/ AuditRefuses(p)
             \/ Release(p) \/ Crash(p)
      PROVE  content' = content
  BY <1>5 DEF AcquireExclusive, AcquireShared, AuditRefuses, Release, Crash, world
<1>6. Tick => content' = content
  BY DEF Tick, world
<1> QED BY <1>1, <1>2, <1>3, <1>4, <1>5, <1>6 DEF Next, Work

\* The removal of a payload is under way only while the ledger holds a purge
\* intent for its entry that is not resolved.
THEOREM DestroyIsAuthorised == Spec => DestroyAuthorised
<1> DEFINE Authorised ==
      \A o \in Obj : content[o] # content'[o] /\ content'[o] \in {"part", "purged"} =>
        \E e \in Entry : box[e] = o /\ Phase(e) = "purge_pending"
<1>1. ASSUME IInv, [Next]_vars PROVE [Authorised]_vars
  <2> SUFFICES ASSUME Next, NEW o \in Obj, content[o] # content'[o],
                      content'[o] \in {"part", "purged"}
               PROVE  \E e \in Entry : box[e] = o /\ Phase(e) = "purge_pending"
    BY <1>1
  <2>1. content \in [Obj -> Contents] /\ content' # content
    BY <1>1 DEF IInv, TypeOK
  <2>2. ASSUME NEW p \in Proc, PurgeRemovePart(p) \/ PurgeRemove(p)
        PROVE  \E e \in Entry : box[e] = o /\ Phase(e) = "purge_pending"
    <3>1. pc[p] = "remove"
      BY <2>2 DEF PurgeRemovePart, PurgeRemove, At
    <3>2. job[p].entry \in Entry /\ Phase(job[p].entry) = "purge_pending"
      BY <1>1, <3>1, Context DEF Bound, Ready, Purging
    <3>3. box[job[p].entry] = o
      BY <2>1, <2>2 DEF PurgeRemovePart, PurgeRemove
    <3> QED BY <3>2, <3>3
  <2>3. User => content'[o] \notin {"part", "purged"}
    BY <2>1 DEF User, UserCreate, UserDelete
  <2> QED BY <2>1, <2>2, <2>3, ContentChanges
<1>2. Spec => [][Authorised]_vars
  BY <1>1, IInvHolds, PTL DEF Spec
<1> QED BY <1>2 DEF DestroyAuthorised

\* The steps that touch an object directory.
LEMMA BoxChanges ==
  ASSUME Next, box' # box
  PROVE  \E p \in Proc :
           \/ AddInspect(p) \/ AddRename(p) \/ AddRenameUnverified(p) \/ AddRmdir(p)
           \/ AddUndo(p) \/ AddUnbox(p)
           \/ RestorePlace(p) \/ RestoreStage(p) \/ RestoreStageUnverified(p)
           \/ RestoreUnstage(p) \/ RestorePutBack(p)
           \/ PurgeRemove(p) \/ PurgeReclaim(p)
<1>1. ASSUME NEW p \in Proc, BeginCommand(p) PROVE box' = box
  BY <1>1 DEF BeginCommand, BeginAdd, BeginRestore, BeginPurge, BeginEmpty, BeginPreview,
              BeginList, Begin, store
<1>2. ASSUME NEW p \in Proc, Add(p)
      PROVE  \/ box' = box
             \/ AddInspect(p) \/ AddRename(p) \/ AddRenameUnverified(p) \/ AddRmdir(p)
             \/ AddUndo(p) \/ AddUnbox(p)
  BY <1>2 DEF Add, StartAdd, AddRefuse, AddFinish, AddCheck, AddRenameFails,
              AddRmdirFails, AddAppend, AddAppendFails, AddUndoFails, store
<1>3. ASSUME NEW p \in Proc, Restore(p)
      PROVE  \/ box' = box
             \/ RestorePlace(p) \/ RestoreStage(p) \/ RestoreStageUnverified(p)
             \/ RestoreUnstage(p) \/ RestorePutBack(p)
  BY <1>3 DEF Restore, StartRestore, RestoreOpen, RestoreOpenStaged, RestoreRefuse,
              RestoreVerify, RestoreVerifyFails, RestorePublish, RestorePublishFails,
              RestoreRecord, RestoreRecordFails, RestoreRecheck, RestorePutBackFails,
              Bounce, store
<1>4. ASSUME NEW p \in Proc, Purge(p)
      PROVE  box' = box \/ PurgeRemove(p) \/ PurgeReclaim(p)
  BY <1>4 DEF Purge, CheckToken, StartPurge, EndPreview, PurgeNext, PurgeFinish,
              PurgeIntend, PurgeRemovePart, PurgeRemoveFails, PurgeReclaimFails,
              PurgeAbandon, PurgeComplete, PurgeAppendFails, store
<1>5. ASSUME NEW p \in Proc,
             \/ AcquireExclusive(p) \/ AcquireShared(p) \/ AuditRefuses(p)
             \/ Release(p) \/ Crash(p)
      PROVE  box' = box
  BY <1>5 DEF AcquireExclusive, AcquireShared, AuditRefuses, Release, Crash, store
<1>6. User \/ Tick => box' = box
  BY DEF User, UserCreate, UserDelete, Tick, store
<1> QED BY <1>1, <1>2, <1>3, <1>4, <1>5, <1>6 DEF Next, Work

\* A payload without an event, which a killed add leaves behind, stays in its
\* object directory: only the add that moved it takes it back, to where it was.
THEOREM OrphansAreLeft == Spec => OrphansStay
<1> DEFINE Left ==
      \A e \in Entry :
        box[e] \in Obj /\ hist[e] = << >> /\ box'[e] # box[e] =>
          \E p \in Proc : At(p, "undo") /\ job[p].entry = e
                           /\ file'[job[p].path] = box[e]
<1>1. ASSUME IInv, [Next]_vars PROVE [Left]_vars
  <2> SUFFICES ASSUME Next, NEW e \in Entry,
                      box[e] \in Obj, hist[e] = << >>, box'[e] # box[e]
               PROVE  \E p \in Proc : At(p, "undo") /\ job[p].entry = e
                                       /\ file'[job[p].path] = box[e]
    BY <1>1
  <2>1. /\ box \in [Entry -> Obj \cup {None, Empty}] /\ file \in [Path -> Obj \cup {None}]
        /\ box[e] # None /\ box[e] # Empty /\ Phase(e) = "none"
    BY <1>1 DEF IInv, TypeOK, Phase, PhaseOf
  <2>2. ASSUME NEW p \in Proc,
               \/ AddInspect(p) \/ AddRename(p) \/ AddRenameUnverified(p) \/ AddRmdir(p)
               \/ AddUnbox(p)
        PROVE  FALSE
    <3>1. Ready(p)
      BY <1>1, Context
    <3>2. CASE AddInspect(p)
      BY <2>1, <3>2 DEF AddInspect, FreshEntry
    <3>3. CASE AddRename(p) \/ AddRenameUnverified(p)
      <4>1. pc[p] = "rename" /\ box' = [box EXCEPT ![job[p].entry] = file[job[p].path]]
        BY <3>3 DEF AddRename, AddRenameUnverified, At
      <4>2. box[job[p].entry] = Empty
        BY <3>1, <4>1 DEF Ready
      <4> QED BY <2>1, <4>1, <4>2
    <3>4. CASE AddRmdir(p) \/ AddUnbox(p)
      BY <2>1, <3>4 DEF AddRmdir, AddUnbox, WithoutEmptyBox
    <3> QED BY <2>2, <3>2, <3>3, <3>4
  <2>3. ASSUME NEW p \in Proc,
               \/ RestorePlace(p) \/ RestoreStage(p) \/ RestoreStageUnverified(p)
               \/ RestoreUnstage(p) \/ RestorePutBack(p)
        PROVE  FALSE
    <3>1. /\ job[p].entry = e
          /\ pc[p] \in {"place", "stage", "unstage", "putback"}
      BY <2>1, <2>3 DEF RestorePlace, RestoreStage, RestoreStageUnverified,
                        RestoreUnstage, RestorePutBack, At
    <3>2. Phase(e) = "active" \/ hist[e] # << >>
      BY <1>1, <3>1, Context DEF Ready
    <3> QED BY <2>1, <3>2
  <2>4. ASSUME NEW p \in Proc, PurgeRemove(p) \/ PurgeReclaim(p)
        PROVE  FALSE
    <3>1. CASE PurgeRemove(p)
      <4>1. job[p].entry = e /\ pc[p] = "remove"
        BY <2>1, <3>1 DEF PurgeRemove, At
      <4> QED BY <1>1, <2>1, <4>1, Context DEF Ready
    <3>2. CASE PurgeReclaim(p)
      BY <2>1, <3>2 DEF PurgeReclaim, WithoutEmptyBox
    <3> QED BY <2>4, <3>1, <3>2
  <2>5. ASSUME NEW p \in Proc, AddUndo(p)
        PROVE  At(p, "undo") /\ job[p].entry = e /\ file'[job[p].path] = box[e]
    <3>1. job[p].entry = e /\ At(p, "undo")
      BY <2>1, <2>5 DEF AddUndo
    <3>2. job[p].path \in Path
      BY <1>1, <3>1, Context DEF Bound, Adding, At
    <3> QED BY <2>1, <2>5, <3>1, <3>2 DEF AddUndo
  <2> QED BY <2>2, <2>3, <2>4, <2>5, BoxChanges
<1>2. Spec => [][Left]_vars
  BY <1>1, IInvHolds, PTL DEF Spec
<1> QED BY <1>2 DEF OrphansStay

\* empty --confirm begins to purge only what its token stands for: the
\* comparison and the purge are under one lock.
THEOREM EmptyKeepsToItsToken == Spec => EmptyPurgesOnlyShown
<1> DEFINE Shown ==
      \A p \in Proc, e \in Entry :
        Intended(p, e) /\ job[p].op = "empty" => e \in job[p].token
<1>1. IInv => Shown
  BY Context DEF Ready, MayPurge, Intended, At
<1>2. Spec => [][Shown]_vars
  BY <1>1, IInvHolds, PTL DEF Spec
<1> QED BY <1>2 DEF EmptyPurgesOnlyShown

\* No purge begins on an entry that was trashed after it was invoked.
THEOREM LaterTrashIsSafe == Spec => LaterTrashSurvives
<1> DEFINE Earlier ==
      \A p \in Proc, e \in Entry : Intended(p, e) => stamp[e] <= job[p].asof
<1>1. IInv => Earlier
  BY Context DEF Ready, MayPurge, Intended, At
<1>2. Spec => [][Earlier]_vars
  BY <1>1, IInvHolds, PTL DEF Spec
<1> QED BY <1>2 DEF LaterTrashSurvives
==============================================================================
