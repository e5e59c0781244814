------------------------------ MODULE SafeDelete ------------------------------
(***************************************************************************)
(* The safe-delete store: processes that run add, restore, purge, empty    *)
(* and list against one storage root, the user who goes on changing the    *)
(* files outside it, and the failures the code handles.                    *)
(*                                                                         *)
(* A process is one invocation of the CLI.  It fixes its arguments (and,   *)
(* for a purge, its clock) before it waits for the flock of ledger_lock;   *)
(* under the lock it audits the store and then changes it step by step.    *)
(* Every step is one system call that another process or the user can      *)
(* observe: a rename, an unlink, an rmdir, an append to the ledger.        *)
(***************************************************************************)
EXTENDS LedgerOps, FiniteSets

CONSTANTS
  Proc,        \* invocations that can be in flight at the same time
  Path,        \* names outside the storage root
  Obj,         \* file-system objects, told apart by device and inode
  Dirs,        \* the objects that are non-empty directories
  Entry,       \* entry identifiers (UUIDs)
  None,        \* no object, entry, path or process
  Empty,       \* an object directory that holds no payload
  Commands,    \* the commands that are issued
  MaxClock,    \* bound of the clock
  MaxCrashes,  \* bound of the number of crashes
  MaxFaults,   \* bound of the number of failing system calls
  MaxEdits     \* bound of the number of changes by the user

Verbs == {"add", "restore", "purge", "empty", "preview", "list"}

ASSUME ConstantsAssumption ==
  /\ Dirs \subseteq Obj
  /\ Empty \notin Obj
  /\ None \notin Obj \cup Entry \cup Path \cup Proc \cup Verbs \cup {Empty}
  /\ Commands \subseteq Verbs
  /\ MaxClock \in Nat /\ MaxCrashes \in Nat /\ MaxFaults \in Nat /\ MaxEdits \in Nat

VARIABLES
  file,     \* file[x]: the object at path x, or None
  content,  \* content[o]: what has become of object o
  box,      \* box[e]: trash/objects/<e>: None, Empty or its payload
  staged,   \* staged[e]: the payload of e inside trash/staging, or None
  hist,     \* hist[e]: the events of e in ledger.jsonl
  torn,     \* ledger.jsonl holds a line that is not a whole record
  stamp,    \* stamp[e]: timestamp of e's trash record
  taken,    \* taken[e]: the object that e's trash record was built for
  lock,     \* the process that holds the lock exclusively, or None
  readers,  \* the processes that hold it shared
  pc,       \* pc[p]: where process p is
  job,      \* job[p]: arguments and local variables of p
  said,     \* said[e]: the last result a command arrived at for e
  clock,
  crashes, faults, edits   \* how much of each bound is used up

store   == <<box, staged, hist, torn, stamp, taken>>
world   == <<file, content>>
locks   == <<lock, readers>>
bounds  == <<clock, crashes, faults, edits>>
vars    == <<store, world, locks, pc, job, said, bounds>>

Contents == {"unborn", "whole", "part", "purged", "deleted"}
Reports  == {"nothing", "trashed", "untrashed", "restored", "unrestored", "purged"}
Times    == 0..MaxClock

Waiting   == {"idle", "wait"}
Reading   == {"read"}
Adding    == {"add", "move", "rename", "rmdir", "append", "undo", "unbox"}
Restoring == {"open", "place", "verify", "stage", "publish", "record",
              "recheck", "putback", "unstage"}
Purging   == {"purge", "intend", "remove", "reclaim", "abandon", "complete"}
Labels    == Waiting \cup Reading \cup Adding \cup Restoring \cup Purging
               \cup {"audit", "token", "done"}

Jobs ==
  [op     : Commands \cup {None},
   todo   : SUBSET Path,        \* add: the inputs still to process
   cand   : SUBSET Entry,       \* purge, empty: the candidates still to process
   token  : SUBSET Entry,       \* empty: the candidate set the token stands for
   entry  : Entry \cup {None},  \* the entry being worked on
   path   : Path \cup {None},   \* its source (add) or destination (restore)
   seen   : Obj \cup {None},    \* the object that was inspected (stat)
   asof   : Times,              \* purge, empty: RetentionPolicy.as_of
   cutoff : Times]              \* purge, empty: RetentionPolicy.cutoff

NoJob ==
  [op |-> None, todo |-> {}, cand |-> {}, token |-> {}, entry |-> None,
   path |-> None, seen |-> None, asof |-> 0, cutoff |-> 0]

Phase(e) == PhaseOf(hist[e])

\* Entries whose payload the ledger says is in the trash.
Expected(e) == Phase(e) \in {"active", "purge_pending"}

KindOf(o) == IF o \in Dirs THEN "directory" ELSE "file"

TypeOK ==
  /\ file \in [Path -> Obj \cup {None}]
  /\ content \in [Obj -> Contents]
  /\ box \in [Entry -> Obj \cup {None, Empty}]
  /\ staged \in [Entry -> Obj \cup {None}]
  /\ hist \in [Entry -> Seq(Operations)]
  /\ torn \in BOOLEAN
  /\ stamp \in [Entry -> Times]
  /\ taken \in [Entry -> Obj \cup {None}]
  /\ lock \in Proc \cup {None}
  /\ readers \subseteq Proc
  /\ pc \in [Proc -> Labels]
  /\ job \in [Proc -> Jobs]
  /\ said \in [Entry -> Reports]
  /\ clock \in Times
  /\ crashes \in 0..MaxCrashes
  /\ faults \in 0..MaxFaults
  /\ edits \in 0..MaxEdits

\* An initialised, empty store; any files.
Init ==
  /\ file \in [Path -> Obj \cup {None}]
  /\ \A x, y \in Path : file[x] = file[y] => x = y \/ file[x] = None
  /\ content = [o \in Obj |->
                  IF \E x \in Path : file[x] = o THEN "whole" ELSE "unborn"]
  /\ box = [e \in Entry |-> None]
  /\ staged = [e \in Entry |-> None]
  /\ hist = [e \in Entry |-> << >>]
  /\ torn = FALSE
  /\ stamp = [e \in Entry |-> 0]
  /\ taken = [e \in Entry |-> None]
  /\ lock = None
  /\ readers = {}
  /\ pc = [p \in Proc |-> "idle"]
  /\ job = [p \in Proc |-> NoJob]
  /\ said = [e \in Entry |-> "nothing"]
  /\ clock = 0
  /\ crashes = 0 /\ faults = 0 /\ edits = 0

-----------------------------------------------------------------------------
(***************************************************************************)
(* Helpers.                                                                *)
(***************************************************************************)

Goto(p, label) == pc' = [pc EXCEPT ![p] = label]
Store(p, j)    == job' = [job EXCEPT ![p] = j]
At(p, label)   == pc[p] = label

\* A system call fails: one more of MaxFaults is used.
Fault ==
  /\ faults < MaxFaults
  /\ faults' = faults + 1
  /\ UNCHANGED <<clock, crashes, edits>>

Say(e, report) == said' = [said EXCEPT ![e] = report]

\* append_event returns: the line is in the file and flushed.
Appended(e, op) ==
  /\ hist' = [hist EXCEPT ![e] = Append(@, op)]
  /\ UNCHANGED torn

\* append_event is cut short, by an error or by the end of the process:
\* before any byte, in the middle of the line, or after its last byte (the
\* flush, the check of the descriptor or the flush of the directory fails).
CutShort(e, op) ==
  \/ UNCHANGED <<hist, torn>>
  \/ torn' = TRUE /\ UNCHANGED hist
  \/ Appended(e, op)

\* The audit finds no error at all: every line is a valid record, every event
\* follows the state machine, and payloads and ledger agree in both directions.
EntryClean(e) ==
  /\ ValidHistory(hist[e])
  /\ Expected(e) <=> box[e] \in Obj
  /\ Expected(e) => KindOf(box[e]) = KindOf(taken[e])

AuditClean == ~torn /\ \A e \in Entry : EntryClean(e)

\* Mutation: the as_of guard is dropped.
Eligible_FutureDated(e, j) ==
  \/ Phase(e) = "purge_pending"
  \/ Phase(e) = "active" /\ stamp[e] <= j.cutoff

\* Mutation: there is no crash recovery.
Eligible_ActiveOnly(e, j) ==
  Phase(e) = "active" /\ stamp[e] <= j.asof /\ stamp[e] <= j.cutoff

\* evaluate_entry on a clean store: an entry that a purge began on is always a
\* candidate; an active one only if it is old enough and not future-dated.
Eligible(e, j) ==
  \/ Phase(e) = "purge_pending"
  \/ /\ Phase(e) = "active"
     /\ stamp[e] <= j.asof
     /\ stamp[e] <= j.cutoff

Candidates(j) == {e \in Entry : Eligible(e, j)}

-----------------------------------------------------------------------------
(***************************************************************************)
(* An invocation starts and takes the lock.                                *)
(***************************************************************************)

Begin(p, j) ==
  /\ j.op \in Commands
  /\ At(p, "idle")
  /\ Goto(p, "wait") /\ Store(p, j)
  /\ UNCHANGED <<store, world, locks, said, bounds>>

BeginAdd(p) ==
  \E inputs \in (SUBSET Path) \ {{}} :
    Begin(p, [NoJob EXCEPT !.op = "add", !.todo = inputs])

BeginRestore(p) ==
  \E e \in Entry, x \in Path :
    Begin(p, [NoJob EXCEPT !.op = "restore", !.entry = e, !.path = x])

\* The policy is resolved here: as_of is the clock before the lock is waited
\* for, the cutoff is any instant, also one in the future.
BeginPurge(p) ==
  \E cut \in Times :
    Begin(p, [NoJob EXCEPT !.op = "purge", !.asof = clock, !.cutoff = cut])

\* empty --confirm TOKEN: the token stands for the candidate set of the
\* preview that printed it.  Nothing stops a caller from giving another one.
BeginEmpty(p) ==
  \E cut \in Times, shown \in SUBSET Entry :
    Begin(p, [NoJob EXCEPT !.op = "empty", !.asof = clock, !.cutoff = cut,
                           !.token = shown])

\* empty without a token, purge without --execute.
BeginPreview(p) == Begin(p, [NoJob EXCEPT !.op = "preview"])

\* list, show, add --dry-run.
BeginList(p) == Begin(p, [NoJob EXCEPT !.op = "list"])

\* Mutation: an exclusive request does not wait for readers.
Free_Readers == lock = None

Free == lock = None /\ readers = {}

AcquireExclusive(p) ==
  /\ At(p, "wait") /\ job[p].op # "list"
  /\ Free
  /\ lock' = p
  /\ Goto(p, IF job[p].op = "empty" THEN "token" ELSE "audit")
  /\ UNCHANGED <<store, world, readers, job, said, bounds>>

AcquireShared(p) ==
  /\ At(p, "wait") /\ job[p].op = "list"
  /\ lock = None
  /\ readers' = readers \cup {p}
  /\ Goto(p, "read")
  /\ UNCHANGED <<store, world, lock, job, said, bounds>>

\* The process lets go of the lock, by leaving ledger_lock or by exiting.
Unlock(p) ==
  /\ lock' = (IF lock = p THEN None ELSE lock)
  /\ readers' = readers \ {p}
  /\ Goto(p, "idle") /\ Store(p, NoJob)

Release(p) ==
  /\ pc[p] \in {"done", "read"}
  /\ Unlock(p)
  /\ UNCHANGED <<store, world, said, bounds>>

(***************************************************************************)
(* What the audit under the lock decides.                                  *)
(***************************************************************************)

AuditRefuses(p) ==
  /\ pc[p] \in {"audit", "token"} /\ ~AuditClean
  /\ Goto(p, "done")
  /\ UNCHANGED <<store, world, locks, job, said, bounds>>

\* Mutation: a token for some of the candidates is accepted.
CheckToken_Part(p) ==
  /\ At(p, "token") /\ AuditClean
  /\ Goto(p, IF job[p].token \subseteq Candidates(job[p]) THEN "audit" ELSE "done")
  /\ UNCHANGED <<store, world, locks, job, said, bounds>>

\* run_empty compares the token and, still under the lock, runs the purge,
\* which audits again.
CheckToken(p) ==
  /\ At(p, "token") /\ AuditClean
  /\ Goto(p, IF Candidates(job[p]) = job[p].token THEN "audit" ELSE "done")
  /\ UNCHANGED <<store, world, locks, job, said, bounds>>

StartAdd(p) ==
  /\ At(p, "audit") /\ AuditClean /\ job[p].op = "add"
  /\ Goto(p, "add")
  /\ UNCHANGED <<store, world, locks, job, said, bounds>>

\* Mutation: any recorded entry can be restored.
StartRestore_AnyState(p) ==
  /\ At(p, "audit") /\ AuditClean /\ job[p].op = "restore"
  /\ Goto(p, IF Phase(job[p].entry) # "none" THEN "open" ELSE "done")
  /\ UNCHANGED <<store, world, locks, job, said, bounds>>

StartRestore(p) ==
  /\ At(p, "audit") /\ AuditClean /\ job[p].op = "restore"
  /\ Goto(p, IF Phase(job[p].entry) = "active" THEN "open" ELSE "done")
  /\ UNCHANGED <<store, world, locks, job, said, bounds>>

StartPurge(p) ==
  /\ At(p, "audit") /\ AuditClean /\ job[p].op \in {"purge", "empty"}
  /\ Goto(p, "purge")
  /\ Store(p, [job[p] EXCEPT !.cand = Candidates(job[p])])
  /\ UNCHANGED <<store, world, locks, said, bounds>>

EndPreview(p) ==
  /\ At(p, "audit") /\ AuditClean /\ job[p].op = "preview"
  /\ Goto(p, "done")
  /\ UNCHANGED <<store, world, locks, job, said, bounds>>

-----------------------------------------------------------------------------
(***************************************************************************)
(* add: for every input, inspect it, make an object directory for a fresh  *)
(* entry, move the object in and append the trash event.  An input that    *)
(* fails does not stop the ones after it.                                  *)
(***************************************************************************)

\* The next input: [p] works on nothing.
NextInput(p) == [job[p] EXCEPT !.entry = None, !.path = None, !.seen = None]

\* Mutation: a refused input is tried again.
AddRefuse_Retries(p) ==
  /\ At(p, "add") /\ job[p].todo # {}
  /\ UNCHANGED vars

\* The input is refused before anything is changed: it is absent, protected,
\* on another device, of an unsupported kind, or the directory is not made.
AddRefuse(p) ==
  /\ At(p, "add")
  /\ \E x \in job[p].todo : Store(p, [job[p] EXCEPT !.todo = @ \ {x}])
  /\ UNCHANGED <<store, world, locks, pc, said, bounds>>

\* Mutation: a directory that exists already is taken for a new one.
FreshEntry_ExistsOk(e) == hist[e] = << >>

\* create_entry_directory draws UUIDs until mkdir makes a new directory.
FreshEntry(e) == box[e] = None /\ hist[e] = << >>

AddInspect(p) ==
  /\ At(p, "add")
  /\ \E x \in job[p].todo, e \in Entry :
       /\ file[x] # None
       /\ FreshEntry(e)
       /\ box' = [box EXCEPT ![e] = Empty]
       /\ Store(p, [job[p] EXCEPT !.todo = @ \ {x}, !.entry = e,
                                  !.path = x, !.seen = file[x]])
  /\ Goto(p, "move")
  /\ UNCHANGED <<staged, hist, torn, stamp, taken, world, locks, said, bounds>>

AddFinish(p) ==
  /\ At(p, "add") /\ job[p].todo = {}
  /\ Goto(p, "done")
  /\ UNCHANGED <<store, world, locks, job, said, bounds>>

\* The checks of atomic_move before the rename.
AddCheck(p) ==
  /\ At(p, "move")
  /\ Goto(p, IF file[job[p].path] = job[p].seen THEN "rename" ELSE "rmdir")
  /\ UNCHANGED <<store, world, locks, job, said, bounds>>

\* The rename takes whatever is at the source now; what it took is compared
\* with what was inspected, and the record is built only if they agree.
AddRename(p) ==
  LET j == job[p] IN
  /\ At(p, "rename") /\ file[j.path] # None
  /\ box'  = [box EXCEPT ![j.entry] = file[j.path]]
  /\ file' = [file EXCEPT ![j.path] = None]
  /\ IF file[j.path] = j.seen
       THEN /\ stamp' = [stamp EXCEPT ![j.entry] = clock]
            /\ taken' = [taken EXCEPT ![j.entry] = j.seen]
            /\ Goto(p, "append")
       ELSE /\ UNCHANGED <<stamp, taken>>
            /\ Goto(p, "rmdir")
  /\ UNCHANGED <<staged, hist, torn, content, locks, job, said, bounds>>

\* The comparison after the rename fails: what was moved stays in the trash.
AddRenameUnverified(p) ==
  LET j == job[p] IN
  /\ At(p, "rename") /\ file[j.path] # None
  /\ Fault
  /\ box'  = [box EXCEPT ![j.entry] = file[j.path]]
  /\ file' = [file EXCEPT ![j.path] = None]
  /\ Goto(p, "rmdir")
  /\ UNCHANGED <<staged, hist, torn, stamp, taken, content, locks, job, said>>

\* The source is gone, or the rename fails.
AddRenameFails(p) ==
  /\ At(p, "rename")
  /\ IF file[job[p].path] = None THEN UNCHANGED bounds ELSE Fault
  /\ Goto(p, "rmdir")
  /\ UNCHANGED <<store, world, locks, job, said>>

\* The object directory of an input that was not moved is removed.  rmdir
\* fails on a directory that holds a payload.
WithoutEmptyBox(e) ==
  IF box[e] = Empty THEN [box EXCEPT ![e] = None] ELSE box

AddRmdir(p) ==
  /\ At(p, "rmdir")
  /\ box' = WithoutEmptyBox(job[p].entry)
  /\ Goto(p, "add") /\ Store(p, NextInput(p))
  /\ UNCHANGED <<staged, hist, torn, stamp, taken, world, locks, said, bounds>>

\* The object directory cannot be removed: an empty one is left behind.
AddRmdirFails(p) ==
  /\ pc[p] \in {"rmdir", "unbox"}
  /\ Fault
  /\ Goto(p, "add") /\ Store(p, NextInput(p))
  /\ UNCHANGED <<store, world, locks, said>>

AddAppend(p) ==
  LET e == job[p].entry IN
  /\ At(p, "append")
  /\ Appended(e, "trash")
  /\ Say(e, "trashed")
  /\ Goto(p, "add") /\ Store(p, NextInput(p))
  /\ UNCHANGED <<box, staged, stamp, taken, world, locks, bounds>>

AddAppendFails(p) ==
  /\ At(p, "append")
  /\ Fault
  /\ CutShort(job[p].entry, "trash")
  /\ Goto(p, "undo")
  /\ UNCHANGED <<box, staged, stamp, taken, world, locks, job, said>>

\* _rollback_trash_move: back to the source, never over another object.
AddUndo(p) ==
  LET j == job[p] IN
  /\ At(p, "undo") /\ file[j.path] = None
  /\ file' = [file EXCEPT ![j.path] = box[j.entry]]
  /\ box'  = [box EXCEPT ![j.entry] = Empty]
  /\ Goto(p, "unbox")
  /\ UNCHANGED <<staged, hist, torn, stamp, taken, content, locks, job, said,
                 bounds>>

\* rollback_failed: the payload stays in the trash.
AddUndoFails(p) ==
  /\ At(p, "undo")
  /\ IF file[job[p].path] # None THEN UNCHANGED bounds ELSE Fault
  /\ Goto(p, "add") /\ Store(p, NextInput(p))
  /\ UNCHANGED <<store, world, locks, said>>

AddUnbox(p) ==
  LET e == job[p].entry IN
  /\ At(p, "unbox")
  /\ box' = WithoutEmptyBox(e)
  /\ Say(e, "untrashed")
  /\ Goto(p, "add") /\ Store(p, NextInput(p))
  /\ UNCHANGED <<staged, hist, torn, stamp, taken, world, locks, bounds>>

Add(p) ==
  \/ StartAdd(p) \/ AddRefuse(p) \/ AddInspect(p) \/ AddFinish(p)
  \/ AddCheck(p) \/ AddRename(p) \/ AddRenameUnverified(p)
  \/ AddRenameFails(p) \/ AddRmdir(p) \/ AddRmdirFails(p)
  \/ AddAppend(p) \/ AddAppendFails(p)
  \/ AddUndo(p) \/ AddUndoFails(p) \/ AddUnbox(p)

-----------------------------------------------------------------------------
(***************************************************************************)
(* restore: move the payload to its destination and append the event.      *)
(* When parents of the destination are missing and may be created, the     *)
(* payload is first moved into a directory tree in trash/staging, and the  *)
(* tree is published by one rename.                                        *)
(***************************************************************************)

Bounce(p) ==
  /\ Goto(p, "done")
  /\ UNCHANGED <<store, world, locks, job, said, bounds>>

\* The parents exist: the payload will be moved straight to its destination.
RestoreOpen(p) ==
  /\ At(p, "open") /\ file[job[p].path] = None
  /\ Store(p, [job[p] EXCEPT !.seen = box[job[p].entry]])
  /\ Goto(p, "place")
  /\ UNCHANGED <<store, world, locks, said, bounds>>

\* Some parent is missing and a tree of directories was staged for it.
RestoreOpenStaged(p) ==
  /\ At(p, "open") /\ file[job[p].path] = None
  /\ Store(p, [job[p] EXCEPT !.seen = box[job[p].entry]])
  /\ Goto(p, "stage")
  /\ UNCHANGED <<store, world, locks, said, bounds>>

\* The destination exists, its parent is missing and may not be created, it
\* is protected or on another device; or the move into place is refused.
RestoreRefuse(p) == pc[p] \in {"open", "place", "stage"} /\ Bounce(p)

\* Mutation: a plain rename.
RestorePlace_Replaces(p) ==
  LET j == job[p] IN
  /\ At(p, "place")
  /\ file' = [file EXCEPT ![j.path] = box[j.entry]]
  /\ box'  = [box EXCEPT ![j.entry] = Empty]
  /\ Goto(p, "verify")
  /\ UNCHANGED <<staged, hist, torn, stamp, taken, content, locks, job, said,
                 bounds>>

\* The no-replace rename of atomic_move.
RestorePlace(p) ==
  LET j == job[p] IN
  /\ At(p, "place") /\ file[j.path] = None
  /\ file' = [file EXCEPT ![j.path] = box[j.entry]]
  /\ box'  = [box EXCEPT ![j.entry] = Empty]
  /\ Goto(p, "verify")
  /\ UNCHANGED <<staged, hist, torn, stamp, taken, content, locks, job, said,
                 bounds>>

\* What is at the destination after the move must be what was inspected.  If
\* it is not, the command fails and leaves things as they are.
RestoreVerify(p) ==
  LET j == job[p] IN
  /\ At(p, "verify")
  /\ Goto(p, IF file[j.path] = j.seen THEN "record" ELSE "done")
  /\ UNCHANGED <<store, world, locks, job, said, bounds>>

\* The comparison itself fails.
RestoreVerifyFails(p) ==
  /\ At(p, "verify")
  /\ Fault
  /\ Goto(p, "done")
  /\ UNCHANGED <<store, world, locks, job, said>>

RestoreStage(p) ==
  LET e == job[p].entry IN
  /\ At(p, "stage")
  /\ staged' = [staged EXCEPT ![e] = box[e]]
  /\ box'    = [box EXCEPT ![e] = Empty]
  /\ Goto(p, "publish")
  /\ UNCHANGED <<hist, torn, stamp, taken, world, locks, job, said, bounds>>

\* The comparison after the move into the staged tree fails: the payload is
\* left there, as its directories cannot be removed any more.
RestoreStageUnverified(p) ==
  LET e == job[p].entry IN
  /\ At(p, "stage")
  /\ Fault
  /\ staged' = [staged EXCEPT ![e] = box[e]]
  /\ box'    = [box EXCEPT ![e] = Empty]
  /\ Goto(p, "done")
  /\ UNCHANGED <<hist, torn, stamp, taken, world, locks, job, said>>

RestorePublish(p) ==
  LET j == job[p] IN
  /\ At(p, "publish") /\ file[j.path] = None
  /\ file'   = [file EXCEPT ![j.path] = staged[j.entry]]
  /\ staged' = [staged EXCEPT ![j.entry] = None]
  /\ Goto(p, "record")
  /\ UNCHANGED <<box, hist, torn, stamp, taken, content, locks, job, said,
                 bounds>>

\* Mutation: the event is appended although nothing was published.
RestorePublishFails_Records(p) ==
  /\ At(p, "publish")
  /\ Goto(p, "record")
  /\ UNCHANGED <<store, world, locks, job, said, bounds>>

\* The missing parent has appeared meanwhile, or the rename fails.
RestorePublishFails(p) ==
  /\ At(p, "publish")
  /\ Goto(p, "unstage")
  /\ UNCHANGED <<store, world, locks, job, said, bounds>>

\* _rollback_restore out of the staged tree.
RestoreUnstage(p) ==
  LET e == job[p].entry IN
  /\ At(p, "unstage")
  /\ box'    = [box EXCEPT ![e] = staged[e]]
  /\ staged' = [staged EXCEPT ![e] = None]
  /\ Say(e, "unrestored")
  /\ Goto(p, "done")
  /\ UNCHANGED <<hist, torn, stamp, taken, world, locks, job, bounds>>

RestoreRecord(p) ==
  LET e == job[p].entry IN
  /\ At(p, "record")
  /\ Appended(e, "restore")
  /\ Say(e, "restored")
  /\ Goto(p, "done")
  /\ UNCHANGED <<box, staged, stamp, taken, world, locks, job, bounds>>

RestoreRecordFails(p) ==
  /\ At(p, "record")
  /\ Fault
  /\ CutShort(job[p].entry, "restore")
  /\ Goto(p, "recheck")
  /\ UNCHANGED <<box, staged, stamp, taken, world, locks, job, said>>

\* _rollback_restore from the destination: the checks of atomic_move ...
RestoreRecheck(p) ==
  LET j == job[p] IN
  /\ At(p, "recheck")
  /\ Goto(p, IF file[j.path] = j.seen THEN "putback" ELSE "done")
  /\ UNCHANGED <<store, world, locks, job, said, bounds>>

\* ... its rename, which takes whatever is at the destination now, and the
\* comparison after it, which decides only what is reported.
RestorePutBack(p) ==
  LET j == job[p] IN
  /\ At(p, "putback") /\ file[j.path] # None
  /\ box'  = [box EXCEPT ![j.entry] = file[j.path]]
  /\ file' = [file EXCEPT ![j.path] = None]
  /\ IF file[j.path] = j.seen THEN Say(j.entry, "unrestored") ELSE UNCHANGED said
  /\ Goto(p, "done")
  /\ UNCHANGED <<staged, hist, torn, stamp, taken, content, locks, job, bounds>>

\* rollback_failed.
RestorePutBackFails(p) ==
  /\ pc[p] \in {"putback", "unstage"}
  /\ IF At(p, "putback") /\ file[job[p].path] = None
       THEN UNCHANGED bounds
       ELSE Fault
  /\ Goto(p, "done")
  /\ UNCHANGED <<store, world, locks, job, said>>

Restore(p) ==
  \/ StartRestore(p) \/ RestoreOpen(p) \/ RestoreOpenStaged(p)
  \/ RestoreRefuse(p) \/ RestorePlace(p) \/ RestoreVerify(p)
  \/ RestoreVerifyFails(p) \/ RestoreStage(p) \/ RestoreStageUnverified(p)
  \/ RestorePublish(p) \/ RestorePublishFails(p)
  \/ RestoreUnstage(p) \/ RestoreRecord(p) \/ RestoreRecordFails(p)
  \/ RestoreRecheck(p) \/ RestorePutBack(p) \/ RestorePutBackFails(p)

-----------------------------------------------------------------------------
(***************************************************************************)
(* purge --execute and empty --confirm: for every candidate, append the    *)
(* intent, remove the payload, remove its directory, append the outcome.   *)
(* An append that fails ends the loop; a removal that fails is recorded    *)
(* and the loop goes on.                                                   *)
(***************************************************************************)

\* Mutation: every candidate gets an intent.
PurgeNext_AlwaysIntends(p) ==
  /\ At(p, "purge")
  /\ \E e \in job[p].cand :
       /\ Store(p, [job[p] EXCEPT !.cand = @ \ {e}, !.entry = e])
       /\ Goto(p, "intend")
  /\ UNCHANGED <<store, world, locks, said, bounds>>

\* An entry that is already purge_pending has its intent.
PurgeNext(p) ==
  /\ At(p, "purge")
  /\ \E e \in job[p].cand :
       /\ Store(p, [job[p] EXCEPT !.cand = @ \ {e}, !.entry = e])
       /\ Goto(p, IF Phase(e) = "purge_pending" THEN "remove" ELSE "intend")
  /\ UNCHANGED <<store, world, locks, said, bounds>>

PurgeFinish(p) ==
  /\ At(p, "purge") /\ job[p].cand = {}
  /\ Goto(p, "done")
  /\ UNCHANGED <<store, world, locks, job, said, bounds>>

PurgeIntend(p) ==
  /\ At(p, "intend")
  /\ Appended(job[p].entry, "purge_intent")
  /\ Goto(p, "remove")
  /\ UNCHANGED <<box, staged, stamp, taken, world, locks, job, said, bounds>>

\* One child of a directory is removed and others are left.
PurgeRemovePart(p) ==
  LET o == box[job[p].entry] IN
  /\ At(p, "remove")
  /\ o \in Dirs /\ content[o] = "whole"
  /\ content' = [content EXCEPT ![o] = "part"]
  /\ UNCHANGED <<store, file, locks, pc, job, said, bounds>>

\* The last name of the payload is removed.
PurgeRemove(p) ==
  LET e == job[p].entry IN
  /\ At(p, "remove") /\ box[e] \in Obj
  /\ content' = [content EXCEPT ![box[e]] = "purged"]
  /\ box'     = [box EXCEPT ![e] = Empty]
  /\ Goto(p, "reclaim")
  /\ UNCHANGED <<staged, hist, torn, stamp, taken, file, locks, job, said, bounds>>

\* A name of the payload cannot be removed; the payload name is still there.
PurgeRemoveFails(p) ==
  /\ At(p, "remove")
  /\ Fault
  /\ Goto(p, "abandon")
  /\ UNCHANGED <<store, world, locks, job, said>>

PurgeReclaim(p) ==
  /\ At(p, "reclaim")
  /\ box' = WithoutEmptyBox(job[p].entry)
  /\ Goto(p, "complete")
  /\ UNCHANGED <<staged, hist, torn, stamp, taken, world, locks, job, said, bounds>>

\* Mutation: the directory that is left behind does not matter.
PurgeReclaimFails_Completes(p) ==
  /\ At(p, "reclaim")
  /\ Fault
  /\ Goto(p, "complete")
  /\ UNCHANGED <<store, world, locks, job, said>>

\* Mutation: any failure of remove_payload is recorded as purge_failed.
PurgeReclaimFails_Abandons(p) ==
  /\ At(p, "reclaim")
  /\ Fault
  /\ Goto(p, "abandon")
  /\ UNCHANGED <<store, world, locks, job, said>>

\* The object directory cannot be removed.  The payload is gone, so the
\* entry is reported as blocked and the loop ends.
PurgeReclaimFails(p) ==
  /\ At(p, "reclaim")
  /\ Fault
  /\ Goto(p, "done")
  /\ UNCHANGED <<store, world, locks, job, said>>

PurgeAbandon(p) ==
  /\ At(p, "abandon")
  /\ Appended(job[p].entry, "purge_failed")
  /\ Goto(p, "purge")
  /\ UNCHANGED <<box, staged, stamp, taken, world, locks, job, said, bounds>>

PurgeComplete(p) ==
  LET e == job[p].entry IN
  /\ At(p, "complete")
  /\ Appended(e, "purge_complete")
  /\ Say(e, "purged")
  /\ Goto(p, "purge")
  /\ UNCHANGED <<box, staged, stamp, taken, world, locks, job, bounds>>

\* Mutation: the loop goes on with the next candidate.
PurgeAppendFails_Continues(p) ==
  /\ \/ At(p, "intend")   /\ CutShort(job[p].entry, "purge_intent")
     \/ At(p, "abandon")  /\ CutShort(job[p].entry, "purge_failed")
     \/ At(p, "complete") /\ CutShort(job[p].entry, "purge_complete")
  /\ Fault
  /\ Goto(p, "purge")
  /\ UNCHANGED <<box, staged, stamp, taken, world, locks, job, said>>

\* Mutation: the removal does not wait for the intent to be durable.
PurgeAppendFails_Removes(p) ==
  /\ At(p, "intend")   /\ CutShort(job[p].entry, "purge_intent")
  /\ Fault
  /\ Goto(p, "remove")
  /\ UNCHANGED <<box, staged, stamp, taken, world, locks, job, said>>

\* Any of the three appends fails: the loop ends.
PurgeAppendFails(p) ==
  /\ \/ At(p, "intend")   /\ CutShort(job[p].entry, "purge_intent")
     \/ At(p, "abandon")  /\ CutShort(job[p].entry, "purge_failed")
     \/ At(p, "complete") /\ CutShort(job[p].entry, "purge_complete")
  /\ Fault
  /\ Goto(p, "done")
  /\ UNCHANGED <<box, staged, stamp, taken, world, locks, job, said>>

Purge(p) ==
  \/ CheckToken(p) \/ StartPurge(p) \/ EndPreview(p)
  \/ PurgeNext(p) \/ PurgeFinish(p) \/ PurgeIntend(p)
  \/ PurgeRemovePart(p) \/ PurgeRemove(p) \/ PurgeRemoveFails(p)
  \/ PurgeReclaim(p) \/ PurgeReclaimFails(p)
  \/ PurgeAbandon(p) \/ PurgeComplete(p) \/ PurgeAppendFails(p)

-----------------------------------------------------------------------------
(***************************************************************************)
(* Crashes, the user and the clock.                                        *)
(***************************************************************************)

\* The event that a process is about to append, if any.
Appending(p) ==
  CASE At(p, "append")   -> "trash"
    [] At(p, "record")   -> "restore"
    [] At(p, "intend")   -> "purge_intent"
    [] At(p, "abandon")  -> "purge_failed"
    [] At(p, "complete") -> "purge_complete"
    [] OTHER             -> "none"

\* The process is killed.  The kernel releases its lock; what it was writing
\* may have reached the file in part or in full.
Crash(p) ==
  /\ ~At(p, "idle")
  /\ crashes < MaxCrashes
  /\ crashes' = crashes + 1
  /\ IF Appending(p) = "none"
       THEN UNCHANGED <<hist, torn>>
       ELSE CutShort(job[p].entry, Appending(p))
  /\ Unlock(p)
  /\ UNCHANGED <<box, staged, stamp, taken, world, said, clock, faults, edits>>

Edit == edits < MaxEdits /\ edits' = edits + 1

UserCreate(x, o) ==
  /\ Edit
  /\ file[x] = None /\ content[o] = "unborn"
  /\ file' = [file EXCEPT ![x] = o]
  /\ content' = [content EXCEPT ![o] = "whole"]
  /\ UNCHANGED <<store, locks, pc, job, said, clock, crashes, faults>>

UserDelete(x) ==
  /\ Edit
  /\ file[x] # None
  /\ content' = [content EXCEPT ![file[x]] = "deleted"]
  /\ file' = [file EXCEPT ![x] = None]
  /\ UNCHANGED <<store, locks, pc, job, said, clock, crashes, faults>>

Tick ==
  /\ clock < MaxClock
  /\ clock' = clock + 1
  /\ UNCHANGED <<store, world, locks, pc, job, said, crashes, faults, edits>>

BeginCommand(p) ==
  \/ BeginAdd(p) \/ BeginRestore(p) \/ BeginPurge(p)
  \/ BeginEmpty(p) \/ BeginPreview(p) \/ BeginList(p)

\* What a process does by itself once it has been started.
Work(p) ==
  \/ AcquireExclusive(p) \/ AcquireShared(p) \/ AuditRefuses(p)
  \/ Add(p) \/ Restore(p) \/ Purge(p) \/ Release(p)

User == \E x \in Path : UserDelete(x) \/ \E o \in Obj : UserCreate(x, o)

Next ==
  \/ \E p \in Proc : BeginCommand(p) \/ Work(p) \/ Crash(p)
  \/ User
  \/ Tick

Spec == Init /\ [][Next]_vars

\* A command that was started runs to its end: it waits for nothing but the
\* lock and retries nothing.
FairSpec == Spec /\ \A p \in Proc : WF_vars(Work(p))

-----------------------------------------------------------------------------
(***************************************************************************)
(* Properties.                                                             *)
(***************************************************************************)

Alive(o) == content[o] \in {"whole", "part"}

\* Nothing is lost, duplicated or overwritten: an object that exists is in
\* exactly one place, outside the store, in an object directory or in the
\* staging area, and a destroyed one is nowhere.
Conserved ==
  \A o \in Obj :
    Cardinality({x \in Path : file[x] = o}) + Cardinality({e \in Entry : box[e] = o})
      + Cardinality({e \in Entry : staged[e] = o}) = IF Alive(o) THEN 1 ELSE 0

\* remove_payload never removes anything of an object unless a purge intent
\* for the entry that holds it is on the ledger and not yet resolved.
DestroyAuthorised ==
  [][\A o \in Obj :
       content[o] # content'[o] /\ content'[o] \in {"part", "purged"} =>
         \E e \in Entry : box[e] = o /\ Phase(e) = "purge_pending"]_vars

\* Whatever fails, and wherever a process is killed, the events of every
\* entry stay a history that replay accepts: the program never writes an
\* impossible transition.
HistoriesValid == \A e \in Entry : ValidHistory(hist[e])

\* A payload without a trash event (an orphan) is never purged or restored:
\* it stays where it is unless the add that moved it takes it back.
OrphansStay ==
  [][\A e \in Entry :
       box[e] \in Obj /\ hist[e] = << >> /\ box'[e] # box[e] =>
         \E p \in Proc : At(p, "undo") /\ job[p].entry = e
                          /\ file'[job[p].path] = box[e]]_vars

\* When nobody is at work, a payload left in trash/staging by a restore that
\* was cut short shows up as an audit error, although the audit never looks
\* into that directory.
StrandedIsVisible ==
  lock = None => \A e \in Entry : staged[e] # None => ~EntryClean(e)

\* What a command reported as done is so, and stays so.
ReportsAreTrue ==
  \A e \in Entry :
    /\ said[e] = "trashed"  => Phase(e) # "none"
    /\ said[e] = "restored" => Phase(e) = "restored" /\ box[e] = Empty
    /\ said[e] = "purged"   => Phase(e) = "purged" /\ box[e] = None

\* Concurrency alone never damages the store, and nobody looks at it halfway:
\* as long as nothing crashed, failed, or changed the user's files, the store
\* is clean whenever no command has it to itself, so every audit by a reader
\* or by the next command is clean.
CleanUnlessDisturbed ==
  /\ crashes = 0 /\ faults = 0 /\ edits = 0
  /\ lock = None \/ readers # {}
  => AuditClean

\* The purge loop never goes on past damage: whenever it turns to the next
\* candidate, a full audit would be clean, also after failed removals.
PurgeStopsAtDamage == \A p \in Proc : At(p, "purge") => AuditClean

Intended(p, e) ==
  At(p, "intend") /\ job[p].entry = e /\ hist'[e] # hist[e]

\* empty --confirm only ever begins to purge entries its token stands for,
\* whatever was added or restored since the preview.
EmptyPurgesOnlyShown ==
  [][\A p \in Proc, e \in Entry :
       Intended(p, e) /\ job[p].op = "empty" => e \in job[p].token]_vars

\* No purge begins on an entry that was trashed after the purge was invoked,
\* however long it waited for the lock and whatever its cutoff.
LaterTrashSurvives ==
  [][\A p \in Proc, e \in Entry : Intended(p, e) => stamp[e] <= job[p].asof]_vars

\* A purge whose loop runs to its end leaves no purge unresolved, also those
\* that earlier processes began, and whatever its cutoff.
PurgeResolvesAll ==
  [][\A p \in Proc : PurgeFinish(p) =>
       \A e \in Entry : Phase(e) # "purge_pending"]_vars

\* The protocol of ledger and payload is the abstract one.
Abstract == INSTANCE Lifecycle
  WITH phase <- [e \in Entry |-> Phase(e)], held <- {e \in Entry : box[e] \in Obj}
ImplementsLifecycle == Abstract!Spec

\* Whoever holds the lock gives it back.
LockIsReleased == \A p \in Proc : lock = p ~> lock # p

==============================================================================
