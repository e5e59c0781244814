# A verification development for safe-delete

safe-delete is a command-line program that moves files into a trash instead of
deleting them, keeps an append-only ledger of what it did, and restores or
purges entries later. This directory models the part of it where things can go
wrong in ways a test hardly reaches: several commands and the user acting on the
same files, system calls that fail halfway, processes that are killed, and a
ledger that is damaged.

It also models the two places where several processes share files without a
lock: the initialisation of the store, and the hooks that redirect `rm` to the
program.

Source paths are relative to the repository (`safe_delete/...`, `docs/...`);
`PROJECT.json` names the source lines of every definition.

## 1. The system

### Components

| component | state it keeps | operations | what makes it correct |
|---|---|---|---|
| layout (`storage.py`) | the directories of the root, `ledger.jsonl`, `ledger.lock` | `initialize_layout`, `require_layout` | success means a whole layout, and no init makes another one fail |
| lock (`storage.py`) | `ledger.lock` | `ledger_lock` (flock, shared or exclusive) | one writer at a time, no reader beside it, the lock is given back |
| ledger file (`ledger.py`) | `ledger.jsonl` | `append_event`, `read_ledger_lines`, the builders of records | an acknowledged event is read back whatever was cut short around it |
| audit (`audit.py`) | none | `audit_layout` | an error is reported exactly if something is wrong; damage stays local; no payload is invisible |
| atomic move (`move.py`) | none; renames | `atomic_move`, `rename_without_replace` and its v9fs fallback | nothing is overwritten, and what was moved is what was inspected |
| add (`cli.py`) | `trash/objects/<id>/payload`, the ledger | `_handle_add`, `_rollback_trash_move` | payload and event agree; what could not be recorded goes back |
| restore (`restore.py`) | the same, `trash/staging`, the parents it creates | `restore_entry`, `_stage_missing_chain`, `_rollback_restore`, `_remove_created_parents` | no destination is replaced; a failure leaves the payload in the trash or is visible; the created parents vanish again, and nothing of the user's with them |
| purge, empty (`purge.py`) | the same | `_run_locked`, `remove_payload`, `run_empty` | nothing is destroyed without a durable intent; interrupted purges are resolved; a token authorises what it shows |
| retention (`retention.py`) | none | policy resolution, `evaluate_entry` | nothing younger than the policy is purged |
| list, show (`cli.py`) | none | read under the shared lock | they never see the store halfway |
| hook management (`hook.py`) | the registry, the adapter and the shims, configuration files of hosts | install, disable, uninstall, status | what is reported as done is done, what failed is undone, what belongs to others is kept |
| hook call (`hook.py`) | none | `decide_request`, `execute_request` | what is moved to the trash is what the command would have deleted; an integration that is off deletes nothing, one that stays on is served |
| metadata, errors, output, doctor, parser | none | validation, formatting, reports | tables and formats |

### How they interact

Every command is one process. It parses its arguments (and, for a purge,
resolves its clock), waits for the flock without a limit, audits the whole store
under the lock, and refuses to change anything if the audit reports any error at
all. Only then does it move, remove and append. Nothing is kept in memory
between commands: the ledger, the object directories and the staging directory
are all the state there is, and the next audit is the only recovery. The lock
excludes other safe-delete processes, but not the user, who may create, replace
or delete files outside the store between any two system calls.

The initialisation of a store takes no lock (the lock file is one of the things
it makes), and neither do the management of the hooks and the hook calls. A
management command reads the registry and the configuration of a host, keeps a
snapshot of every file in memory, and replaces the files one by one; a hook call,
started by a shell or by a host for every command line, reads the same files one
after the other and then starts `safe-delete add` as a child.

### What is hard

* **Races with the user.** Inspection (`lstat`), rename and the comparison after
  it are separate system calls.
* **Partial failure.** A rename succeeds and the append after it fails, or the
  append is in the file and only its flush failed, and the rollback fails too.
* **Kills.** Between any two system calls, or in the middle of a line.
* **Order.** The payload goes before the event in add and restore, the event
  before the payload in purge.
* **Stale decisions.** The clock of a purge and the token of an `empty` are older
  than the lock; a hook call has read the registry before the payload.
* **Unlocked files.** Two inits look for a name and make it; two installs read,
  change and write one registry, and roll back what the other has read.
* **Moving ground.** The directories that a restore has created are visible as
  soon as they are published, and the user may fill, move or replace them before
  the restore removes them again.
* **Damage.** The audit must say exactly what is wrong, about one entry and not
  about others, whatever the lines of the ledger are.

`PROJECT.json` lists these as hazards, each with its line and its properties.

## 2. The modules

| module | models | variables | actions |
|---|---|---|---|
| `LedgerOps` | the five operations, the state each record carries, the transitions replay accepts | | |
| `Lifecycle` | abstract: what the ledger and the payload of an entry may do, whoever acts and whatever fails | `phase`, `held` | `Take`, `Trash`, `Release`, `Restore`, `Return`, `Intend`, `Destroy`, `Abandon`, `Complete` |
| `SafeDelete` | the store: processes, lock, user, kills, failing system calls | see below | one per system call |
| `LedgerFile` | the bytes of `ledger.jsonl` | `bytes`, `texts`, `todo`, `phase`, `acked` | `Open`, `Write`, `Flush`, `CutShort` |
| `Audit` | `audit_layout` as a function of arbitrary lines and object directories | `log`, `box` | `Write` (it enumerates the ledgers) |
| `RestoreParents` | one restore below missing directories, its rollback, and a user in the same directories | the place of every object, `pc`, the chain of created parents | one per system call; the user creates, moves and deletes |
| `StorageInit` | `initialize_layout` by several processes, with kills and power failures | what is at each name and what is on the disk, `pc`, `at`, `made` | `Start`, `Look`, `Make`, `Flush`, `Finish`, `Fail`, `Kill`; `Use`, `Foreign`, `PowerLoss` |
| `HookRegistry` | install, disable and uninstall of the hooks | `disk`, and the locals of each command | one per read or write of a file |
| `HookDecision` | the decision on a command line, and a hook call among the commands of `HookRegistry`, which it extends | `call` | one per look at a file |
| `LedgerFileProofs`, `AuditProofs`, `SafeDeleteProofs`, `RestoreParentsProofs`, `StorageInitProofs`, `HookRegistryProofs` | theorems of the modules they are named for | | |
| `PayloadProofs` | theorems of `SafeDelete` on where the payloads are, and the refinement of `Lifecycle`; extends `SafeDeleteProofs` | | |
| `HookDecisionProofs` | theorems of `HookDecision`; extends `HookRegistryProofs` | | |
| `MC...` | instances for TLC | | |

`SafeDelete` is the core. It composes lock, add, restore, purge, empty and the
readers, and refines `Lifecycle`; `LedgerOps` gives `SafeDelete` and `Audit` the
same ledger. `LedgerFile` justifies the level above it: `SafeDelete` takes an
append as "not there", "a torn line" or "there", and `LedgerFile` shows that the
bytes give nothing else. `RestoreParents` opens what `SafeDelete` takes as one
place, `staged`: the chain of directories in which a payload is published.
`StorageInit` is what comes before `SafeDelete`: its last state is the `Init` of
the others. The hooks do not touch the store; they start the program.

### SafeDelete and the code

| variable | in the code |
|---|---|
| `file`, `content` | the user's files, by path; objects are inodes, so a replacement at a path is another object. `"part"` is a directory some of whose contents were removed |
| `box[e]` | `trash/objects/<e>`: absent (`None`), an empty directory (`Empty`), or its payload |
| `staged[e]` | the payload inside `trash/staging/<...>` |
| `hist[e]`, `torn` | the events of `e` in `ledger.jsonl`; some line is not a whole record |
| `stamp[e]`, `taken[e]` | timestamp and recorded identity of `e`'s trash event |
| `lock`, `readers` | the flock of `ledger.lock` |
| `pc[p]`, `job[p]` | the next system call of process `p`, and its local variables |
| `said[e]` | the last result a command arrived at for `e` |

The path of each command through `pc` follows the code:

* **add**, `_handle_add`: `add` (take an input; `AddRefuse` covers every refusal
  before the object directory exists, `AddInspect` makes it) → `move` (the checks
  of `atomic_move`) → `rename` → `append` → next input. A failed append goes to
  `undo` (`_rollback_trash_move`) and `unbox`; a failed move to `rmdir`.
* **restore**, `restore_entry`: `open` → `place` → `verify` → `record`, or `open` →
  `stage` → `publish` → `record` when parents of the destination are missing. A
  failed append goes to `recheck` → `putback` (`_rollback_restore`), a failed
  publication to `unstage`.
* **purge**, `_run_locked`: `purge` (next candidate) → `intend` → `remove` →
  `reclaim` → `complete`; a failed removal goes to `abandon`, a failed append or
  a directory that cannot be removed ends the loop.
* **empty**: `token` (audit, compare the token) and then as purge.
* **list**, `show`, dry runs: `read` under the shared lock. A preview of a purge
  takes the exclusive lock, as the code does.

Abstractions: an input is its path; metadata, reasons and formats are left out;
the identity that `lstat` gives (device, inode, type) is the object itself; the
several reasons for refusing before anything changed are one action; a
comparison after a rename can fail by itself (`...Unverified`). `AddInspect`
merges inspection and the creation of the object directory: the user cannot see
the directory, and a replacement between the two is the same as one just after.
The device of a path never changes.

### LedgerFile and the code

`append_event` opens the file, reads its last byte, and writes separator and
record in a loop around `os.write`, which takes any number of bytes. `Open` fixes
what is to be written, `Write(n)` is one `os.write`, `Flush` the `fsync` and the
checks after it, `CutShort` any exception or kill. A byte remembers which append
wrote it and what the reader makes of it. Three texts are told apart: ASCII, a
character of two bytes, and a character that `str.splitlines` takes for the end
of a line. `Read` is `read_ledger_lines`.

### Audit and the code

`ReadLine` and `ReplayRecord` are the bodies of the loops of `_read_records` and
`_replay`, `BoxErrors` and `MissingErrors` those of the two loops of
`_reconcile_objects` (together `ObjectErrors`), and `AuditLayout` chains them as `audit_layout` does, with
tainted entries dropped after replay and again after reconciliation. The
properties compare `Report` with `Coherent`, `Agrees` and `Sound`, which are
defined on the whole ledger without passes, taints or accumulators.

### RestoreParents and the code

The file system is one function: the place, a name in a directory, of every
object. A descriptor that the code holds is the directory itself, so what is done
through it follows the directory wherever the user renames it. The labels of `pc`
follow `restore_entry`: `open` (`_open_restore_parent`) → `stage`
(`_stage_missing_chain`, one component a step) → `check` → `move` → `verify`
(`atomic_move`) → `publish` → `append`; after a failed publication or append
`recheck` → `return` (`_rollback_restore`), and then `_remove_created_parents`, from
the deepest: `remove` → `inspect` → `putback`. `Rename` is
`rename_without_replace`; on v9fs it is a look and a rename that replaces.

Abstractions: the walk to the first missing directory is one step, and so are the
comparisons before the move; the reasons for which a check may refuse are one
choice. The user works only below two visible directories and never below the
store. The lock is not there, since no other command can see the staging area.
No fairness is stated: what a restore does in the end is the question of
`SafeDelete`.

### StorageInit and the code

`Order` is the order in which `initialize_layout` makes its names, `at` the place of
a process in it; a name is looked at (`lstat`) and made (`mkdir`, `O_EXCL`) in two
steps, as in `_ensure_directory` and `_ensure_regular_file`. `made` is
`created_dirs`, `ledger_created` and `lock_created` together, and `Flushes` lists the
calls of `_sync_directory` with what makes each of them necessary. `above` stands for
all the directories that `os.makedirs` may have to make above the root. A power
failure takes any set of names that are not flushed, with all that is below them.
A root that is a symbolic link, and the modes of the files, are left out.

### HookRegistry, HookDecision and the code

`disk` maps a path to its content: the two files that are JSON objects are
functions and records, of a configuration of which only our own keys and a
version of the user's part are told apart. `pc` follows `hook_install`,
`hook_disable` and `hook_uninstall`: `registry?` → (`artifacts?` or `owned?`) →
`config?` → `snapshot` → the writes in the order of the verb (`After`) → `status`;
an exception inside goes to `rollback`, which visits the snapshots as
`_FileTransaction.rollback` does. `touched` is history: what others have changed
under a command. Package files are Old or New, so an install over another
version has something to replace.

Abstractions: the snapshots are read in one step; the check that a file is ours
and its replacement or removal are one step; the package files are visited in
any order. Left out are the CLI path in the registry with its identity, a
registry that is not valid JSON, and files that cannot be written at all: they
refuse before anything is read or changed. A write fails before its rename or
after it.

A hook call goes `registry?` → `hosts?` or `shims?` → `cli?` → `child`
(`execute_request`); a call that is not a deletion skips the looks. `Classify` is
`_classify_argv`, `Scanned` what its loop knows after each token. The fields of request and response are
left out, and so is the subprocess that `_integration_is_registered` tries the
payload with. `status` changes nothing, and its "enforced" is the operator `Enforced`;
`setup` is an init followed by an install.

## 3. What is checked

Bounds are the constants in the cfg files. Deadlock is checked in the runs of
`SafeDelete`. In the others everything that may be done is used up at the end:
appends, lines, inits, management commands, or the one restore.

| run | instance | what it shows |
|---|---|---|
| `races` | 2 processes, 2 paths, 2 objects (a directory, a file), 2 entries, all commands but empty, 2 changes by the user | `TypeOK`; `Conserved`: an object is in exactly one place, never overwritten or duplicated; `CleanUnlessDisturbed`: readers and later audits never see a store halfway |
| `failures` | 1 process at a time, 2 entries, 1 kill, 2 failing system calls, 1 change by the user | `HistoriesValid`, `StrandedIsVisible`, `ReportsAreTrue`, `PurgeStopsAtDamage`, `OrphansStay`, `DestroyAuthorised`, `PurgeResolvesAll`, and the refinement `ImplementsLifecycle` |
| `retention` | 2 processes, add, purge and empty, 2 clock values, 1 kill | `EmptyPurgesOnlyShown`, `LaterTrashSurvives`: a purge that waited for the lock touches nothing its caller could not know of |
| `progress` | 2 processes, 1 path, 1 failing call, weak fairness | `LockIsReleased` |
| `appends` | 4 appends, 3 kinds of text, cut at any byte | `NeverGlued`, `NoBlankLine`, `ProperAreRead` |
| `audit` | 2 entries, 3 events, 2 kinds, every ledger of 3 lines, every object directory | `ErrorsAreExact`, `ListedIsTrue`, `SoundIsListed`, `PayloadsAreAccounted`, `LinesAreLocal` |
| `restore_parents` | up to 2 missing directories, with and without v9fs; the user has a file, a directory and 4 moves; 2 failing calls, 1 kill | `NothingIsReplaced`, `NoBareParent`, `CleanMeansClean`, `CaptureIsReported` |
| `storage_init` | 2 processes, 3 inits, 1 failing call or kill, 1 foreign object, 1 power failure, 1 record | `SuccessIsWhole`, `FailsForAReason`, `VouchedSurvives` |
| `hooks` | 2 processes, 2 commands, 2 hosts and the shims, 1 kill and 1 failing call, or 1 edit | `OkIsTrue`, `FailedIsUndone`, `OthersAreKept`, `AdapterOutlivesRegistration` |
| `hook_calls` | 1 process with 2 commands, 1 call, 1 kill or failure or edit; all command lines of 4 tokens | `ClassifyIsGetopt`, `OffMeansDenied`, `SteadyIsServed` |
| `line_break`, `hook_undo` | expect a violation | section 4 |

Why the bounds are enough to be interesting. Two objects and two paths let a
replacement happen at every window; one of the objects is a directory, so a
partial removal exists. Two entries let a batch fail in the middle and one entry
be damaged while another is worked on. Two failures let a rollback fail after the
failure it reacts to; the kill can hit the recovery of either. Kills and failures
do not need a second process: the lock excludes it, and a command that starts
after a failure meets the same store in every order; `races` covers two
processes. Two clock values separate "before the invocation" from "after it".
Four appends give a fragment on both sides of a whole record and one more in
front; three lines give trash, intent and outcome, or two events and a
duplicate or rejected one between them. Two missing directories are the least
chain whose deeper part is removed first and whose upper part the user can fill
meanwhile; four moves let a user create something in each of the windows of one
cleanup, or move a created parent away, make another one in its place and fill
it; two failures are the one that starts a rollback and one inside it. Three
inits are two that race and one that comes after a kill or a power failure. Two
hosts share the adapter, and their configurations may be one file or two; two
commands are every pair of verbs, at once or in sequence, and the sequence of an
upset command and its repetition. An edit of the user excludes
kills and failing calls in the same run, and hits a file that the only running
command uses: for the commands an edit at any other time is the same as one just
after the start of the next. In `hook_calls`, where it is not the same for the
call, it hits any file at any time. Four tokens are an option, a
delimiter, an operand and one more of either. Symmetry is used for processes and
entries, which no definition tells apart; `progress`, which checks liveness,
uses none.

A property of a step that fails in two ways, such as `AdapterOutlivesRegistration`,
excludes the double failure that no rollback in memory can survive.

Each property has a mutant: a plausible bug in a mapped definition (a dropped
guard, a missing separator, a loop that goes on) that makes TLC report the
property violated under the same cfg.

**Fairness.** `FairSpec` asks for `WF_vars(Work(p))` of every process. `Work(p)` is
what a started process does by itself: it waits for nothing but the flock, and
every loop of the code consumes a finite set (inputs, candidates). Nothing is
assumed of the user, of crashes, or of commands being started. The run shows that
whoever holds the lock gives it back. That a *waiter* gets it is not claimed:
flock promises no order.

## 4. Where the code differs from its documents

Two runs expect a violation, each of one statement of the repository.

| run | statement | what the code does |
|---|---|---|
| `line_break` | freeze.md: events are newline-delimited | `str.splitlines` also ends lines at U+0085, U+2028 and U+2029, which `json.dumps(..., ensure_ascii=False)` leaves as they are: one file with such a name makes the ledger malformed, and all commands refuse |
| `hook_undo` | `_FileTransaction`: every management file is restored if an operation on several fails | an uninstall removes the package files before it writes the registry; if that write fails, the rollback takes the missing files for replaced ones and does not write them back (`hook.py:903`) |

The following were seen while modelling. They are part of the models, and the
properties are stated around them.

* *The store.* The line of an event is written and its flush fails: the move is
  undone, the event stays, and every later audit reports `payload_missing`
  (`ledger.py:366`; `freeze.md:415`: active after move and durable append).
  `_remove_tree_at` fails after some children are gone, and the entry is active
  again with the rest (`purge.py:129`; `freeze.md:377`: "while retaining the
  payload"). `_rollback_restore` renames whatever is at the destination, so a
  replacement after its check lands at the payload of an active entry
  (`restore.py:617`; `move.py:282`). The payload of an entry that was dropped for
  another bad line is reported as an orphan (`audit.py:609`; `freeze.md:286`). The
  warning of a purge without bounds says every active entry is eligible, while
  future-dated ones are not (`purge.py:412`, `retention.py:373`). An append cut in
  the middle of a character makes the whole file undecodable (`ledger.py:303`).
  An object that is not a directory is reported, but a restored or purged entry
  of that name is still listed (`audit.py:564`).
* *The parents of a restore.* A file with which the user has replaced a created
  parent is reclaimed into staging and stays there (this is reported), although
  `_reclaim_published_parent` promises that a replacement "is put back untouched":
  only directories are (`restore.py:178`). A payload whose move into a
  staged chain could not be verified stays in staging with the chain, and the
  error speaks of the move only.
* *Initialisation.* What `os.makedirs` makes above the root, and the names of an init
  that was killed, are flushed by nobody, although "newly-created layout names" are
  to be durable before an init says it succeeded (`storage.py:303`).
* *The hooks.* All hosts share one adapter, so the uninstall of one takes it from
  the others, which stay registered (`hook.py:1657`). Nothing is locked: of two
  commands at once one writes back the registry it has read and drops or revives
  the entry of the other, a disabled one among them. A rollback writes over what
  the user has put in the place of a file meanwhile, although `freeze.md:738` ff.
  leaves what is not ours alone. An uninstall that was killed after it had removed
  package files cannot be repeated, since ownership cannot be proven; only an
  install helps. `disable` of a host that was never installed refuses if the
  adapter of another host is there. `_registered_cli_path` also takes the entry of
  a disabled integration.

## 5. What is proved

The theorems hold for every value of the constants that satisfies
the assumption of its module (the model values are told apart, the bounds are
natural numbers): any number of processes, paths, entries, kills, failures,
changes, appends and created parents. Every proof is checked by TLAPS to the last leaf.

**`SafeDeleteProofs`.** None of the properties is inductive: that a purge intent
may be appended follows from what the audit saw several steps before, and holds
only because nobody else wrote in between. The inductive invariant `IInv` says
just that, in four parts:

* `TypeOK`;
* `Locked`: a process past the lock (`Holds`) is the one `lock` names;
* `Bound(p)` and `Ready(p)`: what `p` knows at each label of the entry it works on
  and of the candidates it has not come to. An add's entry has no events until its
  append; a restore's is active until `record`; a purge's is `purge_pending` from
  `remove` to its outcome; every candidate is still active or pending, is old
  enough for `asof`, and is in the token;
* `HistoriesValid`.

The proof has one lemma per action. Three of them carry the argument:
`OwnStepIInv` (a step of the lock's holder leaves everyone else's knowledge
alone, since everyone else is waiting or reading), `CalmStepIInv` (the same for a
step that changes neither ledger nor object directories), and the lemmas on the
ledger (`AppendIsValid`, `PhaseOfHistory`), which say that the state `p` knows is
the state in which its event may follow.

| theorem | what it says |
|---|---|
| `TypeCorrect` | only objects are moved into paths, object directories and staging |
| `HistoriesStayValid` | no command, however it fails or dies, appends an event replay rejects |
| `DestroyIsAuthorised` | a payload is removed or damaged only under an unresolved intent |
| `OrphansAreLeft` | a payload without events is moved only by the add that put it there |
| `EmptyKeepsToItsToken` | `empty` begins only on what its token stands for |
| `LaterTrashIsSafe` | a purge begins on nothing that was trashed after its invocation |

**`PayloadProofs`.** `IInv` says what a process knows of the ledger. These theorems
also need what it knows of the payload, so `PInv` adds, at each label, which of the
object directory and the staging area holds the payload of the entry worked on
(`Placed`), the state of its lines in the labels that follow a failure (`Told`), and
that a purge at work leaves neither damage nor unfinished purges behind but in the
candidates it has still to come to (`Sweeping`). About every entry it says that a
payload in staging is missed by the audit (`Stranded`) and that what was last said
of it still holds (`Reported`). `StrandedFailsTheAudit`, `ReportsStayTrue` and
`PurgeNeverPassesDamage` are parts of it, and `PurgeFinishesAll` is a step from it.

In the refinement `Lifecycle` sees the phase and whether the payload is held in
one of the two places. Each action is a lemma: `AppendsRefine`, for instance, that
an append is the abstract step its operation stands for, since `Placed` says where
the payload is and `Ready` in which state the entry is. `NothingIsLost` counts: `CInv`
says that no two places hold the same object and that an object exists exactly if it
is somewhere, so that the sum over paths, object directories and staging, which
`Conserved` states, is one. `CleanBetweenCommands` needs what is clean while a command is at work,
that is everything but the entry it works on, under the condition that nothing was
disturbed (`UInv`).

| theorem | what it says |
|---|---|
| `StoreImplementsLifecycle` | ledger and payloads change in the abstract order, whoever is interrupted where |
| `NothingIsLost` | an object is in exactly one place as long as it exists |
| `ReportsStayTrue` | what was reported as trashed, restored or purged is so |
| `StrandedFailsTheAudit` | a payload in staging makes the audit fail for its entry |
| `PurgeNeverPassesDamage` | a purge goes on to another candidate only in a clean store |
| `PurgeFinishesAll` | a purge that ends has resolved all unfinished purges |
| `CleanBetweenCommands` | without failures, interleaving leaves the store clean for whoever comes next |

**`LedgerFileProofs`.** The properties speak of the bytes in the file, while an
append may be cut after any of them. The invariant is stated on the file as it
would be if the current append went through, `bytes \o todo`: it has no line
that two appends share and no blank line. `Write` does not change it, `CutShort`
leaves a prefix of it, and a prefix of such a file is such a file
(`PrefixIsGood`). Only `Open` extends it, and the separator makes that safe
(`JoinIsGood`). `GluedNever` and `BlankNever` follow, for any number of appends
and any cuts; `TypeCorrect` says that the write loop runs exactly while bytes are
left. `AcknowledgedAreFound` follows a record through the file: `RInv` says that an
acknowledged record is a whole line of the file, and the one being written a whole
line of the planned file (`Whole`); whatever is appended leaves it whole (`WholeStays`).

**`AuditProofs`.** The audit is a function of lines and object directories, so the
only invariant needed is that these have their types (`Typed`), and the work is in
what the loops compute. Nothing in the provers gives that for a recursive function, not
even that it is one: `Recursion` shows it, and `UpTo` is the induction over the lines
read so far, both from the fact that every set of numbers has a least element. The
loops have invariants, as in a program proof. `ReadSoFar` says that after `i` lines an
entry is tainted exactly if one of its lines does not count, and that the records kept
of another are just the lines that name it; `ReplayedSoFar` says that
after `k` records an entry is tainted if it was or its records are no life of one object,
and that otherwise these records are what is kept of it. `FirstPass` puts the two
together: what is left after the first `Drop` is exactly the coherent entries with
their lines. `ReportIs` adds the object directories. `OthersDoNotMatter`, that what is left of
an entry depends on its own lines and directory only, gives `DamageIsLocal`.

| theorem | what it says |
|---|---|
| `AuditIsExact` | an error is reported exactly if something is wrong |
| `ListTellsTheTruth` | what is listed is what the lines say |
| `SoundEntriesAreListed` | a sound entry is listed whatever is wrong with the others |
| `PayloadsAreSeen` | no payload is neither listed nor reported |
| `DamageIsLocal` | a line about one entry changes nothing for another |

**`RestoreParentsProofs`.** That nothing of the user's is replaced is not inductive:
on v9fs a rename replaces what it finds, and what it finds depends on the look
before it. `IInv` adds to `TypeOK` that while a rename is armed, that is between
look and replacement, all that is under its name is in `fresh`, what the user has
put somewhere since (`ArmedOK`), and how far the chain has come (`PathOK`). The
steps of the restore are built of a few pieces (`Rename`, `CleanUp`, `NextParent`),
and so are the proofs: what a piece does to the control and to the places is a
lemma, and each action combines two of them. A step of the user can put
something under an armed name only by creating it (`UserUnderName`), since moved
objects go elsewhere. `NothingReplaced` then says that the restore and its cleanup
destroy nothing but empty directories of their own, for any depth and any user.

The other three theorems need where everything is. `TInv` adds to `IInv` where each
created parent can be and that nobody else is in one before it is published
(`DirsOK`), where the payload is (`PayloadOK`), and what the cleanup holds and has
done with (`CleanOK`). That everything can be reached from the visible directories
would need induction over paths. `HomeOK` says it without recursion: everything of
the user's is in a directory that is there, except what the cleanup holds, and there
is a rank of the directories that falls on the way up; every step gives a rank for
the next state. `Reachable` itself is shown to be a least fixed point (`ReachableIs`),
and an object that is not reachable and has the least rank (`LeastOf`, from the
library's theorem on well-founded relations) leads to a contradiction.

**`StorageInitProofs`.** `SuccessIsWhole` says that the names are there when the last
flush is done, many steps after each of them was looked at. `IInv` says of every
running process that all names before its place are there and of the right kind:
nothing is taken away but by a power failure, which ends every process.
`FailsForAReason` needs the same, since `Make` may fail where its parent is missing,
and a parent that was seen is not missing. For `VouchedSurvives` the invariant is
extended (`VInv`): what a process has made and already flushed past is on the disk,
and what a successful init has vouched for is on the disk, so it goes only with a
directory above it that is not. `NothingIsTaken` is a property of every step and has
no run of its own.

**`HookRegistryProofs`.** Nothing is locked, so the argument is about what a command
knows. `touched` is what makes that a state: a file of the command that is not in it
has been changed by nobody else since the command began. `IInv` says of every command
what it is about to do at each label (`Plan`) and that, while a file is not touched,
the registry's other entries, the user's part of the configuration, and a foreign file
in a payload's place are on disk and in the snapshot as they were read (`Knows`).
Every write is then `Proper`: a read value with the command's own part replaced, or
the snapshot. `OthersKept` follows, since a step of somebody else that changes a
file of the command also marks it. The other theorems extend the invariant: what the
rollback has visited is as in the snapshot (`Undone`); every file is as it was read up
to its write, and as the command wants it past it (`Honest`), which is why a write
may be skipped; and until an uninstall removes it, the adapter is there or is what the
command found (`Adapts`). The order of the rollback, configuration first, is
what `AdapterOutlives` rests on.

**`HookDecisionProofs`.** A hook call reads the registry, a configuration and the
registry again; what it has read may be old. `off` and `steady` (of the history
variable of the call) say what held all the time. `OffIsDenied` and
`SteadyCallsServed` have a hypothesis, `OneAtATime`: there is one process of management
commands. The code does not enforce it, and without it the statements are false:
the registry is not locked, so of two commands that overlap, the later write brings back
what the other one has switched off, or takes away what it has installed. The
command may be killed or fail anywhere and be followed by others, and the number of calls, edits and hosts is
arbitrary. `SInv` says what the only command knows of the registry (`Sole`), which
also limits what its rollback can bring back. `HookCallTypes` does not need the
hypothesis. `DecisionIsGetopt` is about the decision alone and a command line of any
length. `HasSeen` is the invariant of the scan: after `i` tokens it has stopped if one of
them is an option it does not know or that comes too late, and has collected the operands among
them otherwise. The specification of the operands chooses the `k`-th of them by counting;
`Counting` and `PickedNext` say that one more token adds at most itself.

| theorem | what it says |
|---|---|
| `NothingReplaced` | a restore destroys only its own empty directories, or on v9fs what came after its look |
| `SuccessTheorem` | an init that succeeded has left a whole layout |
| `FailureTheorem` | an init fails only for a failing call or a foreign object |
| `NothingTaken` | only a power failure takes a name or a record away |
| `SuccessIsDurable` | a power failure takes what a successful init made only with what it did not make |
| `AcknowledgedAreFound` | an append that returned is a line of its own for every reader |
| `RolledBackIsClean` | a silent rollback has the payload back and no directory of its own in staging |
| `CaptureIsVisible` | after a restore nothing of the user's is out of sight, unless it says so |
| `NoBareParentSeen` | a parent is shown only with the payload in it, or given back to who filled it |
| `OffIsDenied` | a mode that was off all the time moves nothing (commands one at a time) |
| `SteadyCallsServed` | an integration enforced all the time serves its calls (commands one at a time) |
| `DecisionIsGetopt`, `ClassifiedAsGetopt` | an adapter routes exactly what the command would delete, and denies what it does not understand |
| `OthersKept` | a hook command changes only its own part of an untouched file |
| `FailureIsUndone` | a failed hook command has left untouched files as it found them |
| `SuccessIsTrue` | a hook command that succeeds has done all of it |
| `AdapterOutlives` | no registration is left without its adapter |

**Only model-checked.** Liveness under fairness (`LockIsReleased`). Every other
property of the passing runs is a theorem; `OffMeansDenied` and `SteadyIsServed` are
proved under `OneAtATime`, which the instance of `hook_calls` (one management process)
satisfies. That bugs are found is the work of TLC alone: the mutants and the two runs
that expect a violation.

## 6. What is not modelled, and the plan

Not to be modelled: formatting, parsing of arguments, durations and instants,
metadata validation, platform checks and doctor (they read and keep nothing), the
fields of hook requests and responses. The store under a power loss: renames and
appends become durable in an order that depends on the file system, and the code
flushes appends but not renames, so after a power loss a rename may be undone
while its event stays. A kill is modelled everywhere; a power loss only in
`StorageInit`, where every name that matters is flushed by the code itself. The
walk of a restore through symbolic links, and the device of a path that changes,
are left to the operating system.

Order of work from here: `OffMeansDenied` and `SteadyIsServed` for commands that
overlap but work on the same integration, where the code may keep them; the policy of
`retention.py` as a module of its own.
