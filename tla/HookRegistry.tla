---------------------------- MODULE HookRegistry ----------------------------
(***************************************************************************)
(* `safe-delete hook install | disable | uninstall` (safe_delete/hook.py). *)
(* An integration is spread over several files: the payloads of the        *)
(* package (one adapter that every PreToolUse host shares, or one shim per *)
(* deletion command), the configuration file of the host, which belongs to *)
(* the user, and the registry of the package.  A command reads them, keeps *)
(* a snapshot, replaces them one by one, and puts the snapshot back when a *)
(* step fails.  Nothing is locked: several commands, and the user with an  *)
(* editor, work on the same files, and a command may be killed anywhere.   *)
(***************************************************************************)
EXTENDS Integers, FiniteSets

CONSTANTS
    Procs,          \* the processes that run management commands
    Hosts,          \* the selectors of mode pretooluse
    PathShim,       \* the selector of mode path-shim
    Configs,        \* paths of host configuration files
    Shims,          \* <bin>/rm, <bin>/rmdir, <bin>/unlink
    Adapter,        \* <hooks>/pretooluse, one file for all hosts
    Registry,       \* the path of hooks.json
    EventKeys,      \* the keys under which hosts list their hooks
    EventKey,       \* the key of each host
    Home,           \* the default configuration path of each host
    None,           \* nothing there
    Broken,         \* a configuration that is not the JSON object it should be
    Old, New,       \* a payload of the package, from another or from this source tree
    Foreign,        \* a file without the marker of the package
    MaxJobs, MaxKills, MaxFaults, MaxEdits, \* bounds of the environment, and of
    MaxUpsets       \* kills, failing system calls and edits together

ASSUME HookConstants ==
    /\ PathShim \notin Hosts
    /\ {Adapter, Registry} \cap (Configs \cup Shims) = {}
    /\ Configs \cap Shims = {} /\ Adapter # Registry
    /\ None \notin Configs
    /\ EventKey \in [Hosts -> EventKeys] /\ Home \in [Hosts -> Configs]
    /\ None # Broken /\ None # Foreign /\ Broken # Foreign
    /\ Old # New /\ {Old, New} \cap {None, Broken, Foreign} = {}
    /\ MaxJobs \in Nat /\ MaxKills \in Nat /\ MaxFaults \in Nat /\ MaxEdits \in Nat
    /\ MaxUpsets \in Nat

Selectors == Hosts \cup {PathShim}
Payloads  == Shims \cup {Adapter}
Paths     == Payloads \cup Configs \cup {Registry}
Owned     == {Old, New}

\* An entry of the registry, and the two files that are JSON objects.  Of a
\* configuration only the keys that list our adapter are told apart; the rest
\* of it is the user's, and a number stands for its version.
Entries       == [config : Configs \cup {None}, enabled : BOOLEAN]
Registries    == [Selectors -> Entries \cup {None}]
ConfigObjects == [user : 0..MaxEdits, keys : SUBSET EventKeys]
Contents      == {None, Broken, Foreign} \cup Owned \cup Registries \cup ConfigObjects

ASSUME NoneIsNothing == None \notin Registries /\ None \notin ConfigObjects /\ None \notin Entries

VARIABLES
    disk,       \* the content of every file
    pc,         \* where each process is, or how its last command ended
    job,        \* the command: verb, selector, explicit --config, resolved config
    reg, cfg,   \* the registry and the configuration as the process read them
    snap,       \* _FileTransaction.snapshots
    expect,     \* _FileTransaction.expected
    todo,       \* the files still to be visited by the loop the process is in
    bad,        \* whether the rollback met a failure
    touched,    \* history: files that others changed since the command began
    budget      \* what the environment may still do

vars == <<disk, pc, job, reg, cfg, snap, expect, todo, bad, touched, budget>>
locals == <<job, reg, cfg, snap, expect, bad>>

Verbs  == {"install", "disable", "uninstall"}
Ended  == {"idle", "ok", "nothing", "refused", "failed", "rollback_failed"}
Phases == {"registry?", "artifacts?", "owned?", "config?", "snapshot",
           "package", "check", "host", "registry", "status", "rollback"}
Jobs   == [verb : Verbs, sel : Selectors, given : Configs \cup {None},
           config : Configs \cup {None}]
NoJob  == [verb |-> "disable", sel |-> PathShim, given |-> None, config |-> None]

Package(sel)    == IF sel = PathShim THEN Shims ELSE {Adapter}
Integrations(r) == IF r = None THEN [s \in Selectors |-> None] ELSE r
Keys(c)         == IF c \in ConfigObjects THEN c.keys ELSE {}
Managed_NoneToo(j) == Package(j.sel) \cup {Registry, j.config}   \* mutant
Managed(j)      == Package(j.sel) \cup {Registry} \cup ({j.config} \ {None})
Nothing         == [x \in Paths |-> None]

\* The files of the selectors in S as an earlier install left them.
Installed(S) ==
    [x \in Paths |->
        IF x \in Configs
        THEN LET keys == {EventKey[h] : h \in {g \in S \cap Hosts : Home[g] = x}}
             IN  IF keys = {} THEN None ELSE [user |-> 0, keys |-> keys]
        ELSE IF x = Registry
        THEN IF S = {} THEN None
             ELSE [s \in Selectors |->
                     IF s \notin S THEN None
                     ELSE [config  |-> IF s = PathShim THEN None ELSE Home[s],
                           enabled |-> TRUE]]
        ELSE IF \E s \in S : x \in Package(s) THEN Old ELSE None]

Init ==
    /\ \E S \in SUBSET Selectors : disk = Installed(S)
    /\ pc = [p \in Procs |-> "idle"]
    /\ job = [p \in Procs |-> NoJob]
    /\ reg = [p \in Procs |-> Integrations(None)]
    /\ cfg = [p \in Procs |-> None]
    /\ snap = [p \in Procs |-> Nothing]
    /\ expect = [p \in Procs |-> Nothing]
    /\ todo = [p \in Procs |-> {}]
    /\ bad = [p \in Procs |-> FALSE]
    /\ touched = [p \in Procs |-> {}]
    /\ budget = [jobs |-> MaxJobs, kills |-> MaxKills, faults |-> MaxFaults,
                 edits |-> MaxEdits, upsets |-> MaxUpsets]

-----------------------------------------------------------------------------
\* Steps common to the commands

Goto(p, l)   == pc' = [pc EXCEPT ![p] = l]
Visit(p, S)  == todo' = [todo EXCEPT ![p] = S]
Upset(what)  == /\ budget[what] > 0 /\ budget.upsets > 0
                /\ budget' = [budget EXCEPT ![what] = @ - 1, !.upsets = @ - 1]

\* What p changes, it changes under the feet of the others.
Disturb(S, x) ==
    touched' = [q \in Procs |-> IF pc'[q] \in Ended THEN {}
                                ELSE IF q \in S /\ x \in Managed(job[q]) THEN touched[q] \cup {x}
                                ELSE touched[q]]
Put(p, x, v) ==
    /\ disk' = [disk EXCEPT ![x] = v]
    /\ Disturb(IF v = disk[x] THEN {} ELSE Procs \ {p}, x)
Keep == disk' = disk /\ Disturb({}, Registry)

\* A command that has ended keeps no state.
Finish(p, how) ==
    /\ Goto(p, how)
    /\ Visit(p, {})
    /\ job' = [job EXCEPT ![p] = NoJob]
    /\ reg' = [reg EXCEPT ![p] = Integrations(None)]
    /\ cfg' = [cfg EXCEPT ![p] = None]
    /\ snap' = [snap EXCEPT ![p] = Nothing]
    /\ expect' = [expect EXCEPT ![p] = Nothing]
    /\ bad' = [bad EXCEPT ![p] = FALSE]

\* The order of the steps inside the transaction of each command; only a host
\* has a configuration to write.
Following ==
    [install   |-> [snapshot |-> "package", package |-> "check", check |-> "host",
                    host |-> "registry", registry |-> "status"],
     uninstall |-> [snapshot |-> "host", host |-> "package", package |-> "registry",
                    registry |-> "status"],
     disable   |-> [snapshot |-> "host", host |-> "registry", registry |-> "status"]]
After(j, phase) ==
    LET next == Following[j.verb][phase]
    IN  IF next = "host" /\ j.sel = PathShim THEN Following[j.verb]["host"] ELSE next

\* Go on to the next step, with the package files to visit if it has a loop.
Advance(p) ==
    LET next == After(job[p], pc[p]) IN
    /\ Goto(p, next)
    /\ Visit(p, IF next = "package" THEN Package(job[p].sel) ELSE {})
    /\ UNCHANGED <<job, reg, cfg, snap, bad>>

\* An exception inside the transaction: roll back every snapshot.
\* Mutant: the registry is not among the files of the transaction.
Unwind_NotRegistry(p) ==
    /\ Goto(p, "rollback")
    /\ Visit(p, Managed(job[p]) \ {Registry})
    /\ UNCHANGED <<job, reg, cfg, snap, bad>>

Unwind(p) ==
    /\ Goto(p, "rollback")
    /\ Visit(p, Managed(job[p]))
    /\ UNCHANGED <<job, reg, cfg, snap, bad>>

Expected(p, x, v) == expect' = [expect EXCEPT ![p][x] = v]

\* _write_bytes_atomic fails before os.replace, or after it: the file is new
\* and only the flush of its directory failed.
WriteFails(p, x, v) == Upset("faults") /\ (Keep \/ Put(p, x, v))

-----------------------------------------------------------------------------
\* Reading and refusing

Begin(p) ==
    /\ pc[p] \in Ended
    /\ budget.jobs > 0 /\ budget' = [budget EXCEPT !.jobs = @ - 1]
    /\ \E verb \in Verbs, sel \in Selectors :
         \E given \in IF sel = PathShim THEN {None} ELSE Configs \cup {None} :
            job' = [job EXCEPT ![p] =
                      [verb |-> verb, sel |-> sel, given |-> given,
                       config |-> IF given # None \/ sel = PathShim THEN given ELSE Home[sel]]]
    /\ Goto(p, "registry?")
    /\ Keep /\ UNCHANGED <<reg, cfg, snap, expect, todo, bad>>

\* An install refuses an entry for another configuration than the one it
\* resolved; disable and uninstall without --config take the recorded one.
ReadRegistry(p) ==
    LET read  == Integrations(disk[Registry])
        entry == read[job[p].sel]
        free  == job[p].verb # "install" /\ job[p].given = None
    IN
    /\ pc[p] = "registry?"
    /\ IF entry # None /\ ~free /\ entry.config # job[p].config
       THEN Finish(p, "refused")
       ELSE /\ reg' = [reg EXCEPT ![p] = read]
            /\ job' = [job EXCEPT ![p].config = IF entry # None THEN entry.config ELSE @]
            /\ Goto(p, IF job[p].verb # "install"
                       THEN IF entry = None THEN "artifacts?" ELSE "owned?"
                       ELSE IF job[p].sel = PathShim THEN "snapshot" ELSE "config?")
            /\ UNCHANGED <<cfg, snap, expect, todo, bad>>
    /\ Keep /\ UNCHANGED budget

\* No entry: fine if nothing of the integration is there, else refused.
FindArtifacts(p) ==
    LET j == job[p] IN
    /\ pc[p] = "artifacts?"
    /\ Finish(p, IF \/ \E x \in Package(j.sel) : disk[x] # None
                    \/ j.sel \in Hosts /\ \/ disk[j.config] = Broken
                                          \/ EventKey[j.sel] \in Keys(disk[j.config])
                 THEN "refused" ELSE "nothing")
    /\ Keep /\ UNCHANGED budget

ProveOwned(p) ==
    /\ pc[p] = "owned?"
    /\ IF \A x \in Package(job[p].sel) : disk[x] \in Owned
       THEN /\ Goto(p, IF job[p].sel = PathShim THEN "snapshot" ELSE "config?")
            /\ UNCHANGED <<locals, todo>>
       ELSE Finish(p, "refused")
    /\ Keep /\ UNCHANGED budget

LoadConfig(p) ==
    /\ pc[p] = "config?"
    /\ IF disk[job[p].config] = Broken
       THEN Finish(p, "refused")
       ELSE /\ cfg' = [cfg EXCEPT ![p] = disk[job[p].config]]
            /\ Goto(p, "snapshot")
            /\ UNCHANGED <<job, reg, snap, expect, todo, bad>>
    /\ Keep /\ UNCHANGED budget

\* uninstall looks once more that no package file is foreign; then the
\* snapshots are read (in one step: nothing is written in between).
Snapshot(p) ==
    /\ pc[p] = "snapshot"
    /\ IF job[p].verb = "uninstall" /\ \E x \in Package(job[p].sel) : disk[x] = Foreign
       THEN Finish(p, "refused")
       ELSE /\ snap' = [snap EXCEPT ![p] = [x \in Paths |-> IF x \in Managed(job[p]) THEN disk[x] ELSE None]]
            /\ Goto(p, After(job[p], pc[p]))
            /\ Visit(p, IF After(job[p], pc[p]) = "package" THEN Package(job[p].sel) ELSE {})
            /\ UNCHANGED <<job, reg, cfg, expect, bad>>
    /\ Keep /\ UNCHANGED budget

-----------------------------------------------------------------------------
\* The transaction.  The ownership of a file is checked right before it is
\* replaced or unlinked; check and system call are one step here.

Visited(p, x) ==
    IF todo[p] = {x} THEN Advance(p)
    ELSE /\ Visit(p, todo[p] \ {x})
         /\ UNCHANGED <<pc, job, reg, cfg, snap, bad>>

\* _install_owned_file: payloads are visited in a fixed order; any order here.
InstallPayload(p) == \E x \in todo[p] :
    /\ pc[p] = "package" /\ job[p].verb = "install"
    /\ Expected(p, x, New)
    /\ \/ disk[x] = Foreign /\ Unwind(p) /\ Keep /\ UNCHANGED budget
       \/ disk[x] = New     /\ Visited(p, x) /\ Keep /\ UNCHANGED budget
       \/ disk[x] \in {None, Old} /\ Visited(p, x) /\ Put(p, x, New) /\ UNCHANGED budget
       \/ disk[x] \in {None, Old} /\ Unwind(p) /\ WriteFails(p, x, New)

\* _remove_owned_file
RemovePayload(p) == \E x \in todo[p] :
    /\ pc[p] = "package" /\ job[p].verb = "uninstall"
    /\ UNCHANGED expect
    /\ \/ disk[x] = Foreign   /\ Unwind(p) /\ Keep /\ UNCHANGED budget
       \/ disk[x] = None      /\ Visited(p, x) /\ Keep /\ UNCHANGED budget
       \/ disk[x] \in Owned   /\ Visited(p, x) /\ Put(p, x, None) /\ UNCHANGED budget
       \/ disk[x] \in Owned   /\ Unwind(p) /\ Keep /\ Upset("faults")

\* After an install the payloads must be runnable, which is tried.
CheckPackage(p) ==
    LET there == \A x \in Package(job[p].sel) : disk[x] \in Owned IN
    /\ pc[p] = "check"
    /\ \/ there /\ Advance(p) /\ UNCHANGED budget
       \/ ~there /\ Unwind(p) /\ UNCHANGED budget
       \/ there /\ Unwind(p) /\ Upset("faults")
    /\ Keep /\ UNCHANGED expect

\* The configuration that was read, with our registration added or removed;
\* it is written only if that changes it.
NewConfig(p) ==
    LET key == EventKey[job[p].sel] IN
    IF job[p].verb = "install"
    THEN IF cfg[p] = None THEN [user |-> 0, keys |-> {key}] ELSE [cfg[p] EXCEPT !.keys = @ \cup {key}]
    ELSE IF cfg[p] = None THEN None ELSE [cfg[p] EXCEPT !.keys = @ \ {key}]

Replace(p, x, v) ==
    /\ Expected(p, x, v)
    /\ \/ Advance(p) /\ Put(p, x, v) /\ UNCHANGED budget
       \/ Unwind(p) /\ WriteFails(p, x, v)

\* Mutant: an install trusts the registry that the host is registered.
WriteHost_TrustsRegistry(p) ==
    /\ pc[p] = "host"
    /\ IF NewConfig(p) = cfg[p] \/ (job[p].verb = "install" /\ reg[p][job[p].sel] # None)
       THEN Advance(p) /\ Keep /\ UNCHANGED <<expect, budget>>
       ELSE Replace(p, job[p].config, NewConfig(p))

WriteHost(p) ==
    /\ pc[p] = "host"
    /\ IF NewConfig(p) = cfg[p]
       THEN Advance(p) /\ Keep /\ UNCHANGED <<expect, budget>>
       ELSE Replace(p, job[p].config, NewConfig(p))

\* The registry that was read, with the entry of this selector changed.
\* Mutant: the registry is written afresh.
NewRegistry_Fresh(p) ==
    [Integrations(None) EXCEPT ![job[p].sel] =
        CASE job[p].verb = "install"   -> [config |-> job[p].config, enabled |-> TRUE]
          [] job[p].verb = "disable"   -> [config |-> job[p].config, enabled |-> FALSE]
          [] job[p].verb = "uninstall" -> None]

NewRegistry(p) ==
    LET j == job[p] IN
    [reg[p] EXCEPT ![j.sel] =
        CASE j.verb = "install"   -> [config |-> j.config, enabled |-> TRUE]
          [] j.verb = "disable"   -> [@ EXCEPT !.enabled = FALSE]
          [] j.verb = "uninstall" -> None]

WriteRegistry(p) ==
    /\ pc[p] = "registry"
    /\ IF NewRegistry(p) = reg[p]
       THEN Advance(p) /\ Keep /\ UNCHANGED <<expect, budget>>
       ELSE Replace(p, Registry, NewRegistry(p))

\* The result is the status of the integration, read from the files.
Report(p) ==
    /\ pc[p] = "status"
    /\ Finish(p, "ok")
    /\ Keep /\ UNCHANGED budget

\* _FileTransaction.rollback goes through the snapshots backwards: the
\* configuration, the registry, the payloads.
\* Mutant: the snapshots are restored in the order in which they were taken.
LastOf_Forward(S) ==
    IF S \cap Payloads # {} THEN S \cap Payloads
    ELSE IF Registry \in S THEN {Registry} ELSE S

LastOf(S) ==
    IF S \cap Configs # {} THEN S \cap Configs
    ELSE IF Registry \in S THEN {Registry} ELSE S

Rolled(p, x, ok) ==
    IF todo[p] = {x}
    THEN Finish(p, IF bad[p] \/ ~ok THEN "rollback_failed" ELSE "failed")
    ELSE /\ Visit(p, todo[p] \ {x})
         /\ bad' = [bad EXCEPT ![p] = @ \/ ~ok]
         /\ UNCHANGED <<pc, job, reg, cfg, snap, expect>>

\* A file that was there is rewritten unless it is as it was, and is lost if it
\* has been removed; a file that was not there is removed if it is what this
\* command wrote, and else left.
Rollback(p) == \E x \in LastOf(todo[p]) :
    LET was  == snap[p][x]
        now  == disk[x]
        fine == now = was
        ours == IF was # None THEN now # None ELSE now = expect[p][x]
    IN
    /\ pc[p] = "rollback"
    /\ \/ fine /\ Rolled(p, x, TRUE) /\ Keep /\ UNCHANGED budget
       \/ ~fine /\ ours /\ Rolled(p, x, TRUE) /\ Put(p, x, was) /\ UNCHANGED budget
       \/ ~fine /\ ours /\ Rolled(p, x, FALSE) /\ WriteFails(p, x, was)
       \/ ~fine /\ ~ours /\ Rolled(p, x, FALSE) /\ Keep /\ UNCHANGED budget

Kill(p) ==
    /\ pc[p] \notin Ended
    /\ Upset("kills")
    /\ Finish(p, "idle")
    /\ Keep

-----------------------------------------------------------------------------
\* The user edits a configuration (its own part, our registration, or into
\* something that is no JSON), or puts a file of their own in our place; in an
\* otherwise quiet run, as a bound.
EditOf(files) ==
    /\ budget.edits > 0 /\ budget.upsets = MaxUpsets
    /\ budget' = [budget EXCEPT !.edits = @ - 1, !.upsets = 0]
    /\ UNCHANGED <<pc, locals, todo>>
    /\ \/ \E c \in Configs \cap files :
            \E v \in {Broken} \cup [user : {MaxEdits - budget.edits + 1}, keys : {{}, Keys(disk[c])}] :
              /\ disk' = [disk EXCEPT ![c] = v]
              /\ Disturb(Procs, c)
       \/ \E x \in Payloads \cap files :
              /\ disk' = [disk EXCEPT ![x] = Foreign]
              /\ Disturb(Procs, x)

\* For the commands, an edit of a file that none of them uses is as one right
\* before the last that used it ended, or right after the next has begun.  A
\* bound: while two commands run it is they who disturb each other.
Edit == \E p \in Procs :
    /\ pc[p] \notin Ended
    /\ \A q \in Procs \ {p} : pc[q] \in Ended
    /\ EditOf(Managed(job[p]))

Read(p)   == \/ ReadRegistry(p) \/ FindArtifacts(p) \/ ProveOwned(p)
             \/ LoadConfig(p) \/ Snapshot(p)
Write(p)  == \/ InstallPayload(p) \/ RemovePayload(p) \/ CheckPackage(p)
             \/ WriteHost(p) \/ WriteRegistry(p) \/ Report(p)
Manage(p) == Begin(p) \/ Read(p) \/ Write(p) \/ Rollback(p) \/ Kill(p)

Next == Edit \/ \E p \in Procs : Manage(p)

Spec == Init /\ [][Next]_vars

-----------------------------------------------------------------------------
(* Properties *)

TypeOK ==
    /\ disk \in [Paths -> Contents]
    /\ pc \in [Procs -> Ended \cup Phases]
    /\ job \in [Procs -> Jobs]
    /\ reg \in [Procs -> Registries]
    /\ cfg \in [Procs -> ConfigObjects \cup {None}]
    /\ snap \in [Procs -> [Paths -> Contents]]
    /\ expect \in [Procs -> [Paths -> Contents]]
    /\ todo \in [Procs -> SUBSET Paths]
    /\ bad \in [Procs -> BOOLEAN]
    /\ touched \in [Procs -> SUBSET Paths]
    /\ budget \in [{"jobs", "kills", "faults", "edits", "upsets"} -> Nat]

Entry(s)         == Integrations(disk[Registry])[s]
Registered(s, c) == s \in Hosts /\ EventKey[s] \in Keys(disk[c])

\* What _status_one calls enforced.
Enforced(s) ==
    /\ Entry(s) # None /\ Entry(s).enabled
    /\ \A x \in Package(s) : disk[x] \in Owned
    /\ s \in Hosts => Registered(s, Entry(s).config)

\* A command that reports success has done all of it, whatever was killed or
\* failed before it and although it skips what it finds done: after an install
\* the integration is enforced with the payloads of this source tree, after a
\* disable the entry is there and nothing is registered, after an uninstall
\* nothing is left.  (Unless somebody else changed its files under it.)
OkIsTrue ==
    \A p \in Procs :
        LET j == job[p] IN
        pc[p] = "status" /\ touched[p] \cap Managed(j) = {} =>
            CASE j.verb = "install"   -> Enforced(j.sel) /\ \A x \in Package(j.sel) : disk[x] = New
              [] j.verb = "disable"   -> /\ Entry(j.sel) = [config |-> j.config, enabled |-> FALSE]
                                         /\ ~Registered(j.sel, j.config)
              [] j.verb = "uninstall" -> /\ Entry(j.sel) = None
                                         /\ ~Registered(j.sel, j.config)
                                         /\ \A x \in Package(j.sel) : disk[x] = None

\* A command that fails without reporting a failed rollback has left every file
\* as it found it, at whatever step it failed and even if the failing write had
\* its effect.
FailedIsUndone ==
    [][\A p \in Procs : pc[p] = "rollback" /\ pc'[p] = "failed" =>
          \A x \in Managed(job[p]) \ touched[p] : disk'[x] = snap[p][x]]_vars

Acts(p) == pc'[p] # pc[p] \/ todo'[p] # todo[p]

\* The part of a configuration that is not the registration under key.
UserPart(v, key) ==
    IF v = None THEN [user |-> 0, keys |-> {}]
    ELSE IF v \in ConfigObjects THEN [v EXCEPT !.keys = @ \ {key}] ELSE v

\* No step of a command, its rollback included, changes what is not its own:
\* the entries of other selectors, the user's part of a configuration, a
\* payload path that somebody else's file occupies.  Only a file that was
\* changed while the command ran can lose that change.
OthersAreKept ==
    [][\A p \in Procs : Acts(p) /\ pc[p] \notin Ended =>
          /\ \/ Registry \in touched[p]
             \/ \A s \in Selectors \ {job[p].sel} : Entry(s)' = Entry(s)
          /\ \A c \in Configs \ touched[p] :
                \/ disk'[c] = disk[c]
                \/ /\ c = job[p].config
                   /\ UserPart(disk'[c], EventKey[job[p].sel]) = UserPart(disk[c], EventKey[job[p].sel])
          /\ \A x \in Payloads \ touched[p] : disk[x] = Foreign => disk'[x] = Foreign]_vars

\* The host runs what its configuration names: a registration without the
\* adapter is a hook that cannot answer.  In no order of writes, after no kill
\* and after no failed install or disable does a command leave its own
\* registration without the adapter, unless it found it so or met two failures.
Dangles(d, j) == j.sel \in Hosts /\ EventKey[j.sel] \in Keys(d[j.config]) /\ d[Adapter] \notin Owned
AdapterOutlivesRegistration ==
    [][\A p \in Procs :
          /\ Acts(p) /\ pc[p] \notin Ended /\ touched[p] = {} /\ ~bad[p]
          /\ pc[p] = "rollback" => job[p].verb # "uninstall"
          /\ Dangles(disk', job[p])
          => Dangles(disk, job[p]) \/ Dangles(snap[p], job[p])]_vars

\* What _FileTransaction says of itself: the management files are restored if
\* an operation on several files fails, here by one failing system call.
FilesAreRestored ==
    [][\A p \in Procs :
          /\ pc[p] = "rollback" /\ pc'[p] \in {"failed", "rollback_failed"}
          /\ touched[p] = {} /\ budget.faults = MaxFaults - 1
          => \A x \in Managed(job[p]) : disk'[x] = snap[p][x]]_vars
=============================================================================
