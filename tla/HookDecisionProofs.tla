------------------------- MODULE HookDecisionProofs -------------------------
(***************************************************************************)
(* Theorems about HookDecision, for any number of calls, hosts and bounds: *)
(* the decision on a command line of any length, the types, and, when the  *)
(* management commands come one after another, that a call moves nothing   *)
(* for an integration that was off all the time and is never refused one   *)
(* that was enforced all the time.                                         *)
(*                                                                         *)
(* A single command at work knows the registry: until it writes it the     *)
(* registry is what the command has read, then what it has written, and    *)
(* its rollback can only bring back the former.  A call that reads one     *)
(* file after the other carries what it has read along.                    *)
(***************************************************************************)
EXTENDS HookDecision, HookRegistryProofs, WellFoundedInduction, FiniteSetTheorems

\* The management commands come one after another; each may fail or be killed.
OneAtATime == \A p, q \in Procs : p = q

IsOff(entry) == entry = None \/ ~entry.enabled

\* Labels at which the registry is as the command has read it.
Unwritten == {"artifacts?", "owned?", "config?", "snapshot", "package", "check",
              "host", "registry"}

\* What the only command at work knows of the registry.
Sole(p) ==
    /\ pc[p] \in Unwritten => Integrations(disk[Registry]) = reg[p]
    /\ pc[p] \in Acting => Integrations(snap[p][Registry]) = reg[p]
    /\ pc[p] = "status" => Integrations(disk[Registry]) = NewRegistry(p)
    /\ pc[p] = "rollback" => Integrations(disk[Registry]) \in {reg[p], NewRegistry(p)}
    /\ pc[p] = "artifacts?" => reg[p][job[p].sel] = None
    /\ pc[p] \in Started /\ reg[p][job[p].sel] # None => reg[p][job[p].sel].config = job[p].config

\* It does not switch on what has been switched off for good.
Heeds(p) ==
    /\ pc[p] \notin Ended /\ job[p].verb = "install" => job[p].sel \notin off
    /\ pc[p] \in Started => \A s \in off : IsOff(reg[p][s])

SInv == IInv /\ \A p \in Procs : Sole(p)
OffInv ==
    /\ SInv
    /\ off \in SUBSET Selectors
    /\ \A s \in off : IsOff(Entry(s))
    /\ \A p \in Procs : Heeds(p)

Looking == {"registry?", "hosts?", "shims?"}

\* A deletion is looked up for its mode, and carried out if the mode was live.
Routed(c) ==
    /\ call[c].at \in Looking => call[c].class = "route"
    /\ call[c].at \in {"shims?", "hosts?"} => (call[c].at = "shims?" <=> call[c].mode = "path-shim")
    /\ call[c].class = "route" => call[c].at \in Looking \cup {"cli?", "child"}
    /\ call[c].class = "route" /\ call[c].at # "registry?" => live[c]

\* The integrations that were enforced all the time are among those that the
\* call has still to try.
Served(c) == \A s \in steady[c] :
    /\ s \in Of(call[c].mode) /\ Enforced(s)
    /\ call[c].at = "hosts?" => <<s, Entry(s).config>> \in call[c].entries

\* The types, for any number of commands at work.
CallTypes ==
    /\ call \in [Calls -> [at : Steps, mode : Modes, class : Classes,
                           entries : SUBSET (Selectors \X (Configs \cup {None}))]]
    /\ steady \in [Calls -> SUBSET Selectors]
    /\ live \in [Calls -> BOOLEAN]
    /\ off \in SUBSET Selectors

TInv == IInv /\ CallTypes
HInv == OffInv /\ CallTypes /\ \A c \in Calls : Routed(c) /\ Served(c)

-----------------------------------------------------------------------------
(* What the steps of a command do to the registry and to what it knows of it. *)

\* A command that has ended, or only just begun, knows nothing.
LEMMA SoleElsewhere ==
  ASSUME NEW p \in Procs, pc'[p] \in Ended \cup {"registry?"}
  PROVE  Sole(p)' /\ pc'[p] \notin Started
<1>1. pc'[p] \notin Unwritten /\ pc'[p] \notin Acting /\ pc'[p] \notin Started
  BY DEF Ended, Unwritten, Acting, Started, Loaded
<1> QED BY <1>1 DEF Sole, Acting, Unwritten

LEMMA BeginStep ==
  ASSUME IInv, NEW p \in Procs, Begin(p)
  PROVE  pc[p] \in Ended /\ pc'[p] = "registry?" /\ disk' = disk
BY DEF Begin, Goto, Keep, IInv, Typed

LEMMA ReadRegistryStep ==
  ASSUME IInv, NEW p \in Procs, ReadRegistry(p), pc'[p] \notin Ended
  PROVE  /\ pc[p] = "registry?" /\ disk' = disk
         /\ pc'[p] \in {"artifacts?", "owned?", "snapshot", "config?"}
         /\ reg'[p] = Integrations(disk[Registry])
         /\ job'[p].verb = job[p].verb /\ job'[p].sel = job[p].sel
         /\ reg'[p][job'[p].sel] # None => reg'[p][job'[p].sel].config = job'[p].config
         /\ pc'[p] = "artifacts?" => reg'[p][job'[p].sel] = None
<1> DEFINE read  == Integrations(disk[Registry])
           entry == read[job[p].sel]
           free  == job[p].verb # "install" /\ job[p].given = None
           next  == IF job[p].verb # "install"
                    THEN IF entry = None THEN "artifacts?" ELSE "owned?"
                    ELSE IF job[p].sel = PathShim THEN "snapshot" ELSE "config?"
           cf    == IF entry # None THEN entry.config ELSE job[p].config
<1>1. Typed /\ job[p] \in Jobs /\ pc[p] = "registry?" /\ disk' = disk
  BY DEF IInv, Typed, ReadRegistry, Keep
<1>2. CASE entry # None /\ ~free /\ entry.config # job[p].config
  <2>1. Finish(p, "refused") /\ "refused" \in Ended
    BY <1>2 DEF ReadRegistry, Ended
  <2> QED BY <1>1, <2>1, FinishOwn
<1>3. CASE ~(entry # None /\ ~free /\ entry.config # job[p].config)
  <2>1. /\ reg' = [reg EXCEPT ![p] = read]
        /\ job' = [job EXCEPT ![p].config = cf]
        /\ pc' = [pc EXCEPT ![p] = next]
    BY <1>3 DEF ReadRegistry, Goto
  <2>2. reg'[p] = read /\ pc'[p] = next
    BY <1>1, <2>1 DEF Typed
  <2>3. job'[p].verb = job[p].verb /\ job'[p].sel = job[p].sel /\ job'[p].config = cf
    BY <1>1, <2>1 DEF Typed, Jobs
  <2> HIDE DEF read
  <2>4. reg'[p][job'[p].sel] # None => reg'[p][job'[p].sel].config = job'[p].config
    BY <2>2, <2>3
  <2>5. pc'[p] = "artifacts?" => reg'[p][job'[p].sel] = None
    BY <2>2, <2>3
  <2> QED BY <1>1, <2>2, <2>3, <2>4, <2>5 DEF read
<1> QED BY <1>2, <1>3

LEMMA OwnershipStep ==
  ASSUME IInv, NEW p \in Procs, ProveOwned(p) \/ LoadConfig(p), pc'[p] \notin Ended
  PROVE  /\ pc[p] \in {"owned?", "config?"} /\ disk' = disk
         /\ pc'[p] \in {"config?", "snapshot"}
         /\ job' = job /\ reg' = reg
<1>1. Typed /\ disk' = disk /\ pc[p] \in {"owned?", "config?"}
  BY DEF IInv, ProveOwned, LoadConfig, Keep
<1>2. ~Finish(p, "refused")
  BY <1>1, FinishOwn DEF Ended
<1> QED BY <1>1, <1>2 DEF ProveOwned, LoadConfig, Goto, Typed, locals

LEMMA SnapshotStep ==
  ASSUME IInv, NEW p \in Procs, Snapshot(p), pc'[p] \notin Ended
  PROVE  /\ pc[p] = "snapshot" /\ disk' = disk
         /\ pc'[p] \in {"package", "host", "registry"}
         /\ job' = job /\ reg' = reg /\ snap'[p][Registry] = disk[Registry]
<1>1. Typed /\ disk' = disk /\ pc[p] = "snapshot" /\ job[p] \in Jobs
  BY DEF IInv, Typed, Snapshot, Keep
<1>2. ~Finish(p, "refused")
  BY <1>1, FinishOwn DEF Ended
<1>3. /\ pc' = [pc EXCEPT ![p] = After(job[p], "snapshot")]
      /\ snap' = [snap EXCEPT ![p] = [x \in Paths |-> IF x \in Managed(job[p]) THEN disk[x] ELSE None]]
      /\ job' = job /\ reg' = reg
  BY <1>1, <1>2 DEF Snapshot, Goto
<1>4. Registry \in Managed(job[p]) /\ Registry \in Paths
  BY PathFacts DEF Managed
<1> QED BY <1>1, <1>3, <1>4, AfterIs DEF Typed

LEMMA AdvanceStep ==
  ASSUME IInv, NEW p \in Procs, pc[p] \in {"package", "check", "host"},
         pc[p] = "package" => job[p].verb # "disable",
         pc[p] = "check" => job[p].verb = "install",
         Advance(p) \/ Unwind(p)
  PROVE  /\ pc'[p] \in {"package", "check", "host", "registry", "rollback"}
         /\ job' = job /\ reg' = reg /\ snap' = snap
<1>1. Typed /\ job[p] \in Jobs
  BY DEF IInv, Typed
<1>2. CASE Advance(p)
  <2>1. pc'[p] = After(job[p], pc[p]) /\ job' = job /\ reg' = reg /\ snap' = snap
    BY <1>1, <1>2 DEF Advance, Goto, Typed
  <2>2. job[p].verb \in {"install", "uninstall", "disable"}
    BY <1>1 DEF Jobs, Verbs
  <2> QED BY <1>1, <2>1, <2>2, AfterIs
<1>3. CASE Unwind(p)
  BY <1>1, <1>3 DEF Unwind, Goto, Typed
<1> QED BY <1>2, <1>3

\* Up to the registry itself nothing is written into it.
LEMMA PackageStep ==
  ASSUME IInv, NEW p \in Procs,
         InstallPayload(p) \/ RemovePayload(p) \/ CheckPackage(p) \/ WriteHost(p)
  PROVE  /\ pc[p] \in {"package", "check", "host"}
         /\ pc'[p] \in {"package", "check", "host", "registry", "rollback"}
         /\ job' = job /\ reg' = reg /\ snap' = snap /\ disk'[Registry] = disk[Registry]
<1>1. /\ Typed /\ Plan(p) /\ disk \in [Paths -> Contents] /\ job[p] \in Jobs
      /\ pc[p] \in {"package", "check", "host"} /\ pc[p] \notin Ended
  BY DEF IInv, Typed, Files, InstallPayload, RemovePayload, CheckPackage, WriteHost, Ended
<1>2. /\ pc[p] = "package" => job[p].verb # "disable"
      /\ pc[p] = "check" => job[p].verb = "install"
  BY <1>1 DEF Plan, InstallPayload, RemovePayload, CheckPackage, WriteHost
<1>3. \/ Advance(p) \/ Unwind(p)
      \/ pc[p] = "package" /\ UNCHANGED <<pc, job, reg, cfg, snap, bad>>
  BY DEF InstallPayload, RemovePayload, CheckPackage, WriteHost, Visited, Replace
<1>4. /\ pc'[p] \in {"package", "check", "host", "registry", "rollback"}
      /\ job' = job /\ reg' = reg /\ snap' = snap
  BY <1>1, <1>2, <1>3, AdvanceStep
<1>5. CASE InstallPayload(p) \/ RemovePayload(p)
  <2>1. PICK x \in todo[p], v \in {New, None} : disk' = disk \/ disk' = [disk EXCEPT ![x] = v]
    BY <1>5 DEF InstallPayload, RemovePayload, Keep, Put, WriteFails
  <2>2. x \in Payloads
    BY <1>1, <1>5, PathFacts DEF Plan, InstallPayload, RemovePayload
  <2> QED BY <1>1, <1>4, <2>1, <2>2, PathFacts
<1>6. CASE CheckPackage(p)
  BY <1>1, <1>4, <1>6 DEF CheckPackage, Keep
<1>7. CASE WriteHost(p)
  <2>1. disk' = disk \/ disk' = [disk EXCEPT ![job[p].config] = NewConfig(p)]
    BY <1>7 DEF WriteHost, Keep, Put, Replace, WriteFails
  <2>2. job[p].config \in Configs
    <3>1. job[p].sel \in Hosts /\ job[p].config \in ConfigOf(job[p].sel)
      BY <1>1, <1>7 DEF Plan, WriteHost
    <3> QED BY <3>1, HookConstants DEF ConfigOf
  <2> QED BY <1>1, <1>4, <2>1, <2>2, PathFacts
<1> QED BY <1>5, <1>6, <1>7

LEMMA WriteRegistryStep ==
  ASSUME IInv, NEW p \in Procs, WriteRegistry(p)
  PROVE  /\ pc[p] = "registry" /\ pc'[p] \in {"status", "rollback"}
         /\ job' = job /\ reg' = reg /\ snap' = snap
         /\ disk'[Registry] \in {disk[Registry], NewRegistry(p)}
         /\ pc'[p] = "status" /\ disk'[Registry] # NewRegistry(p) => NewRegistry(p) = reg[p]
<1>1. /\ Typed /\ disk \in [Paths -> Contents] /\ job[p] \in Jobs /\ pc[p] = "registry"
      /\ Registry \in Paths
  BY PathFacts DEF IInv, Typed, Files, WriteRegistry
<1>2. Advance(p) => pc'[p] = "status" /\ job' = job /\ reg' = reg /\ snap' = snap
  BY <1>1, AfterIs DEF Advance, Goto, Typed
<1>3. Unwind(p) => pc'[p] = "rollback" /\ job' = job /\ reg' = reg /\ snap' = snap
  BY <1>1 DEF Unwind, Goto, Typed
<1>4. CASE NewRegistry(p) = reg[p]
  <2>1. Advance(p) /\ disk' = disk
    BY <1>4 DEF WriteRegistry, Keep
  <2> QED BY <1>1, <1>2, <1>4, <2>1
<1>5. CASE NewRegistry(p) # reg[p]
  <2>1. Replace(p, Registry, NewRegistry(p))
    BY <1>5 DEF WriteRegistry
  <2>2. \/ Advance(p) /\ disk' = [disk EXCEPT ![Registry] = NewRegistry(p)]
        \/ /\ Unwind(p)
           /\ disk' = disk \/ disk' = [disk EXCEPT ![Registry] = NewRegistry(p)]
    BY <2>1 DEF Replace, WriteFails, Keep, Put
  <2>3. disk'[Registry] \in {disk[Registry], NewRegistry(p)}
    BY <1>1, <2>2
  <2>5. pc'[p] = "status" => disk'[Registry] = NewRegistry(p)
    BY <1>1, <1>3, <2>2
  <2> QED BY <1>1, <1>2, <1>3, <2>2, <2>3, <2>5
<1> QED BY <1>4, <1>5

LEMMA RollbackStep ==
  ASSUME IInv, NEW p \in Procs, Rollback(p)
  PROVE  /\ pc[p] = "rollback" /\ disk'[Registry] \in {disk[Registry], snap[p][Registry]}
         /\ pc'[p] \notin Ended => pc'[p] = "rollback" /\ job' = job /\ reg' = reg /\ snap' = snap
<1>1. Typed /\ disk \in [Paths -> Contents] /\ Registry \in Paths /\ pc[p] = "rollback"
  BY PathFacts DEF IInv, Typed, Files, Rollback
<1>2. PICK x \in todo[p], ok \in BOOLEAN :
        /\ Rolled(p, x, ok)
        /\ disk' = disk \/ disk' = [disk EXCEPT ![x] = snap[p][x]]
  BY DEF Rollback, WriteFails, Keep, Put, LastOf
<1>3. disk'[Registry] \in {disk[Registry], snap[p][Registry]}
  BY <1>1, <1>2
<1>4. CASE \E how \in Ended : Finish(p, how)
  BY <1>1, <1>3, <1>4, FinishOwn
<1>5. CASE ~\E how \in Ended : Finish(p, how)
  BY <1>1, <1>2, <1>3, <1>5 DEF Rolled, Ended
<1> QED BY <1>4, <1>5

-----------------------------------------------------------------------------
(* The registry and the only command at work. *)

\* A step that does not write the registry.
LEMMA SoleGoesOn ==
  ASSUME NEW p \in Procs, Sole(p), job'[p] = job[p], reg'[p] = reg[p],
         disk'[Registry] = disk[Registry], pc[p] \in Unwritten,
         pc'[p] \in (Unwritten \ {"artifacts?"}) \cup {"rollback"},
         pc'[p] \in Acting => pc[p] \in Acting /\ snap'[p] = snap[p],
         pc[p] \in Started
  PROVE  Sole(p)'
<1>1. Integrations(disk'[Registry]) = reg'[p]
  BY DEF Sole
<1>2. pc'[p] \in Acting => Integrations(snap'[p][Registry]) = reg'[p]
  BY DEF Sole
<1>3. reg'[p][job'[p].sel] # None => reg'[p][job'[p].sel].config = job'[p].config
  BY DEF Sole
<1>4. pc'[p] # "status" /\ pc'[p] # "artifacts?"
  BY DEF Unwritten
<1> QED BY <1>1, <1>2, <1>3, <1>4 DEF Sole

LEMMA ReadSole ==
  ASSUME IInv, NEW p \in Procs, Sole(p), Read(p)
  PROVE  Sole(p)'
<1>1. CASE pc'[p] \in Ended
  BY <1>1, SoleElsewhere
<1>2. CASE ReadRegistry(p) /\ pc'[p] \notin Ended
  <2>1. /\ disk' = disk
        /\ pc'[p] \in {"artifacts?", "owned?", "snapshot", "config?"}
        /\ reg'[p] = Integrations(disk[Registry])
        /\ reg'[p][job'[p].sel] # None => reg'[p][job'[p].sel].config = job'[p].config
        /\ pc'[p] = "artifacts?" => reg'[p][job'[p].sel] = None
    BY <1>2, ReadRegistryStep
  <2>2. pc'[p] \notin Acting
    BY <2>1 DEF Acting
  <2> QED BY <2>1, <2>2 DEF Sole, Acting
<1>3. CASE FindArtifacts(p) /\ pc'[p] \notin Ended
  <2>1. \E how \in Ended : Finish(p, how)
    BY <1>3 DEF FindArtifacts, Ended
  <2> QED BY <1>3, <2>1, FinishOwn DEF IInv
<1>4. CASE (ProveOwned(p) \/ LoadConfig(p)) /\ pc'[p] \notin Ended
  <2>1. /\ pc[p] \in {"owned?", "config?"} /\ disk' = disk
        /\ pc'[p] \in {"config?", "snapshot"} /\ job' = job /\ reg' = reg
    BY <1>4, OwnershipStep
  <2>2. /\ pc[p] \in Unwritten /\ pc'[p] \in Unwritten \ {"artifacts?"} /\ pc'[p] \notin Acting
        /\ pc[p] \in Started
    BY <2>1 DEF Unwritten, Acting, Started
  <2> QED BY <2>1, <2>2, SoleGoesOn
<1>5. CASE Snapshot(p) /\ pc'[p] \notin Ended
  <2>1. /\ pc[p] = "snapshot" /\ disk' = disk /\ pc'[p] \in {"package", "host", "registry"}
        /\ job' = job /\ reg' = reg /\ snap'[p][Registry] = disk[Registry]
    BY <1>5, SnapshotStep
  <2>2. pc[p] \in Unwritten /\ pc[p] \in Started
    BY <2>1 DEF Unwritten, Started, Loaded
  <2>3. /\ Integrations(disk[Registry]) = reg[p]
        /\ reg[p][job[p].sel] # None => reg[p][job[p].sel].config = job[p].config
    BY <2>2 DEF Sole
  <2> QED BY <2>1, <2>3 DEF Sole
<1> QED BY <1>1, <1>2, <1>3, <1>4, <1>5 DEF Read

LEMMA WriteSole ==
  ASSUME IInv, NEW p \in Procs, Sole(p), Write(p)
  PROVE  Sole(p)'
<1>1. CASE InstallPayload(p) \/ RemovePayload(p) \/ CheckPackage(p) \/ WriteHost(p)
  <2>1. /\ pc[p] \in {"package", "check", "host"}
        /\ pc'[p] \in {"package", "check", "host", "registry", "rollback"}
        /\ job' = job /\ reg' = reg /\ snap' = snap /\ disk'[Registry] = disk[Registry]
    BY <1>1, PackageStep
  <2>2. /\ pc[p] \in Unwritten /\ pc[p] \in Started /\ pc[p] \in Acting
        /\ pc'[p] \in (Unwritten \ {"artifacts?"}) \cup {"rollback"}
    BY <2>1 DEF Unwritten, Acting, Started, Loaded
  <2> QED BY <2>1, <2>2, SoleGoesOn
<1>2. CASE WriteRegistry(p)
  <2>1. /\ pc[p] = "registry" /\ pc'[p] \in {"status", "rollback"}
        /\ job' = job /\ reg' = reg /\ snap' = snap
        /\ disk'[Registry] \in {disk[Registry], NewRegistry(p)}
        /\ pc'[p] = "status" /\ disk'[Registry] # NewRegistry(p) => NewRegistry(p) = reg[p]
    BY <1>2, WriteRegistryStep
  <2>2. pc[p] \in Unwritten /\ pc[p] \in Started /\ pc[p] \in Acting /\ NewRegistry(p)' = NewRegistry(p)
    BY <2>1 DEF Unwritten, Acting, Started, Loaded, NewRegistry
  <2>3. /\ Integrations(disk[Registry]) = reg[p]
        /\ Integrations(snap[p][Registry]) = reg[p]
        /\ reg[p][job[p].sel] # None => reg[p][job[p].sel].config = job[p].config
    BY <2>2 DEF Sole
  <2>4. Integrations(NewRegistry(p)) = NewRegistry(p)
    BY <2>1, NewRegistryFits, RegIsItself DEF IInv
  <2>5. Integrations(disk'[Registry]) \in {reg[p], NewRegistry(p)}
    BY <2>1, <2>3, <2>4
  <2>6. pc'[p] = "status" => Integrations(disk'[Registry]) = NewRegistry(p)
    BY <2>1, <2>3, <2>4
  <2>7. pc'[p] \notin Unwritten
    BY <2>1 DEF Unwritten
  <2> QED BY <2>1, <2>2, <2>3, <2>5, <2>6, <2>7 DEF Sole
<1>3. CASE Report(p)
  <2>1. pc'[p] \in Ended
    BY <1>3, FinishOwn DEF Report, IInv, Ended
  <2> QED BY <2>1, SoleElsewhere
<1> QED BY <1>1, <1>2, <1>3 DEF Write

LEMMA ManageSole ==
  ASSUME IInv, NEW p \in Procs, Sole(p), Manage(p)
  PROVE  Sole(p)'
<1>1. CASE Begin(p)
  BY <1>1, BeginStep, SoleElsewhere
<1>2. CASE Kill(p)
  <2>1. pc'[p] \in Ended
    BY <1>2, FinishOwn DEF Kill, IInv, Ended
  <2> QED BY <2>1, SoleElsewhere
<1>3. CASE Rollback(p)
  <2>1. CASE pc'[p] \in Ended
    BY <2>1, SoleElsewhere
  <2>2. CASE pc'[p] \notin Ended
    <3>1. /\ pc[p] = "rollback" /\ disk'[Registry] \in {disk[Registry], snap[p][Registry]}
          /\ pc'[p] = "rollback" /\ job' = job /\ reg' = reg /\ snap' = snap
      BY <1>3, <2>2, RollbackStep
    <3>2. pc[p] \in Acting /\ pc[p] \in Started /\ NewRegistry(p)' = NewRegistry(p)
      BY <3>1 DEF Acting, Started, Loaded, NewRegistry
    <3>3. Integrations(disk'[Registry]) \in {reg[p], NewRegistry(p)}
      BY <3>1, <3>2 DEF Sole
    <3>4. pc'[p] \notin Unwritten
      BY <3>1 DEF Unwritten
    <3> QED BY <3>1, <3>2, <3>3, <3>4 DEF Sole
  <2> QED BY <2>1, <2>2
<1> QED BY <1>1, <1>2, <1>3, ReadSole, WriteSole DEF Manage

\* What a step makes of the registry: what it was, what the command has read,
\* or what it is to become.
LEMMA RegistryChanges ==
  ASSUME IInv, NEW p \in Procs, Sole(p), Manage(p)
  PROVE  \/ disk'[Registry] = disk[Registry]
         \/ pc[p] = "rollback" /\ Integrations(disk'[Registry]) = reg[p]
         \/ pc[p] = "registry" /\ Integrations(disk'[Registry]) = NewRegistry(p)
<1>1. CASE Begin(p) \/ Kill(p) \/ Read(p) \/ Report(p)
  BY <1>1 DEF Begin, Kill, Read, ReadRegistry, FindArtifacts, ProveOwned, LoadConfig, Snapshot,
              Report, Keep
<1>2. CASE InstallPayload(p) \/ RemovePayload(p) \/ CheckPackage(p) \/ WriteHost(p)
  BY <1>2, PackageStep
<1>3. CASE WriteRegistry(p)
  <2>1. pc[p] = "registry" /\ disk'[Registry] \in {disk[Registry], NewRegistry(p)}
    BY <1>3, WriteRegistryStep
  <2> QED BY <2>1, NewRegistryFits, RegIsItself DEF IInv
<1>4. CASE Rollback(p)
  <2>1. pc[p] = "rollback" /\ disk'[Registry] \in {disk[Registry], snap[p][Registry]}
    BY <1>4, RollbackStep
  <2> QED BY <2>1 DEF Sole, Acting
<1> QED BY <1>1, <1>2, <1>3, <1>4 DEF Manage, Write

\* An entry never changes the configuration it names: it comes and goes.
LEMMA NewRegistryAt ==
  ASSUME IInv, NEW p \in Procs, pc[p] \in {"registry", "status", "rollback"}, Sole(p)
  PROVE  /\ \A s \in Selectors \ {job[p].sel} : NewRegistry(p)[s] = reg[p][s]
         /\ job[p].verb # "install" => IsOff(NewRegistry(p)[job[p].sel])
         /\ \A s \in Selectors : NewRegistry(p)[s] # None /\ reg[p][s] # None =>
               NewRegistry(p)[s].config = reg[p][s].config
<1> DEFINE s == job[p].sel
           v == NewRegistry(p)
<1>1. /\ Typed /\ Plan(p) /\ pc[p] \in Started /\ pc[p] \in Loaded /\ pc[p] \notin Ended
      /\ job[p] \in Jobs /\ reg[p] \in Registries /\ s \in Selectors
  BY DEF IInv, Typed, Started, Loaded, Acting, Ended, Jobs, Regs
<1>2. reg[p][s] # None => reg[p][s].config = job[p].config
  BY <1>1 DEF Sole
<1>3. CASE job[p].verb = "install"
  <2>1. v = [reg[p] EXCEPT ![s] = [config |-> job[p].config, enabled |-> TRUE]]
    BY <1>3 DEF NewRegistry
  <2> QED BY <1>1, <1>2, <1>3, <2>1 DEF Registries
<1>4. CASE job[p].verb = "disable"
  <2>1. v = [reg[p] EXCEPT ![s] = [@ EXCEPT !.enabled = FALSE]]
    BY <1>4 DEF NewRegistry
  <2>2. reg[p][s] \in Entries
    BY <1>1, <1>4 DEF Plan, Registries
  <2>3. /\ [reg[p][s] EXCEPT !.enabled = FALSE].config = reg[p][s].config
        /\ [reg[p][s] EXCEPT !.enabled = FALSE].enabled = FALSE
    BY <2>2 DEF Entries
  <2> QED BY <1>1, <2>1, <2>3 DEF Registries, IsOff
<1>5. CASE job[p].verb = "uninstall"
  <2>1. v = [reg[p] EXCEPT ![s] = None]
    BY <1>5 DEF NewRegistry
  <2> QED BY <1>1, <2>1 DEF Registries, IsOff
<1>6. job[p].verb \in {"install", "disable", "uninstall"}
  BY <1>1 DEF Jobs, Verbs
<1> QED BY <1>3, <1>4, <1>5, <1>6

LEMMA ConfigStays ==
  ASSUME IInv, NEW p \in Procs, Sole(p), Manage(p), NEW s \in Selectors,
         Entry(s) # None, Entry(s)' # None
  PROVE  Entry(s)'.config = Entry(s).config
<1>1. CASE disk'[Registry] = disk[Registry]
  BY <1>1 DEF Entry
<1>2. CASE pc[p] = "rollback" /\ Integrations(disk'[Registry]) = reg[p]
  <2>1. Integrations(disk[Registry]) \in {reg[p], NewRegistry(p)}
    BY <1>2 DEF Sole
  <2> QED BY <1>2, <2>1, NewRegistryAt DEF Entry
<1>3. CASE pc[p] = "registry" /\ Integrations(disk'[Registry]) = NewRegistry(p)
  <2>1. Integrations(disk[Registry]) = reg[p]
    BY <1>3 DEF Sole, Unwritten
  <2> QED BY <1>3, <2>1, NewRegistryAt DEF Entry
<1> QED BY <1>1, <1>2, <1>3, RegistryChanges

-----------------------------------------------------------------------------
(* What has been switched off stays off. *)

\* The history moves only with a command.
LEMMA WatchIdle ==
  ASSUME pc' = pc, Watch
  PROVE  off' = off
<1>1. SwitchedOff = {}
  BY DEF SwitchedOff
<1>2. SwitchedOn = {}
  <2>1. "registry?" \notin Ended
    BY DEF Ended
  <2> QED BY <2>1 DEF SwitchedOn
<1> QED BY <1>1, <1>2 DEF Watch

\* Steps of the user and of calls.
LEMMA IdleOffInv ==
  ASSUME OffInv, IInv', UNCHANGED <<pc, job, reg, snap>>, disk'[Registry] = disk[Registry], off' = off
  PROVE  OffInv'
<1>1. \A p \in Procs : Sole(p)'
  BY DEF OffInv, SInv, Sole, NewRegistry
<1>2. \A s \in off : IsOff(Entry(s))'
  BY DEF OffInv, IsOff, Entry
<1>3. \A p \in Procs : Heeds(p)'
  BY DEF OffInv, Heeds, IsOff
<1> QED BY <1>1, <1>2, <1>3 DEF OffInv, SInv

\* Whose command switches what off or on.
LEMMA Switches ==
  ASSUME OneAtATime, NEW p \in Procs
  PROVE  /\ \A s \in SwitchedOff : /\ job[p].sel = s /\ job[p].verb # "install"
                                   /\ \/ pc[p] = "status" /\ pc'[p] = "ok"
                                      \/ pc[p] = "artifacts?" /\ pc'[p] = "nothing"
         /\ pc[p] \in Ended /\ pc'[p] = "registry?" /\ job'[p].verb = "install" /\ job'[p].sel \in Selectors =>
               job'[p].sel \in SwitchedOn
BY DEF OneAtATime, SwitchedOff, SwitchedOn

\* What the command has read is carried over to its next step.
LEMMA ReadOnceStep ==
  ASSUME IInv, NEW p \in Procs, Manage(p), pc'[p] \notin Ended, pc[p] \notin Ended
  PROVE  /\ job'[p].verb = job[p].verb /\ job'[p].sel = job[p].sel
         /\ pc[p] \in Started => reg'[p] = reg[p]
         /\ pc[p] \notin Started => reg'[p] = Integrations(disk[Registry])
<1>1. ~Begin(p)
  BY BeginStep
<1>2. ~Kill(p) /\ ~Report(p) /\ ~FindArtifacts(p)
  <2>1. Kill(p) \/ Report(p) \/ FindArtifacts(p) => \E how \in Ended : Finish(p, how)
    BY DEF Kill, Report, FindArtifacts, Ended
  <2> QED BY <2>1, FinishOwn DEF IInv
<1>3. CASE ReadRegistry(p)
  <2>1. pc[p] = "registry?"
    BY <1>3, ReadRegistryStep
  <2>2. pc[p] \notin Started
    BY <2>1 DEF Started, Loaded, Acting
  <2> QED BY <1>3, <2>2, ReadRegistryStep
<1>4. CASE ~ReadRegistry(p)
  <2>1. job' = job /\ reg' = reg /\ pc[p] \in {"owned?", "config?", "snapshot", "package", "check", "host",
                                               "registry", "rollback"}
    BY <1>1, <1>2, <1>4, OwnershipStep, SnapshotStep, PackageStep, WriteRegistryStep, RollbackStep
       DEF Manage, Read, Write
  <2>2. pc[p] \in Started
    BY <2>1 DEF Started, Loaded, Acting
  <2> QED BY <2>1, <2>2
<1> QED BY <1>3, <1>4

LEMMA ManageOffInv ==
  ASSUME OneAtATime, OffInv, IInv', NEW p \in Procs, Manage(p), Watch
  PROVE  OffInv'
<1>1. IInv /\ Sole(p) /\ Heeds(p) /\ \A q \in Procs : q = p
  BY DEF OffInv, SInv, OneAtATime
<1>2. off' = (off \cup SwitchedOff) \ SwitchedOn
  BY DEF Watch
<1>3. \A q \in Procs : Sole(q)'
  BY <1>1, ManageSole
<1>4. ASSUME NEW s \in off' PROVE IsOff(Entry(s))'
  <2>1. CASE s \in off
    <3>1. IsOff(Entry(s))
      BY <2>1 DEF OffInv
    <3>2. CASE disk'[Registry] = disk[Registry]
      BY <3>1, <3>2 DEF Entry, IsOff
    <3>3. CASE /\ pc[p] \in {"rollback", "registry"}
               /\ Integrations(disk'[Registry]) \in {reg[p], NewRegistry(p)}
               /\ pc[p] = "rollback" => Integrations(disk'[Registry]) = reg[p]
      <4>1. pc[p] \in Started /\ pc[p] \notin Ended
        BY <3>3 DEF Started, Loaded, Acting, Ended
      <4>2. IsOff(reg[p][s])
        BY <1>1, <2>1, <4>1 DEF Heeds
      <4>3. pc[p] = "registry" => IsOff(NewRegistry(p)[s])
        <5>1. CASE s = job[p].sel
          <6>1. job[p].verb # "install"
            BY <1>1, <2>1, <4>1, <5>1 DEF Heeds
          <6> QED BY <1>1, <5>1, <6>1, NewRegistryAt
        <5>2. CASE s # job[p].sel
          <6>1. s \in Selectors
            BY <2>1 DEF OffInv
          <6> QED BY <1>1, <4>2, <5>2, <6>1, NewRegistryAt
        <5> QED BY <5>1, <5>2
      <4>4. IsOff(Integrations(disk'[Registry])[s])
        BY <3>3, <4>2, <4>3
      <4> QED BY <4>4 DEF Entry, IsOff
    <3> QED BY <1>1, <3>2, <3>3, RegistryChanges
  <2>2. CASE s \in SwitchedOff
    <3>1. /\ job[p].sel = s /\ job[p].verb # "install"
          /\ \/ pc[p] = "status" /\ pc'[p] = "ok"
             \/ pc[p] = "artifacts?" /\ pc'[p] = "nothing"
      BY <2>2, Switches
    <3>2. disk'[Registry] = disk[Registry]
      BY <1>1, <3>1, RegistryChanges
    <3>3. CASE pc[p] = "status"
      <4>1. Integrations(disk[Registry]) = NewRegistry(p)
        BY <1>1, <3>3 DEF Sole
      <4> QED BY <1>1, <3>1, <3>2, <3>3, <4>1, NewRegistryAt DEF Entry, IsOff
    <3>4. CASE pc[p] = "artifacts?"
      <4>1. Integrations(disk[Registry]) = reg[p] /\ reg[p][s] = None
        BY <1>1, <3>1, <3>4 DEF Sole, Unwritten
      <4> QED BY <3>2, <4>1 DEF Entry, IsOff
    <3> QED BY <3>1, <3>3, <3>4
  <2> QED BY <1>2, <2>1, <2>2
<1>5. Heeds(p)'
  <2>1. CASE pc'[p] \in Ended
    BY <2>1, SoleElsewhere DEF Heeds
  <2>2. CASE pc[p] \in Ended /\ pc'[p] \notin Ended
    <3>1. Begin(p)
      <4>1. ~Kill(p)
        BY <2>2 DEF Kill
      <4>2. pc[p] \notin {"registry?", "artifacts?", "owned?", "config?", "snapshot",
                          "package", "check", "host", "registry", "status", "rollback"}
        BY <2>2 DEF Ended
      <4> QED BY <4>1, <4>2 DEF Manage, Read, Write, ReadRegistry, FindArtifacts, ProveOwned, LoadConfig,
            Snapshot, InstallPayload, RemovePayload, CheckPackage, WriteHost, WriteRegistry,
            Report, Rollback
    <3>2. pc'[p] = "registry?"
      BY <1>1, <3>1, BeginStep
    <3>3. job'[p].sel \in Selectors
      BY DEF IInv, Typed, Jobs
    <3>4. job'[p].verb = "install" => job'[p].sel \notin off'
      BY <1>2, <2>2, <3>2, <3>3, Switches
    <3> QED BY <3>2, <3>4, SoleElsewhere DEF Heeds
  <2>3. CASE pc[p] \notin Ended /\ pc'[p] \notin Ended
    <3>1. SwitchedOff = {}
      <4>1. "ok" \in Ended /\ "nothing" \in Ended
        BY DEF Ended
      <4> QED BY <2>3, <4>1, Switches
    <3>2. off' \subseteq off
      BY <1>2, <3>1
    <3>3. /\ job'[p].verb = job[p].verb /\ job'[p].sel = job[p].sel
          /\ pc[p] \in Started => reg'[p] = reg[p]
          /\ pc[p] \notin Started => reg'[p] = Integrations(disk[Registry])
      BY <1>1, <2>3, ReadOnceStep
    <3>4. \A s \in off : IsOff(Integrations(disk[Registry])[s])
      BY DEF OffInv, Entry, IsOff
    <3>5. \A s \in off' : IsOff(reg'[p][s])
      BY <1>1, <3>2, <3>3, <3>4 DEF Heeds
    <3>6. job'[p].verb = "install" => job'[p].sel \notin off'
      BY <1>1, <2>3, <3>2, <3>3 DEF Heeds
    <3> QED BY <3>5, <3>6 DEF Heeds, IsOff
  <2> QED BY <2>1, <2>2, <2>3
<1>6. \A q \in Procs : Heeds(q)'
  BY <1>1, <1>5
<1>7. off' \in SUBSET Selectors
  BY <1>2 DEF OffInv, SwitchedOff
<1> QED BY <1>3, <1>4, <1>6, <1>7 DEF OffInv, SInv

-----------------------------------------------------------------------------
(* The calls *)

LEMMA StepKeepsTypes == IInv /\ [HookNext]_hookVars => IInv'
<1> SUFFICES ASSUME IInv, [HookNext]_hookVars PROVE IInv'
  OBVIOUS
<1>1. CASE Next
  BY <1>1, StepIInv
<1>2. CASE EditOf(Paths)
  BY <1>2, EditIInv
<1>3. CASE UNCHANGED vars
  BY <1>3, StepIInv
<1> QED BY <1>1, <1>2, <1>3 DEF HookNext, hookVars

\* What a step of a call does: it changes that call only, and no file.
LEMMA ExecuteTypes ==
  ASSUME TInv, NEW c \in Calls, Execute(c)
  PROVE  /\ call' \in [Calls -> [at : Steps, mode : Modes, class : Classes,
                                 entries : SUBSET (Selectors \X (Configs \cup {None}))]]
         /\ \A d \in Calls \ {c} : call'[d] = call[d]
<1> DEFINE R == [at : Steps, mode : Modes, class : Classes,
                 entries : SUBSET (Selectors \X (Configs \cup {None}))]
<1>1. /\ call \in [Calls -> R] /\ call[c] \in R
      /\ {"idle", "registry?", "hosts?", "shims?", "cli?", "child"} \cup Answered \subseteq Steps
      /\ "denied" \in Answered
  BY DEF TInv, CallTypes, Steps, Answered
<1>2. ASSUME NEW how \in Answered, Answer(c, how)
      PROVE  call' \in [Calls -> R] /\ \A d \in Calls \ {c} : call'[d] = call[d]
  <2>1. [NoCall EXCEPT !.at = how] \in R
    BY <1>1 DEF NoCall, Modes, Classes
  <2> QED BY <1>1, <1>2, <2>1 DEF Answer
<1>3. ASSUME NEW r \in R, call' = [call EXCEPT ![c] = r]
      PROVE  call' \in [Calls -> R] /\ \A d \in Calls \ {c} : call'[d] = call[d]
  BY <1>1, <1>3
<1>4. CASE Invoke(c) \/ FindShims(c) \/ FindCli(c) \/ RunChild(c) \/ FindRegistration(c)
  <2>1. CASE \E how \in Answered : Answer(c, how)
    BY <1>2, <2>1
  <2>2. CASE Invoke(c) /\ ~\E how \in Answered : Answer(c, how)
    <3>1. PICK mode \in Modes, class \in Classes :
            call' = [call EXCEPT ![c] =
                    [at |-> IF class = "route" THEN "registry?" ELSE "cli?",
                     mode |-> mode, class |-> class, entries |-> {}]]
      BY <1>1, <2>2 DEF Invoke, Deny
    <3>2. [at |-> IF class = "route" THEN "registry?" ELSE "cli?",
           mode |-> mode, class |-> class, entries |-> {}] \in R
      BY <1>1
    <3> QED BY <1>3, <3>1, <3>2
  <2>3. CASE Accept(c)
    <3>1. call' = [call EXCEPT ![c] = [call[c] EXCEPT !.at = "cli?", !.entries = {}]]
      BY <1>1, <2>3 DEF Accept
    <3>2. [call[c] EXCEPT !.at = "cli?", !.entries = {}] \in R
      BY <1>1
    <3> QED BY <1>3, <3>1, <3>2
  <2>4. CASE Move(c, "child")
    <3>1. call' = [call EXCEPT ![c] = [call[c] EXCEPT !.at = "child"]]
      BY <2>4 DEF Move
    <3>2. [call[c] EXCEPT !.at = "child"] \in R
      BY <1>1
    <3> QED BY <1>3, <3>1, <3>2
  <2>5. CASE \E entry \in call[c].entries : call' = [call EXCEPT ![c].entries = call[c].entries \ {entry}]
    <3>1. PICK entry \in call[c].entries :
            call' = [call EXCEPT ![c] = [call[c] EXCEPT !.entries = call[c].entries \ {entry}]]
      BY <2>5
    <3>2. [call[c] EXCEPT !.entries = call[c].entries \ {entry}] \in R
      BY <1>1
    <3> QED BY <1>3, <3>1, <3>2
  <2> QED BY <1>1, <1>4, <2>1, <2>2, <2>3, <2>4, <2>5
       DEF FindShims, FindCli, RunChild, FindRegistration, Deny
<1>5. CASE FindEntries(c)
  <2>1. CASE Answer(c, "denied")
    BY <1>1, <1>2, <2>1
  <2>2. CASE ~Answer(c, "denied")
    <3> DEFINE on  == {s \in Of(call[c].mode) : Entry(s) # None /\ Entry(s).enabled}
               es  == {<<s, Entry(s).config>> : s \in on}
               l   == IF call[c].mode = "path-shim" THEN "shims?" ELSE "hosts?"
    <3>1. call' = [call EXCEPT ![c] = [call[c] EXCEPT !.at = l, !.entries = es]]
      BY <1>1, <1>5, <2>2 DEF FindEntries, Deny
    <3>2. es \in SUBSET (Selectors \X (Configs \cup {None}))
      <4>1. ASSUME NEW s \in on PROVE s \in Selectors /\ Entry(s).config \in Configs \cup {None}
        <5>1. s \in Selectors
          BY DEF Of, Selectors
        <5>2. Entry(s) \in Entries
          <6>1. disk[Registry] \in Regs \cup {None}
            BY PathFacts, FitFacts DEF TInv, IInv, Typed, Files
          <6>2. Integrations(disk[Registry]) \in Registries
            BY <6>1, IntegrationsFit DEF Regs
          <6> QED BY <5>1, <6>2 DEF Entry, Registries
        <5> QED BY <5>1, <5>2 DEF Entries
      <4> QED BY <4>1
    <3> HIDE DEF es
    <3>3. [call[c] EXCEPT !.at = l, !.entries = es] \in R
      BY <1>1, <3>2
    <3> QED BY <1>3, <3>1, <3>3
  <2> QED BY <2>1, <2>2
<1> QED BY <1>4, <1>5 DEF Execute

LEMMA StepTInv == TInv /\ [HookNext]_hookVars => TInv'
<1> SUFFICES ASSUME TInv, [HookNext]_hookVars PROVE TInv'
  OBVIOUS
<1>1. IInv'
  BY StepKeepsTypes DEF TInv
<1>2. CASE UNCHANGED hookVars
  BY <1>1, <1>2 DEF TInv, CallTypes, hookVars
<1>3. CASE HookNext
  <2>1. call' \in [Calls -> [at : Steps, mode : Modes, class : Classes,
                             entries : SUBSET (Selectors \X (Configs \cup {None}))]]
    <3>1. CASE UNCHANGED call
      BY <3>1 DEF TInv, CallTypes
    <3>2. CASE \E c \in Calls : Execute(c)
      BY <3>2, ExecuteTypes
    <3> QED BY <1>3, <3>1, <3>2 DEF HookNext
  <2>2. off' \in SUBSET Selectors
    BY <1>3 DEF TInv, CallTypes, HookNext, Watch, SwitchedOff
  <2>3. steady' \in [Calls -> SUBSET Selectors]
    <3>1. steady' = [c \in Calls |->
                      {s \in IF CallAt(c, "idle") THEN Of(call'[c].mode) ELSE steady[c] :
                            call'[c].class = "route" /\ Enforced(s)'}]
      BY <1>3 DEF HookNext, Watch
    <3>2. ASSUME NEW c \in Calls
          PROVE  (IF CallAt(c, "idle") THEN Of(call'[c].mode) ELSE steady[c]) \subseteq Selectors
      BY DEF TInv, CallTypes, Of, Selectors
    <3> QED BY <3>1, <3>2
  <2>4. live' \in [Calls -> BOOLEAN]
    BY <1>3 DEF HookNext, Watch
  <2> QED BY <1>1, <2>1, <2>2, <2>3, <2>4 DEF TInv, CallTypes
<1> QED BY <1>2, <1>3

LEMMA InitTInv == HookInit => TInv
<1> SUFFICES ASSUME HookInit PROVE TInv
  OBVIOUS
<1>1. IInv
  BY InitIInv DEF HookInit
<1>2. NoCall \in [at : Steps, mode : Modes, class : Classes,
                  entries : SUBSET (Selectors \X (Configs \cup {None}))]
  BY DEF NoCall, Steps, Modes, Classes
<1> QED BY <1>1, <1>2 DEF HookInit, TInv, CallTypes

\* A call that does not take part in a step.
LEMMA CallWaits ==
  ASSUME HInv, Watch, NEW c \in Calls, call'[c] = call[c],
         \A s \in Selectors : Entry(s) # None /\ Entry(s)' # None => Entry(s)'.config = Entry(s).config
  PROVE  Routed(c)' /\ Served(c)'
<1>1. Routed(c) /\ Served(c) /\ steady[c] \in SUBSET Selectors
  BY DEF HInv, CallTypes
<1>2. call[c].class = "route" => ~CallAt(c, "idle")
  BY <1>1 DEF Routed, Looking, CallAt
<1>3. Routed(c)'
  <2>1. call[c].class = "route" /\ live[c] => live'[c]
    BY DEF Watch
  <2> QED BY <1>1, <2>1 DEF Routed
<1>4. ASSUME NEW s \in steady'[c]
      PROVE  /\ s \in Of(call'[c].mode) /\ Enforced(s)'
             /\ call'[c].at = "hosts?" => <<s, Entry(s)'.config>> \in call'[c].entries
  <2>1. s \in steady[c] /\ Enforced(s)'
    BY <1>2 DEF Watch
  <2>2. Entry(s)' # None /\ Entry(s) # None /\ s \in Selectors
    BY <1>1, <2>1 DEF Enforced, Served
  <2> QED BY <1>1, <2>1, <2>2 DEF Served
<1> QED BY <1>3, <1>4 DEF Served

\* A call that was denied, or has ended.
LEMMA CallEnds ==
  ASSUME HInv, Watch, NEW c \in Calls, NEW how \in Answered, Answer(c, how)
  PROVE  Routed(c)' /\ Served(c)'
<1>1. call'[c].at = how /\ call'[c].class = "deny"
  BY DEF HInv, CallTypes, Answer, NoCall
<1>2. steady'[c] = {}
  BY <1>1 DEF Watch
<1>3. how \notin Looking
  BY DEF Answered, Looking
<1> QED BY <1>1, <1>2, <1>3 DEF Routed, Served, Looking

\* Every other step of a call that began to look before.
LEMMA CallGoesOn ==
  ASSUME HInv, Watch, UNCHANGED vars, NEW c \in Calls, Routed(c), Served(c),
         call[c].at \notin {"idle", "child"}
  PROVE  \A s \in steady'[c] : s \in steady[c] /\ s \in Of(call[c].mode) /\ Enforced(s)'
BY DEF Watch, CallAt, Served

LEMMA InvokeCall ==
  ASSUME HInv, Watch, UNCHANGED vars, NEW c \in Calls, Invoke(c)
  PROVE  Routed(c)' /\ Served(c)'
<1>1. CASE Deny(c)
  BY <1>1, CallEnds DEF Deny, Answered
<1>2. CASE ~Deny(c)
  <2>1. PICK mode \in Modes, class \in Classes :
          call' = [call EXCEPT ![c] =
                  [at |-> IF class = "route" THEN "registry?" ELSE "cli?",
                   mode |-> mode, class |-> class, entries |-> {}]]
    BY <1>2 DEF Invoke
  <2>2. /\ call'[c].at = IF class = "route" THEN "registry?" ELSE "cli?"
        /\ call'[c].class = class
    BY <2>1 DEF HInv, CallTypes
  <2>3. \A s \in steady'[c] : s \in Of(call'[c].mode) /\ Enforced(s)'
    BY DEF Invoke, Watch
  <2> QED BY <2>2, <2>3 DEF Routed, Served, Looking
<1> QED BY <1>1, <1>2

LEMMA FindEntriesCall ==
  ASSUME HInv, Watch, off' = off, UNCHANGED vars, NEW c \in Calls, FindEntries(c)
  PROVE  /\ Routed(c)' /\ Served(c)'
         /\ call'[c].at = "denied" => steady[c] = {}
<1> DEFINE on == {s \in Of(call[c].mode) : Entry(s) # None /\ Entry(s).enabled}
           es == {<<s, Entry(s).config>> : s \in on}
           l  == IF call[c].mode = "path-shim" THEN "shims?" ELSE "hosts?"
<1>1. Routed(c) /\ Served(c) /\ call[c].at = "registry?" /\ call[c].class = "route"
  BY DEF HInv, FindEntries, CallAt, Routed, Looking
<1>2. \A s \in steady[c] : s \in on
  BY <1>1 DEF Served, Enforced
<1>3. CASE on = {}
  <2>1. Answer(c, "denied")
    BY <1>3 DEF FindEntries, Deny
  <2> QED BY <1>2, <1>3, <2>1, CallEnds DEF Answered
<1>4. CASE on # {}
  <2>1. call' = [call EXCEPT ![c] = [call[c] EXCEPT !.at = l, !.entries = es]]
    BY <1>4 DEF FindEntries
  <2> HIDE DEF es, l
  <2>2. call'[c].at = l /\ call'[c].entries = es /\ call'[c].class = "route" /\ call'[c].mode = call[c].mode
    BY <1>1, <2>1 DEF HInv, CallTypes
  <2>3. PICK s \in on : TRUE
    BY <1>4
  <2>4. s \in Of(call[c].mode) /\ s \notin off
    BY <2>3 DEF HInv, OffInv, IsOff
  <2>5. live'[c]
    BY <2>2, <2>4 DEF Watch
  <2>6. Routed(c)'
    BY <2>2, <2>5 DEF Routed, Looking, l
  <2>7. \A t \in steady'[c] : t \in steady[c] /\ t \in Of(call[c].mode) /\ Enforced(t)'
    BY <1>1, CallGoesOn
  <2>8. ASSUME NEW t \in steady'[c] PROVE <<t, Entry(t)'.config>> \in es
    <3>1. t \in on /\ Entry(t)' = Entry(t)
      BY <1>2, <2>7 DEF vars, Entry
    <3> QED BY <3>1 DEF es
  <2>9. l # "denied"
    BY DEF l
  <2> QED BY <2>2, <2>6, <2>7, <2>8, <2>9 DEF Served
<1> QED BY <1>3, <1>4

LEMMA AcceptCall ==
  ASSUME HInv, Watch, UNCHANGED vars, NEW c \in Calls, call[c].at \in {"shims?", "hosts?"}, Accept(c)
  PROVE  Routed(c)' /\ Served(c)' /\ call'[c].at # "denied"
<1>1. Routed(c) /\ Served(c) /\ live[c] /\ call[c].class = "route"
  BY DEF HInv, Routed, Looking
<1>2. call' = [call EXCEPT ![c] = [call[c] EXCEPT !.at = "cli?", !.entries = {}]]
  BY DEF Accept
<1>3. call'[c].at = "cli?" /\ call'[c].class = "route" /\ call'[c].mode = call[c].mode
  BY <1>1, <1>2 DEF HInv, CallTypes
<1>4. live'[c]
  BY <1>1, <1>3 DEF Watch
<1>5. \A s \in steady'[c] : s \in steady[c] /\ s \in Of(call[c].mode) /\ Enforced(s)'
  BY <1>1, CallGoesOn
<1> QED BY <1>3, <1>4, <1>5 DEF Routed, Served, Looking

LEMMA FindShimsCall ==
  ASSUME HInv, Watch, UNCHANGED vars, NEW c \in Calls, FindShims(c)
  PROVE  /\ Routed(c)' /\ Served(c)'
         /\ call'[c].at = "denied" => steady[c] = {}
<1>1. Routed(c) /\ Served(c) /\ call[c].at = "shims?" /\ call[c].mode = "path-shim"
  BY DEF HInv, FindShims, CallAt, Routed
<1>2. CASE \A x \in Shims : disk[x] \in Owned
  BY <1>1, <1>2, AcceptCall DEF FindShims
<1>3. CASE ~\A x \in Shims : disk[x] \in Owned
  <2>1. ASSUME NEW s \in steady[c] PROVE FALSE
    <3>1. s = PathShim /\ Enforced(s)
      BY <1>1 DEF Served, Of
    <3> QED BY <1>3, <3>1 DEF Enforced, Package
  <2>2. Answer(c, "denied")
    BY <1>3 DEF FindShims, Deny
  <2> QED BY <2>1, <2>2, CallEnds DEF Answered
<1> QED BY <1>2, <1>3

LEMMA FindRegistrationCall ==
  ASSUME HInv, Watch, UNCHANGED vars, NEW c \in Calls, FindRegistration(c)
  PROVE  /\ Routed(c)' /\ Served(c)'
         /\ call'[c].at = "denied" => steady[c] = {}
<1>1. /\ Routed(c) /\ Served(c) /\ call[c].at = "hosts?" /\ call[c].mode = "pretooluse"
      /\ call[c].class = "route" /\ live[c]
  <2>1. call[c].mode \in Modes /\ call[c].at = "hosts?" /\ Routed(c) /\ Served(c)
    BY DEF HInv, CallTypes, FindRegistration, CallAt
  <2> QED BY <2>1 DEF Routed, Modes, Looking
<1>2. PICK entry \in call[c].entries :
        LET left == call[c].entries \ {entry} IN
        IF Registered(entry[1], entry[2]) /\ disk[Adapter] \in Owned THEN Accept(c)
        ELSE IF left = {} THEN Deny(c)
        ELSE call' = [call EXCEPT ![c].entries = left]
  BY DEF FindRegistration
<1>3. CASE Registered(entry[1], entry[2]) /\ disk[Adapter] \in Owned
  BY <1>1, <1>2, <1>3, AcceptCall
<1>4. CASE ~(Registered(entry[1], entry[2]) /\ disk[Adapter] \in Owned)
  <2> DEFINE left == call[c].entries \ {entry}
  <2>1. ASSUME NEW s \in steady[c] PROVE <<s, Entry(s).config>> \in left
    <3>1. s \in Hosts /\ Enforced(s) /\ <<s, Entry(s).config>> \in call[c].entries
      BY <1>1 DEF Served, Of
    <3>2. Registered(s, Entry(s).config) /\ disk[Adapter] \in Owned
      BY <3>1, HookConstants DEF Enforced, Package
    <3>3. <<s, Entry(s).config>> # entry
      BY <1>4, <3>2
    <3> QED BY <3>1, <3>3
  <2>2. CASE left = {}
    <3>1. Answer(c, "denied")
      BY <1>2, <1>4, <2>2 DEF Deny
    <3> QED BY <2>1, <2>2, <3>1, CallEnds DEF Answered
  <2>3. CASE left # {}
    <3>1. call' = [call EXCEPT ![c] = [call[c] EXCEPT !.entries = left]]
      BY <1>2, <1>4, <2>3
    <3> HIDE DEF left
    <3>2. /\ call'[c].at = "hosts?" /\ call'[c].class = "route" /\ call'[c].mode = call[c].mode
          /\ call'[c].entries = left
      BY <1>1, <3>1 DEF HInv, CallTypes
    <3>3. live'[c]
      BY <1>1, <3>2 DEF Watch
    <3>4. \A s \in steady'[c] : s \in steady[c] /\ s \in Of(call[c].mode) /\ Enforced(s)'
      BY <1>1, CallGoesOn
    <3>5. \A s \in steady'[c] : <<s, Entry(s)'.config>> \in left
      BY <2>1, <3>4 DEF vars, Entry
    <3>6. call[c].mode # "path-shim"
      BY <1>1
    <3> QED BY <3>2, <3>3, <3>4, <3>5, <3>6 DEF Routed, Served, Looking
  <2> QED BY <2>2, <2>3
<1> QED BY <1>3, <1>4

LEMMA FindCliCall ==
  ASSUME HInv, Watch, UNCHANGED vars, NEW c \in Calls, FindCli(c)
  PROVE  Routed(c)' /\ Served(c)'
<1>1. CASE Deny(c)
  BY <1>1, CallEnds DEF Deny, Answered
<1>2. CASE Move(c, "child")
  <2>1. Routed(c) /\ Served(c) /\ call[c].at = "cli?"
    BY DEF HInv, FindCli, CallAt
  <2>2. call' = [call EXCEPT ![c] = [call[c] EXCEPT !.at = "child"]]
    BY <1>2 DEF Move
  <2>3. call'[c].at = "child" /\ call'[c].class = call[c].class /\ call'[c].mode = call[c].mode
    BY <2>1, <2>2 DEF HInv, CallTypes
  <2>4. call[c].class = "route" => live'[c]
    BY <2>1, <2>3 DEF Watch, Routed
  <2>5. \A s \in steady'[c] : s \in steady[c] /\ s \in Of(call[c].mode) /\ Enforced(s)'
    BY <2>1, CallGoesOn
  <2> QED BY <2>3, <2>4, <2>5 DEF Routed, Served, Looking
<1> QED BY <1>1, <1>2 DEF FindCli

\* The calls while one step is taken by one of them.
LEMMA ExecuteCalls ==
  ASSUME HInv, Watch, off' = off, UNCHANGED vars, NEW c \in Calls, Execute(c)
  PROVE  \A d \in Calls : Routed(d)' /\ Served(d)'
<1>1. ASSUME NEW d \in Calls, d # c PROVE Routed(d)' /\ Served(d)'
  <2>1. call'[d] = call[d]
    BY <1>1, ExecuteTypes DEF HInv, OffInv, SInv, TInv
  <2>2. \A s \in Selectors : Entry(s)' = Entry(s)
    BY DEF vars, Entry
  <2> QED BY <2>1, <2>2, CallWaits
<1>2. Routed(c)' /\ Served(c)'
  <2>1. CASE RunChild(c)
    BY <2>1, CallEnds DEF RunChild
  <2> QED BY <2>1, InvokeCall, FindEntriesCall, FindShimsCall, FindRegistrationCall, FindCliCall
       DEF Execute
<1> QED BY <1>1, <1>2

LEMMA InitHInv == HookInit => HInv
<1> SUFFICES ASSUME HookInit PROVE HInv
  OBVIOUS
<1>1. TInv
  BY InitTInv
<1>2. \A p \in Procs : pc[p] = "idle"
  BY DEF HookInit, Init
<1>3. \A p \in Procs : Sole(p) /\ Heeds(p)
  BY <1>2 DEF Sole, Heeds, Unwritten, Acting, Started, Loaded, Ended
<1>4. \A s \in off : IsOff(Entry(s))
  BY DEF HookInit, IsOff
<1>5. \A c \in Calls : call[c].at = "idle" /\ call[c].class = "deny" /\ steady[c] = {}
  BY DEF HookInit, NoCall
<1>6. \A c \in Calls : Routed(c) /\ Served(c)
  BY <1>5 DEF Routed, Served, Looking
<1> QED BY <1>1, <1>3, <1>4, <1>6 DEF HInv, OffInv, SInv, TInv, CallTypes

LEMMA StepHInv ==
  ASSUME OneAtATime, HInv, [HookNext]_hookVars
  PROVE  HInv'
<1>1. TInv'
  BY StepTInv DEF HInv, OffInv, SInv, TInv
<1>2. CASE UNCHANGED hookVars
  <2>1. OffInv'
    BY <1>1, <1>2, IdleOffInv DEF TInv, hookVars, vars, locals, HInv
  <2>2. \A c \in Calls : Routed(c)' /\ Served(c)'
    BY <1>2 DEF HInv, hookVars, vars, Routed, Served, Enforced, Registered, Entry
  <2> QED BY <1>1, <2>1, <2>2 DEF HInv, TInv
<1>3. CASE Watch /\ \E c \in Calls : Execute(c) /\ UNCHANGED vars
  <2>1. pc' = pc /\ UNCHANGED <<job, reg, snap>> /\ disk' = disk /\ off' = off
    BY <1>3, WatchIdle DEF vars
  <2>2. OffInv'
    BY <1>1, <2>1, IdleOffInv DEF TInv, HInv
  <2>3. \A c \in Calls : Routed(c)' /\ Served(c)'
    BY <1>3, <2>1, ExecuteCalls
  <2> QED BY <1>1, <2>2, <2>3 DEF HInv, TInv
<1>4. ASSUME NEW files, EditOf(files), UNCHANGED call, Watch PROVE HInv'
  <2>1. UNCHANGED <<pc, job, reg, snap>> /\ off' = off
    <3>1. UNCHANGED <<pc, locals, todo>>
      BY <1>4 DEF EditOf
    <3> QED BY <1>4, <3>1, WatchIdle DEF locals
  <2>2. disk'[Registry] = disk[Registry]
    <3>1. PICK x \in Configs \cup Payloads : \E v : disk' = [disk EXCEPT ![x] = v]
      BY <1>4 DEF EditOf
    <3>2. disk \in [Paths -> Contents]
      BY DEF HInv, OffInv, SInv, IInv, Typed, Files
    <3> QED BY <3>1, <3>2, PathFacts
  <2>3. OffInv'
    BY <1>1, <2>1, <2>2, IdleOffInv DEF TInv, HInv
  <2>4. \A s \in Selectors : Entry(s)' = Entry(s)
    BY <2>2 DEF Entry
  <2>5. \A c \in Calls : Routed(c)' /\ Served(c)'
    BY <1>4, <2>4, CallWaits
  <2> QED BY <1>1, <2>3, <2>5 DEF HInv, TInv
<1>5. ASSUME NEW p \in Procs, Manage(p), UNCHANGED call, Watch PROVE HInv'
  <2>1. OffInv'
    BY <1>1, <1>5, ManageOffInv DEF TInv, HInv
  <2>2. \A s \in Selectors : Entry(s) # None /\ Entry(s)' # None => Entry(s)'.config = Entry(s).config
    BY <1>5, ConfigStays DEF HInv, OffInv, SInv
  <2>3. \A c \in Calls : Routed(c)' /\ Served(c)'
    BY <1>5, <2>2, CallWaits
  <2> QED BY <1>1, <2>1, <2>3 DEF HInv, TInv
<1> QED BY <1>2, <1>3, <1>4, <1>5 DEF HookNext, Next, Edit

-----------------------------------------------------------------------------
(* Theorems *)

\* The variables of the calls keep their types, however many commands and calls
\* there are: a call has only entries to try that a registry can hold.
THEOREM HookCallTypes == HookSpec => []HookTypeOK
<1>1. TInv => HookTypeOK
  <2>1. Regs \subseteq Registries /\ Files \subseteq [Paths -> Contents]
    BY DEF Regs, Files
  <2>2. IInv => TypeOK
    BY <2>1 DEF IInv, Typed, TypeOK
  <2> QED BY <2>2 DEF TInv, CallTypes, HookTypeOK
<1> QED BY <1>1, InitTInv, StepTInv, PTL DEF HookSpec

\* While one command after the other runs, each may fail or be killed at any
\* step, no call moves anything for a mode that was switched off all the time of
\* the call, whatever mixture of old and new files it has read (hook.py,
\* _integration_is_registered against _disable and _uninstall).
THEOREM OffIsDenied ==
  ASSUME OneAtATime
  PROVE  HookSpec => []OffMeansDenied
<1>1. HInv => OffMeansDenied
  <2>1. "child" # "registry?"
    OBVIOUS
  <2> QED BY <2>1 DEF HInv, Routed, OffMeansDenied, CallAt
<1>2. HInv /\ [HookNext]_hookVars => HInv'
  BY StepHInv
<1> QED BY <1>1, <1>2, InitHInv, PTL DEF HookSpec

\* And no call is told that nothing is registered if an integration of its mode
\* was enforced all the time: commands on other integrations, or one that repeats
\* an install, never turn a deletion down.
THEOREM SteadyCallsServed ==
  ASSUME OneAtATime
  PROVE  HookSpec => SteadyIsServed
<1> DEFINE Right(c) ==
      /\ call[c].at \in {"registry?", "hosts?", "shims?"} /\ call'[c].at = "denied"
      => steady[c] = {}
<1>1. HInv /\ HookNext => \A c \in Calls : Right(c)
  <2> SUFFICES ASSUME HInv, HookNext, NEW c \in Calls,
                      call[c].at \in {"registry?", "hosts?", "shims?"}, call'[c].at = "denied"
               PROVE  steady[c] = {}
    OBVIOUS
  <2>1. PICK d \in Calls : Execute(d) /\ UNCHANGED vars
    <3>1. call' # call
      OBVIOUS
    <3> QED BY <3>1 DEF HookNext
  <2>2. d = c
    BY <2>1, ExecuteTypes DEF HInv, OffInv, SInv, TInv
  <2>3. Watch /\ off' = off
    BY <2>1, WatchIdle DEF HookNext, vars
  <2>4. FindEntries(c) \/ FindShims(c) \/ FindRegistration(c)
    BY <2>1, <2>2 DEF Execute, Invoke, FindCli, RunChild, CallAt
  <2> QED BY <2>1, <2>3, <2>4, FindEntriesCall, FindShimsCall, FindRegistrationCall
<1>2. HInv /\ [HookNext]_hookVars => HInv'
  BY StepHInv
<1>3. HInv /\ [HookNext]_hookVars => [\A c \in Calls : Right(c)]_hookVars
  BY <1>1
<1> QED BY <1>2, <1>3, InitHInv, PTL DEF HookSpec, SteadyIsServed

-----------------------------------------------------------------------------
(* The decision: what the scan knows after i tokens. *)

\* Every set of numbers has a least element.
LEMMA LeastOf ==
  ASSUME NEW T \in SUBSET Nat, T # {}
  PROVE  \E m \in T : \A n \in T : m <= n
<1> DEFINE R == {ss \in Nat \X Nat : ss[1] < ss[2]}
<1>1. IsWellFoundedOn(R, Nat)
  BY NatLessThanWellFounded, Zenon DEF OpToRel
<1>2. \A x, y \in Nat : y < x => <<y, x>> \in R
  OBVIOUS
<1> HIDE DEF R
<1>3. PICK m \in T : \A n \in T : ~(<<n, m>> \in R)
  BY <1>1, WFMin, Zenon
<1>4. \A n \in T : n \in Nat /\ m \in Nat /\ ~(n < m)
  BY <1>2, <1>3
<1> QED BY <1>4

\* A set that is entered at 0 and never left holds every number up to n.
LEMMA UpTo ==
  ASSUME NEW n \in Nat, NEW S, 0 \in S, \A i \in 0..n : i < n /\ i \in S => i + 1 \in S
  PROVE  \A i \in 0..n : i \in S
<1> DEFINE T == (0..n) \ S
<1> SUFFICES ASSUME T # {} PROVE FALSE
  OBVIOUS
<1>1. PICK m \in T : \A i \in T : m <= i
  <2>1. T \in SUBSET Nat
    OBVIOUS
  <2> HIDE DEF T
  <2> QED BY <2>1, LeastOf
<1>2. m # 0 /\ m - 1 \in 0..n /\ m - 1 < n /\ m - 1 \notin T
  BY <1>1
<1> QED BY <1>1, <1>2

Accs == [mode : {"options", "operands", "delimited", "unsupported"}, operands : Seq(Tokens)]
Blank == [mode |-> "options", operands |-> <<>>]

LEMMA ScanType ==
  ASSUME NEW cmd, NEW acc \in Accs, NEW token \in Tokens
  PROVE  Scan(cmd, acc, token) \in Accs
<1>1. Append(acc.operands, token) \in Seq(Tokens)
  BY DEF Accs
<1> QED BY <1>1 DEF Scan, Accs

\* The recursion of the scan.
LEMMA ScannedIs ==
  ASSUME NEW cmd, NEW argv \in Seq(Tokens)
  PROVE  /\ Scanned(cmd, argv)[0] = Blank
         /\ \A i \in 1..Len(argv) :
              Scanned(cmd, argv)[i] = Scan(cmd, Scanned(cmd, argv)[i - 1], argv[i])
<1> DEFINE n == Len(argv)
           Rest(g, i) == IF i = 0 THEN Blank ELSE Scan(cmd, g[i - 1], argv[i])
           Solves(g, m) == g = [i \in 0..m |-> Rest(g, i)]
           T == {m \in 0..n : \E g : Solves(g, m)}
<1>0. n \in Nat
  OBVIOUS
<1> HIDE DEF n
<1>1. 0 \in T
  <2> DEFINE z == [i \in 0..0 |-> Blank]
  <2>1. z = [i \in 0..0 |-> Rest(z, i)]
    OBVIOUS
  <2>2. 0 \in 0..n
    BY <1>0
  <2> HIDE DEF Rest, z
  <2> QED BY <2>1, <2>2
<1>2. ASSUME NEW m \in 0..n, m < n, m \in T PROVE m + 1 \in T
  <2>1. PICK g : Solves(g, m)
    BY <1>2
  <2> DEFINE h == [i \in 0..m + 1 |-> IF i = m + 1 THEN Scan(cmd, g[m], argv[m + 1]) ELSE g[i]]
  <2>2. /\ h[m + 1] = Scan(cmd, g[m], argv[m + 1]) /\ \A i \in 0..m : h[i] = g[i]
        /\ m + 1 \in 0..n /\ m + 1 # 0
    BY <1>0, <1>2
  <2>3. h = [i \in 0..m + 1 |-> h[i]]
    OBVIOUS
  <2> HIDE DEF h
  <2>4. ASSUME NEW i \in 0..m + 1 PROVE h[i] = Rest(h, i)
    <3>1. CASE i = m + 1
      <4>1. i # 0 /\ i - 1 = m /\ m \in 0..m
        BY <1>2, <3>1
      <4> QED BY <2>2, <3>1, <4>1
    <3>2. CASE i # m + 1
      <4>1. i \in 0..m /\ (i # 0 => i - 1 \in 0..m)
        BY <1>2, <3>2
      <4>2. g[i] = Rest(g, i)
        BY <2>1, <4>1
      <4> QED BY <2>2, <4>1, <4>2
    <3> QED BY <3>1, <3>2
  <2>5. Solves(h, m + 1)
    <3> HIDE DEF Rest
    <3> QED BY <2>3, <2>4
  <2> HIDE DEF Solves
  <2> QED BY <2>2, <2>5
<1>3. n \in T
  <2> HIDE DEF T
  <2>1. \A i \in 0..n : i < n /\ i \in T => i + 1 \in T
    BY <1>2
  <2>2. \A i \in 0..n : i \in T
    BY <1>0, <1>1, <2>1, UpTo
  <2> QED BY <1>0, <2>2
<1>4. PICK g : Solves(g, n)
  BY <1>3
<1> DEFINE f == Scanned(cmd, argv)
<1>5. f = CHOOSE x : Solves(x, n)
  BY DEF Scanned, n, Blank
<1> HIDE DEF f
<1>6. Solves(f, n)
  <2> HIDE DEF Solves
  <2> QED BY <1>4, <1>5
<1>7. 0 \in 0..n /\ \A i \in 1..n : i \in 0..n /\ i # 0
  BY <1>0
<1>8. f[0] = Blank /\ \A i \in 1..n : f[i] = Scan(cmd, f[i - 1], argv[i])
  BY <1>6, <1>7, Zenon
<1> QED BY <1>8 DEF f, n

LEMMA FirstDelimiterIs ==
  ASSUME NEW argv \in Seq(Tokens)
  PROVE  /\ FirstDelimiter(argv) \in 1..Len(argv) + 1
         /\ FirstDelimiter(argv) <= Len(argv) => argv[FirstDelimiter(argv)] = Delimiter
         /\ \A i \in 1..Len(argv) : i < FirstDelimiter(argv) => argv[i] # Delimiter
<1> DEFINE D == {i \in DOMAIN argv : argv[i] = Delimiter}
           d == FirstDelimiter(argv)
<1>1. Len(argv) \in Nat /\ DOMAIN argv = 1..Len(argv)
  OBVIOUS
<1>2. D \in SUBSET Nat /\ \A i \in D : i \in 1..Len(argv)
  BY <1>1
<1>3. d = IF D = {} THEN Len(argv) + 1 ELSE CHOOSE i \in D : \A j \in D : i <= j
  BY DEF FirstDelimiter
<1> HIDE DEF d
<1>4. CASE D = {}
  BY <1>1, <1>3, <1>4 DEF d
<1>5. CASE D # {}
  <2> HIDE DEF D
  <2>1. \E i \in D : \A j \in D : i <= j
    BY <1>2, <1>5, LeastOf
  <2>2. d \in D /\ \A j \in D : d <= j
    BY <1>3, <1>5, <2>1
  <2> USE DEF D
  <2> QED BY <1>1, <1>2, <2>2 DEF d
<1> QED BY <1>4, <1>5

\* How many of the numbers in K are at most m.
Count(K, m) == Cardinality({j \in K : j <= m})

LEMMA Counting ==
  ASSUME NEW n \in Nat, NEW K \in SUBSET (1..n)
  PROVE  /\ \A m \in 0..n : Count(K, m) \in Nat
         /\ Count(K, 0) = 0
         /\ \A m \in 1..n : Count(K, m) = IF m \in K THEN Count(K, m - 1) + 1 ELSE Count(K, m - 1)
         /\ \A m, q \in 0..n : m <= q => Count(K, m) <= Count(K, q)
<1> DEFINE S(m) == {j \in K : j <= m}
<1>1. IsFiniteSet(1..n)
  BY FS_Interval
<1>2. \A m \in 0..n : S(m) \in SUBSET (1..n)
  OBVIOUS
<1>3. \A m \in 0..n : IsFiniteSet(S(m)) /\ Cardinality(S(m)) \in Nat
  <2> HIDE DEF S
  <2> QED BY <1>1, <1>2, FS_Subset, FS_CardinalityType
<1>0. \A j \in K : j \in 1..n /\ j \in Int /\ j > 0
  OBVIOUS
<1>4. S(0) = {}
  <2>1. \A j \in K : ~(j <= 0)
    BY <1>0
  <2> QED BY <2>1, Zenon
<1>5. ASSUME NEW m \in 1..n
      PROVE  m - 1 \in 0..n /\ m \notin S(m - 1) /\ S(m) = IF m \in K THEN S(m - 1) \cup {m} ELSE S(m - 1)
  <2>1. m \in Int /\ m - 1 \in 0..n /\ ~(m <= m - 1)
    OBVIOUS
  <2>2. \A j \in K : j <= m <=> (j <= m - 1 \/ j = m)
    BY <1>0, <2>1
  <2> QED BY <2>1, <2>2
<1>6. ASSUME NEW m \in 0..n, NEW q \in 0..n, m <= q PROVE S(m) \in SUBSET S(q)
  <2>1. \A j \in K : j <= m => j <= q
    BY <1>0, <1>6
  <2> QED BY <2>1
<1>7. \A m : Count(K, m) = Cardinality(S(m))
  BY DEF Count
<1> HIDE DEF S
<1>8. \A m \in 1..n : Cardinality(S(m)) = IF m \in K THEN Cardinality(S(m - 1)) + 1 ELSE Cardinality(S(m - 1))
  BY <1>3, <1>5, FS_AddElement
<1>9. \A m, q \in 0..n : m <= q => Cardinality(S(m)) <= Cardinality(S(q))
  BY <1>3, <1>6, FS_Subset
<1>10. Cardinality(S(0)) = 0
  BY <1>4, FS_EmptySet
<1> QED BY <1>3, <1>7, <1>8, <1>9, <1>10

KeptWords(argv) == {i \in DOMAIN argv : IsOperand(argv, i)}

\* The operands among the first i tokens.
Picked(argv, i) ==
    [k \in 1..Count(KeptWords(argv), i) |->
        argv[CHOOSE m \in KeptWords(argv) : Count(KeptWords(argv), m) = k]]

LEMMA PickedNext ==
  ASSUME NEW argv \in Seq(Tokens), NEW i \in 1..Len(argv), Picked(argv, i - 1) \in Seq(Tokens)
  PROVE  Picked(argv, i) = IF IsOperand(argv, i) THEN Append(Picked(argv, i - 1), argv[i])
                                                 ELSE Picked(argv, i - 1)
<1> DEFINE n == Len(argv)
           K == KeptWords(argv)
           c == Count(K, i - 1)
           s == Picked(argv, i - 1)
           at(k) == CHOOSE m \in K : Count(K, m) = k
<1>1. n \in Nat /\ K \in SUBSET (1..n) /\ (i \in K <=> IsOperand(argv, i))
  BY DEF KeptWords
<1>2. s = [k \in 1..c |-> argv[at(k)]] /\ Picked(argv, i) = [k \in 1..Count(K, i) |-> argv[at(k)]]
  BY DEF Picked
<1> HIDE DEF n, K
<1>3. /\ \A m \in 0..n : Count(K, m) \in Nat
      /\ \A m \in 1..n : Count(K, m) = IF m \in K THEN Count(K, m - 1) + 1 ELSE Count(K, m - 1)
      /\ \A m, q \in 0..n : m <= q => Count(K, m) <= Count(K, q)
  BY <1>1, Counting
<1>4. i \in 1..n /\ i - 1 \in 0..n /\ i \in 0..n /\ c \in Nat
  BY <1>1, <1>3 DEF n
<1>5. CASE i \notin K
  <2>1. Count(K, i) = c
    BY <1>3, <1>4, <1>5
  <2> QED BY <1>1, <1>2, <1>5, <2>1
<1>6. CASE i \in K
  <2>1. Count(K, i) = c + 1
    BY <1>3, <1>4, <1>6
  <2>2. ASSUME NEW m \in K, Count(K, m) = c + 1 PROVE m = i
    <3>1. m \in 1..n /\ m \in 0..n /\ m - 1 \in 0..n /\ Count(K, m) = Count(K, m - 1) + 1 /\ Count(K, m - 1) \in Nat
      BY <1>1, <1>3
    <3>2. CASE m < i
      <4>1. Count(K, m) <= c
        BY <1>3, <1>4, <3>1, <3>2
      <4> QED BY <1>3, <1>4, <2>2, <4>1
    <3>3. CASE i < m
      <4>1. c + 1 <= Count(K, m - 1)
        BY <1>3, <1>4, <2>1, <3>1, <3>3
      <4> QED BY <1>4, <2>2, <3>1, <4>1
    <3> QED BY <1>4, <3>1, <3>2, <3>3
  <2>3. at(c + 1) = i
    BY <1>6, <2>1, <2>2
  <2>4. Len(s) = c /\ \A k \in 1..c : s[k] = argv[at(k)]
    <3> HIDE DEF s, at, c
    <3> QED BY <1>2, <1>4
  <2>5. s \in Seq(Tokens) /\ argv[i] \in Tokens
    BY <1>4 DEF n
  <2> DEFINE x == argv[i]
             t == Append(s, x)
  <2>6. Len(t) = c + 1 /\ t[c + 1] = x /\ \A k \in 1..c : t[k] = s[k]
    <3> HIDE DEF s, x, c
    <3> QED BY <1>4, <2>4, <2>5
  <2>7. t = [k \in 1..c + 1 |-> t[k]]
    <3>1. t \in Seq(Tokens)
      BY <2>5
    <3> HIDE DEF t, c
    <3>2. t = [k \in 1..Len(t) |-> t[k]]
      BY <3>1
    <3> QED BY <2>6, <3>2
  <2> HIDE DEF t, s, at, c
  <2>8. \A k \in 1..c + 1 : t[k] = argv[at(k)]
    BY <1>4, <2>3, <2>4, <2>6
  <2>9. Picked(argv, i) = t
    BY <1>2, <2>1, <2>7, <2>8
  <2> QED BY <1>1, <1>6, <2>9 DEF t, s
<1> QED BY <1>5, <1>6

\* A word with a dash before the first "--" that ends the scan: it is not made
\* of the letters, or an operand stands before it.
Unknown(cmd, argv, j) ==
    /\ j < FirstDelimiter(argv) /\ argv[j] \in Dashed
    /\ ~(argv[j] \in Letters(cmd) /\ \A k \in 1..j : ~IsOperand(argv, k))

\* What the scan knows of the first i tokens.
HasSeen(cmd, argv, i, acc) ==
    IF \E j \in 1..i : Unknown(cmd, argv, j) THEN acc.mode = "unsupported"
    ELSE /\ acc.operands = Picked(argv, i)
         /\ acc.mode = IF FirstDelimiter(argv) <= i THEN "delimited"
                       ELSE IF \E k \in 1..i : IsOperand(argv, k) THEN "operands" ELSE "options"

LEMMA ScanKnows ==
  ASSUME NEW cmd, NEW argv \in Seq(Tokens), NEW i \in 1..Len(argv),
         NEW acc \in Accs, HasSeen(cmd, argv, i - 1, acc)
  PROVE  HasSeen(cmd, argv, i, Scan(cmd, acc, argv[i]))
<1> DEFINE D == FirstDelimiter(argv)
           x == argv[i]
           next == Scan(cmd, acc, x)
           stops(m) == \E j \in 1..m : Unknown(cmd, argv, j)
           kept(m) == \E k \in 1..m : IsOperand(argv, k)
<1>1. /\ i \in Nat /\ i >= 1 /\ i <= Len(argv) /\ Len(argv) \in Nat
      /\ x \in Tokens /\ D \in Nat /\ D >= 1 /\ D <= Len(argv) + 1
      /\ (D = i => x = Delimiter) /\ (i < D => x # Delimiter)
  BY FirstDelimiterIs
<1>2. \A k \in 1..i : k = i \/ k \in 1..(i - 1)
  BY <1>1
<1>3. \A k \in 1..(i - 1) : k \in 1..i
  BY <1>1
<1>4. i \in 1..i
  BY <1>1
<1>5. /\ stops(i) <=> stops(i - 1) \/ Unknown(cmd, argv, i)
      /\ kept(i) <=> kept(i - 1) \/ IsOperand(argv, i)
  BY <1>2, <1>3, <1>4
<1>6. Letters(cmd) \in SUBSET Dashed /\ Delimiter \in Dashed /\ Delimiter \notin Letters(cmd)
  BY DEF Letters, Dashed, Delimiter
<1>7. IsOperand(argv, i) <=> i > D \/ (i < D /\ x \notin Dashed)
  BY DEF IsOperand
<1>8. Unknown(cmd, argv, i) <=>
          i < D /\ x \in Dashed /\ ~(x \in Letters(cmd) /\ ~kept(i))
  BY DEF Unknown
<1>9. IF stops(i - 1) THEN acc.mode = "unsupported"
      ELSE /\ acc.operands = Picked(argv, i - 1)
           /\ acc.mode = IF D <= i - 1 THEN "delimited" ELSE IF kept(i - 1) THEN "operands" ELSE "options"
  BY DEF HasSeen
<1>10. acc.operands \in Seq(Tokens) /\ acc = [mode |-> acc.mode, operands |-> acc.operands]
  BY DEF Accs
<1>11. HasSeen(cmd, argv, i, next) <=>
          IF stops(i) THEN next.mode = "unsupported"
          ELSE /\ next.operands = Picked(argv, i)
               /\ next.mode = IF D <= i THEN "delimited" ELSE IF kept(i) THEN "operands" ELSE "options"
  BY DEF HasSeen
<1> SUFFICES IF stops(i) THEN next.mode = "unsupported"
             ELSE /\ next.operands = Picked(argv, i)
                  /\ next.mode = IF D <= i THEN "delimited" ELSE IF kept(i) THEN "operands" ELSE "options"
  BY <1>11
<1>12. CASE stops(i - 1)
  BY <1>5, <1>9, <1>12 DEF Scan
<1>13. CASE ~stops(i - 1)
  <2>1. Picked(argv, i) = IF IsOperand(argv, i) THEN Append(acc.operands, x) ELSE acc.operands
    BY <1>9, <1>10, <1>13, PickedNext
  <2> DEFINE b == stops(i - 1)
             bi == stops(i)
             k0 == kept(i - 1)
             ki == kept(i)
             p == Picked(argv, i)
             o == IsOperand(argv, i)
             u == Unknown(cmd, argv, i)
  <2>2. ~b /\ (bi <=> u) /\ (ki <=> k0 \/ o) /\ (o <=> i > D \/ (i < D /\ x \notin Dashed))
        /\ (u <=> i < D /\ x \in Dashed /\ ~(x \in Letters(cmd) /\ ~ki))
    BY <1>5, <1>7, <1>8, <1>13
  <2>3. acc.mode = IF D <= i - 1 THEN "delimited" ELSE IF k0 THEN "operands" ELSE "options"
    BY <1>9, <1>13
  <2>4. p = IF o THEN Append(acc.operands, x) ELSE acc.operands
    BY <2>1
  <2> HIDE DEF D, b, bi, k0, ki, p, o, u, x
  <2>5. CASE D <= i - 1
    <3>1. o /\ ~u /\ ki /\ acc.mode = "delimited" /\ D <= i
      BY <1>1, <2>2, <2>3, <2>5
    <3>2. next.mode = "delimited" /\ next.operands = Append(acc.operands, x)
      BY <1>10, <3>1 DEF Scan
    <3> HIDE DEF next
    <3> QED BY <2>2, <2>4, <3>1, <3>2 DEF bi, p
  <2>6. CASE D = i
    <3>1. ~o /\ ~u /\ acc.mode \notin {"delimited", "unsupported"} /\ D <= i /\ x = Delimiter
      BY <1>1, <2>2, <2>3, <2>6
    <3>2. next.mode = "delimited" /\ next.operands = acc.operands
      BY <1>10, <3>1 DEF Scan
    <3> HIDE DEF next
    <3> QED BY <2>2, <2>4, <3>1, <3>2 DEF bi, p
  <2>7. CASE i < D
    <3>1. ~(D <= i) /\ ~(D <= i - 1) /\ x # Delimiter
      BY <1>1, <2>7
    <3>2. CASE x \notin Dashed
      <4>1. o /\ ~u /\ ki /\ x \notin Letters(cmd) /\ acc.mode \in {"operands", "options"}
        BY <1>6, <2>2, <2>3, <2>7, <3>1, <3>2
      <4>2. next.mode = "operands" /\ next.operands = Append(acc.operands, x)
        BY <1>10, <3>1, <3>2, <4>1 DEF Scan
      <4> HIDE DEF next
      <4> QED BY <2>2, <2>4, <3>1, <4>1, <4>2 DEF bi, p, ki
    <3>3. CASE x \in Dashed
      <4>1. ~o /\ (ki <=> k0) /\ (u <=> ~(x \in Letters(cmd) /\ ~k0))
        BY <1>1, <2>2, <2>7, <3>3
      <4>2. acc.mode = IF k0 THEN "operands" ELSE "options"
        BY <2>3, <3>1
      <4>3. CASE u
        <5>1. ~(acc.mode = "options" /\ x \in Letters(cmd)) /\ acc.mode \notin {"delimited", "unsupported"}
          BY <4>1, <4>2, <4>3
        <5>2. next.mode = "unsupported"
          BY <1>10, <3>1, <3>3, <5>1 DEF Scan
        <5> HIDE DEF next
        <5> QED BY <2>2, <4>3, <5>2 DEF bi
      <4>4. CASE ~u
        <5>1. acc.mode = "options" /\ x \in Letters(cmd) /\ ~ki
          BY <4>1, <4>2, <4>4
        <5>2. next = acc
          BY <3>1, <5>1 DEF Scan
        <5> HIDE DEF next
        <5> QED BY <2>2, <2>4, <3>1, <4>1, <4>4, <5>1, <5>2 DEF bi, p, ki
      <4> QED BY <4>3, <4>4
    <3> QED BY <3>2, <3>3
  <2> QED BY <1>1, <2>5, <2>6, <2>7
<1> QED BY <1>12, <1>13

\* After the last token.
LEMMA ScanEnds ==
  ASSUME NEW cmd, NEW argv \in Seq(Tokens)
  PROVE  /\ Scanned(cmd, argv)[Len(argv)] \in Accs
         /\ HasSeen(cmd, argv, Len(argv), Scanned(cmd, argv)[Len(argv)])
<1> DEFINE n == Len(argv)
           f == Scanned(cmd, argv)
           T == {i \in 0..n : f[i] \in Accs /\ HasSeen(cmd, argv, i, f[i])}
<1>1. n \in Nat
  OBVIOUS
<1>2. f[0] = Blank /\ \A i \in 1..n : f[i] = Scan(cmd, f[i - 1], argv[i])
  BY ScannedIs
<1>3. 0 \in T
  <2>1. Blank \in Accs /\ Blank.operands = <<>> /\ Blank.mode = "options"
    BY DEF Blank, Accs
  <2>2. Picked(argv, 0) = <<>>
    <3>1. KeptWords(argv) \in SUBSET (1..n)
      BY DEF KeptWords
    <3>2. Count(KeptWords(argv), 0) = 0
      BY <1>1, <3>1, Counting
    <3> QED BY <3>2 DEF Picked
  <2>3. FirstDelimiter(argv) \in Nat /\ FirstDelimiter(argv) >= 1 /\ 1..0 = {}
    BY FirstDelimiterIs
  <2>4. HasSeen(cmd, argv, 0, Blank)
    BY <2>1, <2>2, <2>3 DEF HasSeen
  <2> HIDE DEF f
  <2> QED BY <1>1, <1>2, <2>1, <2>4
<1>4. ASSUME NEW i \in 0..n, i < n, i \in T PROVE i + 1 \in T
  <2>1. i + 1 \in 1..n /\ (i + 1) - 1 = i /\ i + 1 \in 0..n
    BY <1>1, <1>4
  <2>2. f[i + 1] = Scan(cmd, f[i], argv[i + 1])
    BY <1>2, <2>1
  <2>3. f[i] \in Accs /\ HasSeen(cmd, argv, i, f[i]) /\ argv[i + 1] \in Tokens
    BY <1>4, <2>1
  <2> HIDE DEF f
  <2>4. f[i + 1] \in Accs
    BY <2>2, <2>3, ScanType
  <2>5. HasSeen(cmd, argv, i + 1, f[i + 1])
    BY <2>1, <2>2, <2>3, ScanKnows
  <2> QED BY <2>1, <2>4, <2>5
<1>5. n \in T
  <2> HIDE DEF T
  <2>1. \A i \in 0..n : i < n /\ i \in T => i + 1 \in T
    BY <1>4
  <2>2. \A i \in 0..n : i \in T
    BY <1>1, <1>3, <2>1, UpTo
  <2> QED BY <1>1, <2>2
<1> QED BY <1>5

\* The decision of the adapter and of the shims on a command line of any
\* length (_classify_argv): the one getopt makes.  It routes exactly what the
\* command would delete, and denies what it does not understand.
THEOREM DecisionIsGetopt ==
  ASSUME NEW cmd, NEW argv \in Seq(Tokens)
  PROVE  Classify(cmd, argv) = AsGetopt(cmd, argv)
<1> DEFINE n == Len(argv)
           K == KeptWords(argv)
           acc == Scanned(cmd, argv)[n]
           D == FirstDelimiter(argv)
           stops == \E j \in 1..n : Unknown(cmd, argv, j)
           known == \A i \in Options(argv) :
                       argv[i] \in Letters(cmd) /\ \A j \in 1..i : ~IsOperand(argv, j)
           kept == Operands(argv)
<1>1. n \in Nat /\ DOMAIN argv = 1..n /\ K \in SUBSET (1..n)
  BY DEF KeptWords
<1>2. known <=> ~stops
  BY <1>1 DEF Unknown, Options
<1>3. kept = Picked(argv, n)
  <2>1. K = {i \in DOMAIN argv : IsOperand(argv, i)}
    BY DEF KeptWords
  <2>2. {j \in K : j <= n} = K
    BY <1>1
  <2>3. Cardinality(K) = Count(K, n)
    BY <2>2 DEF Count
  <2>4. Picked(argv, n) = [k \in 1..Cardinality(K) |-> argv[CHOOSE i \in K : Cardinality({j \in K : j <= i}) = k]]
    BY <2>3 DEF Picked, Count
  <2>5. kept = [k \in 1..Cardinality(K) |-> argv[CHOOSE i \in K : Cardinality({j \in K : j <= i}) = k]]
    BY <2>1 DEF Operands
  <2> QED BY <2>4, <2>5
<1>4. acc \in Accs /\ HasSeen(cmd, argv, n, acc)
  BY ScanEnds
<1>5. IF stops THEN acc.mode = "unsupported" ELSE acc.operands = kept /\ acc.mode # "unsupported"
  BY <1>3, <1>4 DEF HasSeen
<1>6. Classify(cmd, argv) =
        IF argv = <<"--help">> THEN [class |-> "probe", operands |-> <<>>]
        ELSE IF acc.mode = "unsupported" THEN [class |-> "deny", operands |-> <<>>]
        ELSE IF acc.operands = <<>> THEN [class |-> "probe", operands |-> <<>>]
        ELSE [class |-> "route", operands |-> acc.operands]
  BY DEF Classify
<1>7. AsGetopt(cmd, argv) =
        [class    |-> IF argv = <<"--help">> \/ (known /\ kept = <<>>) THEN "probe"
                      ELSE IF known THEN "route" ELSE "deny",
         operands |-> IF known THEN kept ELSE <<>>]
  BY DEF AsGetopt
<1>8. ASSUME argv = <<"--help">> PROVE stops
  <2>1. n = 1 /\ argv[1] = "--help" /\ 1 \in 1..n
    BY <1>8
  <2>2. argv[1] # Delimiter /\ argv[1] \in Dashed /\ argv[1] \notin Letters(cmd)
    BY <2>1 DEF Delimiter, Dashed, Letters
  <2>3. 1 < D
    <3>1. D \in 1..n + 1 /\ (D <= n => argv[D] = Delimiter)
      BY FirstDelimiterIs
    <3> QED BY <2>1, <2>2, <3>1
  <2> QED BY <2>1, <2>2, <2>3 DEF Unknown
<1> HIDE DEF stops, known, kept, acc, n
<1> QED BY <1>2, <1>5, <1>6, <1>7, <1>8

\* The same as the property of the specification: ClassifyIsGetopt.
THEOREM ClassifiedAsGetopt == HookSpec => []ClassifyIsGetopt
<1>1. ClassifyIsGetopt
  <2> SUFFICES ASSUME NEW cmd \in Executables, NEW argv \in BoundedSeq(Tokens, MaxTokens)
               PROVE  Classify(cmd, argv) = AsGetopt(cmd, argv)
    BY DEF ClassifyIsGetopt
  <2>1. PICK m \in 0..MaxTokens : argv \in [1..m -> Tokens]
    BY DEF BoundedSeq, SeqOf
  <2>2. argv \in Seq(Tokens)
    BY <2>1
  <2> QED BY <2>2, DecisionIsGetopt
<1> QED BY <1>1, PTL
=============================================================================
