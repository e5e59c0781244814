------------------------- MODULE HookRegistryProofs -------------------------
(***************************************************************************)
(* Theorems about HookRegistry, for any number of processes, hosts and     *)
(* bounds: the types, and that no step of a command changes what is not    *)
(* its own.                                                                *)
(*                                                                         *)
(* Nothing is locked, so the argument is about what a command knows: a     *)
(* file that nobody else has changed since the command began differs from  *)
(* what it has read, and from its snapshot, only in what is its own.       *)
(***************************************************************************)
EXTENDS HookRegistry, TLAPS

\* The configuration that an entry of a selector names, and what each path can hold.
ConfigOf(s) == IF s = PathShim THEN {None} ELSE Configs
Regs == {r \in Registries : \A s \in Selectors : r[s] # None => r[s].config \in ConfigOf(s)}
Fit(x) ==
    IF x = Registry THEN Regs \cup {None}
    ELSE IF x \in Configs THEN ConfigObjects \cup {None, Broken}
    ELSE Owned \cup {None, Foreign}
Files == {d \in [Paths -> Contents] : \A x \in Paths : d[x] \in Fit(x)}

\* The types, with files that hold what belongs at their path.
Typed ==
    /\ disk \in Files
    /\ pc \in [Procs -> Ended \cup Phases]
    /\ job \in [Procs -> Jobs]
    /\ reg \in [Procs -> Regs]
    /\ cfg \in [Procs -> ConfigObjects \cup {None}]
    /\ snap \in [Procs -> Files]
    /\ expect \in [Procs -> Files]
    /\ \A p \in Procs : \A x \in Payloads : expect[p][x] # Foreign
    /\ todo \in [Procs -> SUBSET Paths]
    /\ bad \in [Procs -> BOOLEAN]
    /\ touched \in [Procs -> SUBSET Paths]
    /\ budget \in [{"jobs", "kills", "faults", "edits", "upsets"} -> Nat]
    /\ budget.edits <= MaxEdits

\* The labels past the reading of the registry, of the configuration, and the
\* snapshot.
Acting  == {"package", "check", "host", "registry", "status", "rollback"}
Loaded  == {"snapshot"} \cup Acting
Started == {"artifacts?", "owned?", "config?"} \cup Loaded

\* What a command is about to do at each label.
Plan(p) == pc[p] \notin Ended =>
    /\ job[p].config \in ConfigOf(job[p].sel)
    /\ pc[p] = "check" => job[p].verb = "install"
    /\ pc[p] \in {"config?", "host"} => job[p].sel \in Hosts
    /\ pc[p] \in {"owned?", "config?"} \cup Loaded /\ job[p].verb # "install" =>
          reg[p][job[p].sel] # None
    /\ pc[p] = "package" => todo[p] \subseteq Package(job[p].sel)
    /\ pc[p] = "rollback" => todo[p] \subseteq Managed(job[p])

\* A registry with the entries of others as p has read them, and a
\* configuration with the user's part as p has read it.
SameOthers(p, r) == \A s \in Selectors \ {job[p].sel} : Integrations(r)[s] = reg[p][s]
SameUser(p, v)   == UserPart(v, EventKey[job[p].sel]) = UserPart(cfg[p], EventKey[job[p].sel])

KnowsRegistry(p) == Registry \notin touched[p] =>
    /\ pc[p] \in Started => SameOthers(p, disk[Registry])
    /\ pc[p] \in Acting  => SameOthers(p, snap[p][Registry])

KnowsConfig(p) == job[p].sel \in Hosts /\ job[p].config \notin touched[p] =>
    /\ pc[p] \in Loaded => SameUser(p, disk[job[p].config])
    /\ pc[p] \in Acting => SameUser(p, snap[p][job[p].config])

KnowsPayloads(p) == pc[p] \in Acting =>
    \A x \in Package(job[p].sel) \ touched[p] : disk[x] = Foreign => snap[p][x] = Foreign

Knows(p) == KnowsRegistry(p) /\ KnowsConfig(p) /\ KnowsPayloads(p)

IInv == Typed /\ \A p \in Procs : Plan(p) /\ Knows(p)

-----------------------------------------------------------------------------
(* Facts about the constants *)

LEMMA PathFacts ==
    /\ Registry \in Paths /\ Registry \notin Configs /\ Registry \notin Payloads
    /\ \A c \in Configs : c \in Paths /\ c # Registry /\ c \notin Payloads
    /\ \A x \in Payloads : x \in Paths
    /\ \A j \in Jobs : Package(j.sel) \subseteq Payloads
BY HookConstants DEF Paths, Payloads, Package

LEMMA ManagedFacts ==
  ASSUME NEW j \in Jobs, j.config \in ConfigOf(j.sel)
  PROVE  /\ Managed(j) \subseteq Paths
         /\ \A x \in Managed(j) : x = Registry \/ x \in Package(j.sel) \/ (x = j.config /\ j.sel \in Hosts)
         /\ Registry \in Managed(j) /\ Package(j.sel) \subseteq Managed(j)
         /\ j.sel \in Hosts => j.config \in Managed(j) /\ j.config \in Configs
<1>1. j.sel \in Hosts => j.config \in Configs
  BY HookConstants DEF ConfigOf
<1>2. j.sel \in Hosts \/ j.config = None
  BY DEF ConfigOf, Jobs, Selectors
<1> QED BY <1>1, <1>2, PathFacts, HookConstants DEF Managed

LEMMA FitContents == \A x \in Paths : Fit(x) \subseteq Contents
BY DEF Fit, Contents, Regs, Owned

\* What can be written where.
LEMMA FitFacts ==
    /\ Fit(Registry) = Regs \cup {None}
    /\ \A c \in Configs : Fit(c) = ConfigObjects \cup {None, Broken}
    /\ \A x \in Payloads : Fit(x) = Owned \cup {None, Foreign}
BY PathFacts DEF Fit

LEMMA NothingFits == Nothing \in Files /\ \A x \in Payloads : Nothing[x] # Foreign
<1>1. \A x \in Paths : None \in Fit(x)
  BY DEF Fit
<1>2. Nothing \in [Paths -> Contents]
  BY DEF Nothing, Contents
<1>3. \A x \in Payloads : Nothing[x] # Foreign
  BY PathFacts, HookConstants DEF Nothing
<1> QED BY <1>1, <1>2, <1>3 DEF Nothing, Files

LEMMA WriteFits ==
  ASSUME NEW d \in Files, NEW x \in Paths, NEW v \in Fit(x)
  PROVE  [d EXCEPT ![x] = v] \in Files
BY FitContents DEF Files

\* No registry at all is a registry without entries.
LEMMA IntegrationsFit == \A r \in Regs \cup {None} : Integrations(r) \in Regs
<1>1. ASSUME NEW r \in Regs PROVE Integrations(r) \in Regs
  BY <1>1, NoneIsNothing DEF Integrations, Regs
<1>2. Integrations(None) \in Regs
  BY DEF Integrations, Regs, Registries
<1> QED BY <1>1, <1>2

LEMMA RegIsItself == \A r \in Regs : Integrations(r) = r
BY NoneIsNothing DEF Integrations, Regs

LEMMA EndedOrPhase == Ended \cap Phases = {} /\ Acting \subseteq Phases /\ Started \subseteq Phases /\ Loaded \subseteq Phases
BY DEF Ended, Phases, Acting, Loaded, Started

-----------------------------------------------------------------------------
LEMMA InstalledFits == \A S \in SUBSET Selectors : Installed(S) \in Files
<1> SUFFICES ASSUME NEW S \in SUBSET Selectors PROVE Installed(S) \in Files
  OBVIOUS
<1> DEFINE d == Installed(S)
<1>1. ASSUME NEW x \in Paths PROVE d[x] \in Fit(x)
  <2>1. CASE x \in Configs
    <3> DEFINE keys == {EventKey[h] : h \in {g \in S \cap Hosts : Home[g] = x}}
    <3>1. d[x] = IF keys = {} THEN None ELSE [user |-> 0, keys |-> keys]
      BY <2>1 DEF Installed
    <3>2. keys \in SUBSET EventKeys /\ 0 \in 0..MaxEdits
      BY HookConstants
    <3>3. [user |-> 0, keys |-> keys] \in ConfigObjects
      BY <3>2 DEF ConfigObjects
    <3> QED BY <2>1, <3>1, <3>3, FitFacts
  <2>2. CASE x = Registry
    <3> DEFINE r == [s \in Selectors |->
                     IF s \notin S THEN None
                     ELSE [config  |-> IF s = PathShim THEN None ELSE Home[s], enabled |-> TRUE]]
    <3>1. d[x] = IF S = {} THEN None ELSE r
      BY <2>2, PathFacts DEF Installed
    <3>2. ASSUME NEW s \in Selectors
          PROVE  r[s] \in Entries \cup {None} /\ (r[s] # None => r[s].config \in ConfigOf(s))
      <4>1. CASE s = PathShim
        BY <4>1 DEF Entries, ConfigOf
      <4>2. CASE s # PathShim
        <5>1. Home[s] \in Configs
          BY <4>2, HookConstants DEF Selectors
        <5> QED BY <4>2, <5>1 DEF Entries, ConfigOf
      <4> QED BY <4>1, <4>2
    <3>3. r \in Regs
      BY <3>2 DEF Regs, Registries
    <3> HIDE DEF r
    <3> QED BY <2>2, <3>1, <3>3, FitFacts
  <2>3. CASE x \in Payloads
    <3>1. d[x] = IF \E s \in S : x \in Package(s) THEN Old ELSE None
      BY <2>3, PathFacts DEF Installed
    <3> QED BY <2>3, <3>1, FitFacts DEF Owned
  <2> QED BY <2>1, <2>2, <2>3 DEF Paths
<1>2. d = [x \in Paths |-> d[x]]
  BY DEF Installed
<1>3. \A x \in Paths : d[x] \in Contents
  BY <1>1, FitContents
<1> HIDE DEF d
<1>4. d \in Files
  BY <1>1, <1>2, <1>3 DEF Files
<1> QED BY <1>4 DEF d

LEMMA InitIInv == Init => IInv
<1> SUFFICES ASSUME Init PROVE IInv
  OBVIOUS
<1>1. disk \in Files
  BY InstalledFits DEF Init
<1>2. Integrations(None) \in Regs
  BY IntegrationsFit
<1>3. NoJob \in Jobs
  BY DEF NoJob, Jobs, Verbs, Selectors
<1>4. budget \in [{"jobs", "kills", "faults", "edits", "upsets"} -> Nat] /\ budget.edits <= MaxEdits
  BY HookConstants DEF Init
<1>5. "idle" \in Ended
  BY DEF Ended
<1>6. Typed
  BY <1>1, <1>2, <1>3, <1>4, <1>5, NothingFits DEF Init, Typed
<1>7. ASSUME NEW p \in Procs PROVE Plan(p) /\ Knows(p)
  <2>1. pc[p] = "idle" /\ "idle" \notin Started /\ "idle" \notin Acting /\ "idle" \notin Loaded
    BY DEF Init, Started, Acting, Loaded
  <2> QED BY <1>5, <2>1 DEF Plan, Knows, KnowsRegistry, KnowsConfig, KnowsPayloads
<1> QED BY <1>6, <1>7 DEF IInv

-----------------------------------------------------------------------------
(* The pieces the steps are made of *)

\* What a step of p does to the variables of the commands: only p's change,
\* and they keep their types.
Own(p) ==
    /\ pc' \in [Procs -> Ended \cup Phases]
    /\ job' \in [Procs -> Jobs]
    /\ reg' \in [Procs -> Regs]
    /\ cfg' \in [Procs -> ConfigObjects \cup {None}]
    /\ snap' \in [Procs -> Files]
    /\ expect' \in [Procs -> Files]
    /\ \A q \in Procs : \A x \in Payloads : expect'[q][x] # Foreign
    /\ todo' \in [Procs -> SUBSET Paths]
    /\ bad' \in [Procs -> BOOLEAN]
    /\ \A q \in Procs \ {p} :
          /\ pc'[q] = pc[q] /\ job'[q] = job[q] /\ reg'[q] = reg[q]
          /\ cfg'[q] = cfg[q] /\ snap'[q] = snap[q] /\ todo'[q] = todo[q] /\ bad'[q] = bad[q]

\* What it does to the files: those of another command change only if that
\* command is told so.
World(p) ==
    /\ disk' \in Files
    /\ touched' \in [Procs -> SUBSET Paths]
    /\ \A q \in Procs \ {p} : pc'[q] \notin Ended =>
          /\ touched[q] \subseteq touched'[q]
          /\ \A x \in Managed(job[q]) \ touched'[q] : disk'[x] = disk[x]
    /\ pc'[p] \notin Ended => touched'[p] = touched[p]

LEMMA KeepWorld ==
  ASSUME Typed, NEW p \in Procs, Keep
  PROVE  World(p) /\ disk' = disk
BY DEF Keep, Disturb, World, Typed

LEMMA PutWorld ==
  ASSUME Typed, NEW p \in Procs, NEW x \in Paths, NEW v \in Fit(x), Put(p, x, v)
  PROVE  World(p) /\ disk' = [disk EXCEPT ![x] = v]
<1>1. disk' = [disk EXCEPT ![x] = v]
  BY DEF Put
<1>2. disk' \in Files
  BY <1>1, WriteFits DEF Typed
<1> DEFINE S == IF v = disk[x] THEN {} ELSE Procs \ {p}
<1>3. touched' = [q \in Procs |-> IF pc'[q] \in Ended THEN {}
                                  ELSE IF q \in S /\ x \in Managed(job[q]) THEN touched[q] \cup {x}
                                  ELSE touched[q]]
  BY DEF Put, Disturb
<1>4. touched' \in [Procs -> SUBSET Paths]
  BY <1>3 DEF Typed
<1>5. ASSUME NEW q \in Procs \ {p}, pc'[q] \notin Ended
      PROVE  /\ touched[q] \subseteq touched'[q]
             /\ \A y \in Managed(job[q]) \ touched'[q] : disk'[y] = disk[y]
  <2>1. touched[q] \subseteq touched'[q]
    BY <1>3, <1>5
  <2>2. ASSUME NEW y \in Managed(job[q]) \ touched'[q], disk'[y] # disk[y] PROVE FALSE
    <3>1. y = x /\ v # disk[x]
      BY <1>1, <2>2 DEF Typed, Files
    <3>2. q \in S
      BY <3>1
    <3> QED BY <1>3, <1>5, <2>2, <3>1, <3>2
  <2> QED BY <2>1, <2>2
<1>6. pc'[p] \notin Ended => touched'[p] = touched[p]
  BY <1>3
<1> QED BY <1>1, <1>2, <1>4, <1>5, <1>6 DEF World

\* What a step of p leaves of the knowledge of the others.
LEMMA OthersKnow ==
  ASSUME IInv, NEW p \in Procs, Own(p), World(p), NEW q \in Procs \ {p}
  PROVE  Plan(q)' /\ Knows(q)'
<1>1. /\ pc'[q] = pc[q] /\ job'[q] = job[q] /\ reg'[q] = reg[q]
      /\ cfg'[q] = cfg[q] /\ snap'[q] = snap[q] /\ todo'[q] = todo[q]
  BY DEF Own
<1>2. Plan(q) /\ Knows(q)
  BY DEF IInv
<1>3. Plan(q)'
  BY <1>1, <1>2 DEF Plan, Managed
<1>4. CASE pc[q] \in Ended
  <2>1. pc'[q] \notin Started /\ pc'[q] \notin Acting /\ pc'[q] \notin Loaded
    BY <1>1, <1>4 DEF Ended, Started, Acting, Loaded
  <2> QED BY <1>3, <2>1 DEF Knows, KnowsRegistry, KnowsConfig, KnowsPayloads
<1>5. CASE pc[q] \notin Ended
  <2>1. /\ touched[q] \subseteq touched'[q]
        /\ \A x \in Managed(job[q]) \ touched'[q] : disk'[x] = disk[x]
    BY <1>1, <1>5 DEF World
  <2>2. job[q] \in Jobs /\ job[q].config \in ConfigOf(job[q].sel)
    BY <1>2, <1>5 DEF IInv, Typed, Plan
  <2>3. /\ Registry \in Managed(job[q]) /\ Package(job[q].sel) \subseteq Managed(job[q])
        /\ job[q].sel \in Hosts => job[q].config \in Managed(job[q])
    BY <2>2, ManagedFacts
  <2>4. KnowsRegistry(q)'
    BY <1>1, <1>2, <2>1, <2>3 DEF Knows, KnowsRegistry, SameOthers
  <2>5. KnowsConfig(q)'
    BY <1>1, <1>2, <2>1, <2>3 DEF Knows, KnowsConfig, SameUser
  <2>6. KnowsPayloads(q)'
    BY <1>1, <1>2, <2>1, <2>3 DEF Knows, KnowsPayloads
  <2> QED BY <1>3, <2>4, <2>5, <2>6 DEF Knows
<1> QED BY <1>4, <1>5

\* What belongs to others stays as it is.
Kept(p) ==
    /\ \/ Registry \in touched[p]
       \/ \A s \in Selectors \ {job[p].sel} : Entry(s)' = Entry(s)
    /\ \A c \in Configs \ touched[p] :
          \/ disk'[c] = disk[c]
          \/ /\ c = job[p].config
             /\ UserPart(disk'[c], EventKey[job[p].sel]) = UserPart(disk[c], EventKey[job[p].sel])
    /\ \A x \in Payloads \ touched[p] : disk[x] = Foreign => disk'[x] = Foreign

BudgetOK ==
    /\ budget' \in [{"jobs", "kills", "faults", "edits", "upsets"} -> Nat]
    /\ budget'.edits <= MaxEdits

ExpectOK == expect' \in [Procs -> Files] /\ \A q \in Procs : \A x \in Payloads : expect'[q][x] # Foreign

\* What every step of a command does.
Good(p) == Own(p) /\ World(p) /\ Plan(p)' /\ Knows(p)' /\ Kept(p) /\ BudgetOK

LEMMA StillKept == \A p \in Procs : disk' = disk => Kept(p)
BY DEF Kept, Entry

LEMMA BudgetKept ==
  ASSUME Typed, UNCHANGED budget \/ Upset("kills") \/ Upset("faults")
  PROVE  BudgetOK
<1>1. CASE UNCHANGED budget
  BY <1>1 DEF Typed, BudgetOK
<1>2. ASSUME NEW what \in {"kills", "faults"}, Upset(what) PROVE BudgetOK
  <2>1. budget[what] - 1 \in Nat /\ budget.upsets - 1 \in Nat
    <3>1. budget[what] \in Nat /\ budget.upsets \in Nat
      BY DEF Typed
    <3>2. budget[what] > 0 /\ budget.upsets > 0
      BY <1>2 DEF Upset
    <3> QED BY <3>1, <3>2
  <2>2. budget' = [budget EXCEPT ![what] = budget[what] - 1, !.upsets = budget.upsets - 1]
    BY <1>2 DEF Upset
  <2> QED BY <2>1, <2>2 DEF Typed, BudgetOK
<1> QED BY <1>1, <1>2

LEMMA SameExpect == Typed /\ UNCHANGED expect => ExpectOK
BY DEF Typed, ExpectOK

LEMMA SetExpect ==
  ASSUME Typed, NEW p \in Procs, NEW x \in Paths, NEW v \in Fit(x), x \in Payloads => v # Foreign,
         Expected(p, x, v)
  PROVE  ExpectOK
<1>1. expect' = [expect EXCEPT ![p] = [expect[p] EXCEPT ![x] = v]]
  BY DEF Expected, Typed
<1>2. [expect[p] EXCEPT ![x] = v] \in Files
  BY WriteFits DEF Typed
<1>3. expect' \in [Procs -> Files]
  BY <1>1, <1>2 DEF Typed
<1>4. \A y \in Payloads : [expect[p] EXCEPT ![x] = v][y] # Foreign
  BY PathFacts DEF Typed, Files
<1> QED BY <1>1, <1>3, <1>4 DEF Typed, ExpectOK

\* A command that ends has no plan and no knowledge.
LEMMA FinishOwn ==
  ASSUME Typed, NEW p \in Procs, NEW how \in Ended, Finish(p, how)
  PROVE  Own(p) /\ pc'[p] = how
<1>1. NoJob \in Jobs /\ Integrations(None) \in Regs
  BY IntegrationsFit DEF NoJob, Jobs, Verbs, Selectors
<1> QED BY <1>1, NothingFits DEF Finish, Goto, Visit, Own, Typed

LEMMA EndedKnows == \A p \in Procs : pc'[p] \in Ended => Plan(p)' /\ Knows(p)'
<1> SUFFICES ASSUME NEW p \in Procs, pc'[p] \in Ended PROVE Plan(p)' /\ Knows(p)'
  OBVIOUS
<1>1. pc'[p] \notin Started /\ pc'[p] \notin Acting /\ pc'[p] \notin Loaded
  BY DEF Ended, Started, Acting, Loaded
<1> QED BY <1>1 DEF Plan, Knows, KnowsRegistry, KnowsConfig, KnowsPayloads

LEMMA FinishGood ==
  ASSUME IInv, NEW p \in Procs, NEW how \in Ended, Finish(p, how), Keep, BudgetOK
  PROVE  Good(p)
<1>1. Typed
  BY DEF IInv
<1>2. Own(p) /\ pc'[p] \in Ended
  BY <1>1, FinishOwn
<1>3. World(p) /\ Kept(p)
  BY <1>1, KeepWorld, StillKept
<1> QED BY <1>2, <1>3, EndedKnows DEF Good

-----------------------------------------------------------------------------
(* The steps inside the transaction *)

\* The orders of the steps.
LEMMA AfterFacts ==
  ASSUME NEW j \in Jobs,
         NEW ph \in {"snapshot", "package", "check", "host", "registry"},
         ph = "package" => j.verb # "disable",
         ph = "check" => j.verb = "install"
  PROVE  /\ After(j, ph) \in {"package", "check", "host", "registry", "status"}
         /\ After(j, ph) = "package" => j.verb # "disable"
         /\ After(j, ph) = "check" => j.verb = "install"
         /\ After(j, ph) = "host" => j.sel \in Hosts
<1>1. j.verb \in {"install", "disable", "uninstall"} /\ (j.sel # PathShim => j.sel \in Hosts)
  BY DEF Jobs, Verbs, Selectors
<1>2. CASE j.verb = "install"
  BY <1>1, <1>2 DEF After, Following
<1>3. CASE j.verb = "disable"
  BY <1>1, <1>3 DEF After, Following
<1>4. CASE j.verb = "uninstall"
  BY <1>1, <1>4 DEF After, Following
<1> QED BY <1>1, <1>2, <1>3, <1>4

\* A step from one label of the transaction to another keeps what the command
\* has read.
Within(p) ==
    /\ Own(p) /\ Plan(p)' /\ pc'[p] \in Acting
    /\ job'[p] = job[p] /\ reg'[p] = reg[p] /\ cfg'[p] = cfg[p] /\ snap'[p] = snap[p]

LEMMA AdvanceWithin ==
  ASSUME IInv, NEW p \in Procs, pc[p] \in {"package", "check", "host", "registry"},
         pc[p] = "package" => job[p].verb # "disable", Advance(p), ExpectOK
  PROVE  Within(p)
<1>1. Typed /\ Plan(p) /\ job[p] \in Jobs /\ pc[p] \notin Ended /\ pc[p] \in Acting
  BY DEF IInv, Typed, Ended, Acting
<1> DEFINE next == After(job[p], pc[p])
<1>2. /\ next \in {"package", "check", "host", "registry", "status"}
      /\ next = "check" => job[p].verb = "install"
      /\ next = "host" => job[p].sel \in Hosts
  BY <1>1, AfterFacts DEF Plan
<1>3. next \in Acting /\ next \in Phases /\ next # "config?" /\ next # "rollback"
  BY <1>2 DEF Acting, Phases
<1>4. Package(job[p].sel) \subseteq Paths
  BY <1>1, PathFacts
<1> HIDE DEF next
<1>5. /\ pc' = [pc EXCEPT ![p] = next]
      /\ todo' = [todo EXCEPT ![p] = IF next = "package" THEN Package(job[p].sel) ELSE {}]
      /\ UNCHANGED <<job, reg, cfg, snap, bad>>
  BY DEF Advance, Goto, Visit, next
<1>6. Own(p)
  BY <1>1, <1>3, <1>4, <1>5 DEF Own, Typed, ExpectOK
<1>7. pc'[p] = next /\ (next = "package" => todo'[p] = Package(job[p].sel))
  BY <1>1, <1>5 DEF Typed
<1>8. pc[p] \in {"owned?", "config?"} \cup Loaded
  BY <1>1 DEF Loaded
<1>9. Plan(p)'
  BY <1>1, <1>2, <1>3, <1>5, <1>7, <1>8 DEF Plan
<1> QED BY <1>3, <1>5, <1>6, <1>7, <1>9 DEF Within

LEMMA UnwindWithin ==
  ASSUME IInv, NEW p \in Procs, pc[p] \in Acting, Unwind(p), ExpectOK
  PROVE  Within(p)
<1>1. Typed /\ Plan(p) /\ job[p] \in Jobs /\ pc[p] \notin Ended /\ pc[p] \in {"owned?", "config?"} \cup Loaded
  BY DEF IInv, Typed, Ended, Acting, Loaded
<1>2. Managed(job[p]) \subseteq Paths
  BY <1>1, ManagedFacts DEF Plan
<1>3. "rollback" \in Acting /\ "rollback" \in Phases
  BY DEF Acting, Phases
<1>4. /\ pc' = [pc EXCEPT ![p] = "rollback"]
      /\ todo' = [todo EXCEPT ![p] = Managed(job[p])]
      /\ UNCHANGED <<job, reg, cfg, snap, bad>>
  BY DEF Unwind, Goto, Visit
<1>5. Own(p)
  BY <1>1, <1>2, <1>3, <1>4 DEF Own, Typed, ExpectOK
<1>6. pc'[p] = "rollback" /\ todo'[p] = Managed(job[p])
  BY <1>1, <1>4 DEF Typed
<1>7. Plan(p)'
  BY <1>1, <1>4, <1>6 DEF Plan, Managed
<1> QED BY <1>3, <1>4, <1>5, <1>6, <1>7 DEF Within

LEMMA VisitedWithin ==
  ASSUME IInv, NEW p \in Procs, NEW x \in todo[p], pc[p] = "package", job[p].verb # "disable",
         Visited(p, x), ExpectOK
  PROVE  Within(p)
<1>1. CASE Advance(p)
  BY <1>1, AdvanceWithin
<1>2. CASE Visit(p, todo[p] \ {x}) /\ UNCHANGED <<pc, job, reg, cfg, snap, bad>>
  <2>1. Typed /\ Plan(p) /\ pc[p] \in Acting
    BY DEF IInv, Acting
  <2>2. todo' = [todo EXCEPT ![p] = todo[p] \ {x}]
    BY <1>2 DEF Visit
  <2>3. Own(p)
    BY <1>2, <2>1, <2>2 DEF Own, Typed, ExpectOK
  <2>4. todo'[p] = todo[p] \ {x}
    BY <2>1, <2>2 DEF Typed
  <2>5. Plan(p)'
    BY <1>2, <2>1, <2>4 DEF Plan
  <2> QED BY <1>2, <2>1, <2>3, <2>5 DEF Within
<1> QED BY <1>1, <1>2 DEF Visited

\* What a command may write over x: in a file that nobody else has changed it
\* leaves what is not its own.
Proper(p, x, v) ==
    /\ x \in Managed(job[p])
    /\ x \notin touched[p] =>
          /\ x = Registry => SameOthers(p, v)
          /\ x \in Configs => SameUser(p, v)
          /\ x \in Payloads => /\ v = Foreign => snap[p][x] = Foreign
                               /\ disk[x] = Foreign => v = Foreign

Careful(p) == \A x \in Paths : disk'[x] = disk[x] \/ Proper(p, x, disk'[x])

LEMMA KeepCareful == \A p \in Procs : Keep => Careful(p)
BY DEF Keep, Careful

LEMMA PutCareful ==
  ASSUME Typed, NEW p \in Procs, NEW x \in Paths, NEW v \in Fit(x), Proper(p, x, v), Put(p, x, v)
  PROVE  Careful(p) /\ World(p)
<1>1. World(p) /\ disk' = [disk EXCEPT ![x] = v]
  BY PutWorld
<1>2. disk \in [Paths -> Contents]
  BY DEF Typed, Files
<1>3. \A y \in Paths : disk'[y] = IF y = x THEN v ELSE disk[y]
  BY <1>1, <1>2
<1> QED BY <1>1, <1>3 DEF Careful

LEMMA CarefulKept ==
  ASSUME IInv, NEW p \in Procs, pc[p] \in Acting, Careful(p)
  PROVE  Kept(p)
<1>1. Typed /\ Plan(p) /\ Knows(p) /\ job[p] \in Jobs /\ pc[p] \notin Ended
  BY DEF IInv, Typed, Ended, Acting
<1>2. job[p].config \in ConfigOf(job[p].sel)
  BY <1>1 DEF Plan
<1>3. pc[p] \in Started /\ pc[p] \in Loaded
  BY DEF Started, Loaded
<1>4. ASSUME Registry \notin touched[p], NEW s \in Selectors \ {job[p].sel}
      PROVE  Entry(s)' = Entry(s)
  <2>1. Integrations(disk[Registry])[s] = reg[p][s]
    BY <1>1, <1>3, <1>4 DEF Knows, KnowsRegistry, SameOthers
  <2>2. disk'[Registry] = disk[Registry] \/ SameOthers(p, disk'[Registry])
    BY <1>4, PathFacts DEF Careful, Proper
  <2> QED BY <2>1, <2>2 DEF Entry, SameOthers
<1>5. ASSUME NEW c \in Configs \ touched[p], disk'[c] # disk[c]
      PROVE  /\ c = job[p].config
             /\ UserPart(disk'[c], EventKey[job[p].sel]) = UserPart(disk[c], EventKey[job[p].sel])
  <2>1. c \in Managed(job[p]) /\ SameUser(p, disk'[c])
    BY <1>5, PathFacts DEF Careful, Proper
  <2>2. c = job[p].config /\ job[p].sel \in Hosts
    BY <1>1, <1>2, <2>1, ManagedFacts, PathFacts
  <2>3. SameUser(p, disk[c])
    BY <1>1, <1>3, <1>5, <2>2 DEF Knows, KnowsConfig
  <2> QED BY <2>1, <2>2, <2>3 DEF SameUser
<1>6. ASSUME NEW x \in Payloads \ touched[p], disk[x] = Foreign
      PROVE  disk'[x] = Foreign
  BY <1>6, PathFacts DEF Careful, Proper
<1> QED BY <1>4, <1>5, <1>6 DEF Kept

LEMMA ActGood ==
  ASSUME IInv, NEW p \in Procs, pc[p] \in Acting, Within(p), World(p), Careful(p), BudgetOK
  PROVE  Good(p)
<1>1. Typed /\ Plan(p) /\ Knows(p) /\ job[p] \in Jobs /\ pc[p] \notin Ended /\ pc'[p] \notin Ended
  BY DEF IInv, Typed, Ended, Acting, Within
<1>2. /\ pc[p] \in Started /\ pc[p] \in Loaded
      /\ job[p].config \in ConfigOf(job[p].sel)
      /\ job'[p] = job[p] /\ reg'[p] = reg[p] /\ cfg'[p] = cfg[p] /\ snap'[p] = snap[p]
      /\ touched'[p] = touched[p]
  BY <1>1 DEF Started, Loaded, Within, World, Plan
<1>3. KnowsRegistry(p)'
  <2> SUFFICES ASSUME Registry \notin touched[p]
               PROVE  SameOthers(p, disk[Registry])' /\ SameOthers(p, snap[p][Registry])'
    BY <1>2 DEF KnowsRegistry
  <2>1. SameOthers(p, disk[Registry]) /\ SameOthers(p, snap[p][Registry])
    BY <1>1, <1>2 DEF Knows, KnowsRegistry
  <2>2. disk'[Registry] = disk[Registry] \/ SameOthers(p, disk'[Registry])
    BY PathFacts DEF Careful, Proper
  <2> QED BY <1>2, <2>1, <2>2 DEF SameOthers
<1>4. KnowsConfig(p)'
  <2> DEFINE c == job[p].config
  <2> SUFFICES ASSUME job[p].sel \in Hosts, c \notin touched[p]
               PROVE  SameUser(p, disk[c])' /\ SameUser(p, snap[p][c])'
    BY <1>2 DEF KnowsConfig
  <2>1. SameUser(p, disk[c]) /\ SameUser(p, snap[p][c])
    BY <1>1, <1>2 DEF Knows, KnowsConfig
  <2>2. c \in Configs /\ c \in Paths
    BY <1>1, <1>2, ManagedFacts, PathFacts
  <2>3. disk'[c] = disk[c] \/ SameUser(p, disk'[c])
    BY <2>2 DEF Careful, Proper
  <2> QED BY <1>2, <2>1, <2>3 DEF SameUser
<1>5. KnowsPayloads(p)'
  <2> SUFFICES ASSUME NEW x \in Package(job[p].sel) \ touched[p], disk'[x] = Foreign
               PROVE  snap[p][x] = Foreign
    BY <1>2 DEF KnowsPayloads
  <2>1. x \in Payloads /\ x \in Paths
    BY <1>1, PathFacts
  <2>2. disk[x] = Foreign => snap[p][x] = Foreign
    BY <1>1 DEF Knows, KnowsPayloads
  <2> QED BY <2>1, <2>2 DEF Careful, Proper
<1>6. Kept(p)
  BY CarefulKept
<1> QED BY <1>3, <1>4, <1>5, <1>6 DEF Good, Knows, Within

LEMMA KeepGood ==
  ASSUME IInv, NEW p \in Procs, pc[p] \in Acting, Within(p), Keep, BudgetOK
  PROVE  Good(p)
BY ActGood, KeepWorld, KeepCareful DEF IInv

LEMMA PutGood ==
  ASSUME IInv, NEW p \in Procs, pc[p] \in Acting, Within(p), BudgetOK,
         NEW x \in Paths, NEW v \in Fit(x), Proper(p, x, v), Put(p, x, v)
  PROVE  Good(p)
BY ActGood, PutCareful DEF IInv

\* A write that succeeds, or fails with or without its effect.
LEMMA ReplaceGood ==
  ASSUME IInv, NEW p \in Procs, pc[p] \in {"host", "registry"}, NEW x \in Paths, NEW v \in Fit(x),
         x \in Payloads => v # Foreign, Proper(p, x, v), Replace(p, x, v)
  PROVE  Good(p)
<1>1. pc[p] \in Acting /\ pc[p] # "package" /\ pc[p] \in {"package", "check", "host", "registry"} /\ Typed
  BY DEF Acting, IInv
<1>2. ExpectOK
  BY <1>1, SetExpect DEF Replace
<1>3. CASE Advance(p) /\ Put(p, x, v) /\ UNCHANGED budget
  BY <1>1, <1>2, <1>3, AdvanceWithin, BudgetKept, PutGood
<1>4. CASE Unwind(p) /\ WriteFails(p, x, v)
  <2>1. Within(p) /\ BudgetOK
    BY <1>1, <1>2, <1>4, UnwindWithin, BudgetKept DEF WriteFails
  <2> QED BY <1>1, <1>4, <2>1, KeepGood, PutGood DEF WriteFails
<1> QED BY <1>3, <1>4 DEF Replace

-----------------------------------------------------------------------------
(* The commands, step by step *)

LEMMA BeginGood == ASSUME IInv, NEW p \in Procs, Begin(p) PROVE Good(p)
<1>1. Typed
  BY DEF IInv
<1>2. PICK verb \in Verbs, sel \in Selectors :
        \E given \in IF sel = PathShim THEN {None} ELSE Configs \cup {None} :
          job' = [job EXCEPT ![p] =
                    [verb |-> verb, sel |-> sel, given |-> given,
                     config |-> IF given # None \/ sel = PathShim THEN given ELSE Home[sel]]]
  BY DEF Begin
<1>3. PICK given \in IF sel = PathShim THEN {None} ELSE Configs \cup {None} :
          job' = [job EXCEPT ![p] =
                    [verb |-> verb, sel |-> sel, given |-> given,
                     config |-> IF given # None \/ sel = PathShim THEN given ELSE Home[sel]]]
  BY <1>2
<1> DEFINE config == IF given # None \/ sel = PathShim THEN given ELSE Home[sel]
           j == [verb |-> verb, sel |-> sel, given |-> given, config |-> config]
<1>4. given \in Configs \cup {None} /\ config \in Configs \cup {None} /\ config \in ConfigOf(sel)
  BY HookConstants DEF Selectors, ConfigOf
<1>5. j \in Jobs /\ j.config \in ConfigOf(j.sel)
  BY <1>4 DEF Jobs
<1>6. job' = [job EXCEPT ![p] = j]
  BY <1>3
<1> HIDE DEF j, config
<1>7. /\ pc' = [pc EXCEPT ![p] = "registry?"]
      /\ UNCHANGED <<reg, cfg, snap, expect, todo, bad>>
  BY DEF Begin, Goto
<1>8. "registry?" \in Phases /\ "registry?" \notin Started /\ "registry?" \notin Loaded /\ "registry?" \notin Acting
  BY DEF Phases, Started, Loaded, Acting
<1>9. Own(p)
  BY <1>1, <1>5, <1>6, <1>7, <1>8 DEF Own, Typed
<1>10. pc'[p] = "registry?" /\ job'[p] = j
  BY <1>1, <1>6, <1>7 DEF Typed
<1>11. Plan(p)' /\ Knows(p)'
  BY <1>5, <1>8, <1>10 DEF Plan, Knows, KnowsRegistry, KnowsConfig, KnowsPayloads
<1>12. World(p) /\ Kept(p)
  BY <1>1, KeepWorld, StillKept DEF Begin
<1>13. BudgetOK
  <2>1. budget.jobs - 1 \in Nat
    BY <1>1 DEF Begin, Typed
  <2> QED BY <1>1, <2>1 DEF Begin, BudgetOK, Typed
<1> QED BY <1>9, <1>11, <1>12, <1>13 DEF Good

LEMMA ReadRegistryGood == ASSUME IInv, NEW p \in Procs, ReadRegistry(p) PROVE Good(p)
<1> DEFINE read  == Integrations(disk[Registry])
           entry == read[job[p].sel]
           free  == job[p].verb # "install" /\ job[p].given = None
<1>1. Typed /\ Plan(p) /\ job[p] \in Jobs /\ Keep /\ UNCHANGED budget
  BY DEF IInv, Typed, ReadRegistry
<1>2. BudgetOK
  BY <1>1, BudgetKept
<1>3. CASE entry # None /\ ~free /\ entry.config # job[p].config
  <2>1. Finish(p, "refused") /\ "refused" \in Ended
    BY <1>3 DEF ReadRegistry, Ended
  <2> QED BY <1>1, <1>2, <2>1, FinishGood
<1>4. CASE ~(entry # None /\ ~free /\ entry.config # job[p].config)
  <2> DEFINE next == IF job[p].verb # "install"
                     THEN IF entry = None THEN "artifacts?" ELSE "owned?"
                     ELSE IF job[p].sel = PathShim THEN "snapshot" ELSE "config?"
             config == IF entry # None THEN entry.config ELSE job[p].config
  <2>1. /\ reg' = [reg EXCEPT ![p] = read]
        /\ job' = [job EXCEPT ![p].config = config]
        /\ pc' = [pc EXCEPT ![p] = next]
        /\ UNCHANGED <<cfg, snap, expect, todo, bad>>
    BY <1>1, <1>4 DEF ReadRegistry, Goto, Typed
  <2>2. read \in Regs /\ job[p].sel \in Selectors
    BY <1>1, IntegrationsFit, PathFacts, FitFacts DEF Typed, Files, Jobs
  <2>3. job[p].config \in ConfigOf(job[p].sel)
    BY <1>1, EndedOrPhase DEF Plan, ReadRegistry, Ended
  <2>4. config \in ConfigOf(job[p].sel) /\ config \in Configs \cup {None}
    BY <2>2, <2>3 DEF Regs, ConfigOf
  <2>5. next \in {"artifacts?", "owned?", "config?", "snapshot"}
    OBVIOUS
  <2>6. /\ next = "config?" => job[p].sel \in Hosts
        /\ next = "snapshot" => job[p].sel \notin Hosts
        /\ job[p].verb # "install" => next # "snapshot" /\ next # "config?"
        /\ next = "owned?" => entry # None
    BY <2>2, HookConstants DEF Selectors
  <2> HIDE DEF config, next, entry, read, free
  <2>7. job' = [job EXCEPT ![p] = [job[p] EXCEPT !.config = config]]
    BY <1>1, <2>1 DEF Typed
  <2>8. [job[p] EXCEPT !.config = config] \in Jobs
    BY <1>1, <2>4 DEF Jobs
  <2>9. Own(p)
    BY <1>1, <2>1, <2>2, <2>5, <2>7, <2>8 DEF Own, Typed, Phases
  <2>10. /\ pc'[p] = next /\ reg'[p] = read /\ job'[p] = [job[p] EXCEPT !.config = config]
         /\ job'[p].sel = job[p].sel /\ job'[p].verb = job[p].verb /\ job'[p].config = config
    BY <1>1, <2>1, <2>7 DEF Typed, Jobs
  <2>11. next \notin Acting /\ next \notin {"package", "check", "host", "rollback"}
         /\ (next \in Loaded => next = "snapshot")
    BY <2>5 DEF Acting, Loaded
  <2>12. Plan(p)'
    BY <2>4, <2>5, <2>6, <2>10, <2>11 DEF Plan, entry
  <2>13. disk' = disk
    BY <1>1 DEF Keep
  <2>14. SameOthers(p, disk[Registry])'
    BY <2>10, <2>13 DEF SameOthers, read
  <2>15. Knows(p)'
    BY <2>6, <2>10, <2>11, <2>14 DEF Knows, KnowsRegistry, KnowsConfig, KnowsPayloads
  <2> QED BY <1>1, <1>2, <2>9, <2>12, <2>15, KeepWorld, StillKept DEF Good, Keep
<1> QED BY <1>3, <1>4

LEMMA FindArtifactsGood == ASSUME IInv, NEW p \in Procs, FindArtifacts(p) PROVE Good(p)
<1>1. Typed /\ Keep /\ UNCHANGED budget
  BY DEF IInv, FindArtifacts
<1>2. \E how \in Ended : Finish(p, how)
  BY DEF FindArtifacts, Ended
<1> QED BY <1>1, <1>2, BudgetKept, FinishGood

LEMMA ProveOwnedGood == ASSUME IInv, NEW p \in Procs, ProveOwned(p) PROVE Good(p)
<1>1. Typed /\ Plan(p) /\ Knows(p) /\ job[p] \in Jobs /\ Keep /\ UNCHANGED budget /\ pc[p] = "owned?"
  BY DEF IInv, Typed, ProveOwned
<1>2. BudgetOK
  BY <1>1, BudgetKept
<1>3. CASE Finish(p, "refused")
  BY <1>1, <1>2, <1>3, FinishGood DEF Ended
<1>4. CASE /\ Goto(p, IF job[p].sel = PathShim THEN "snapshot" ELSE "config?")
           /\ UNCHANGED <<locals, todo>>
  <2> DEFINE next == IF job[p].sel = PathShim THEN "snapshot" ELSE "config?"
  <2>1. pc' = [pc EXCEPT ![p] = next] /\ UNCHANGED <<job, reg, cfg, snap, expect, todo, bad>>
    BY <1>4 DEF Goto, locals
  <2>2. /\ next \in Phases /\ next \notin Acting /\ next \in Started
        /\ next = "config?" => job[p].sel \in Hosts
        /\ next \in Loaded => job[p].sel \notin Hosts
        /\ next \notin {"package", "check", "host", "rollback"}
    BY <1>1, HookConstants DEF Phases, Acting, Started, Loaded, Jobs, Selectors
  <2> HIDE DEF next
  <2>3. Own(p) /\ pc'[p] = next
    BY <1>1, <2>1, <2>2 DEF Own, Typed
  <2>4. pc[p] \notin Ended /\ pc[p] \in Started
    BY <1>1 DEF Ended, Started
  <2>5. Plan(p)'
    BY <1>1, <2>1, <2>2, <2>3, <2>4 DEF Plan
  <2>6. World(p) /\ Kept(p) /\ disk' = disk /\ (pc'[p] \notin Ended => touched'[p] = touched[p])
    BY <1>1, KeepWorld, StillKept DEF World
  <2>7. Knows(p)'
    BY <1>1, <2>1, <2>2, <2>3, <2>4, <2>6, EndedOrPhase
       DEF Knows, KnowsRegistry, KnowsConfig, KnowsPayloads, SameOthers
  <2> QED BY <1>2, <2>3, <2>5, <2>6, <2>7 DEF Good
<1> QED BY <1>3, <1>4 DEF ProveOwned

LEMMA LoadConfigGood == ASSUME IInv, NEW p \in Procs, LoadConfig(p) PROVE Good(p)
<1> DEFINE c == job[p].config
<1>1. Typed /\ Plan(p) /\ Knows(p) /\ job[p] \in Jobs /\ Keep /\ UNCHANGED budget /\ pc[p] = "config?"
  BY DEF IInv, Typed, LoadConfig
<1>2. BudgetOK
  BY <1>1, BudgetKept
<1>3. CASE disk[c] = Broken
  BY <1>1, <1>2, <1>3, FinishGood DEF Ended, LoadConfig
<1>4. CASE disk[c] # Broken
  <2>1. /\ cfg' = [cfg EXCEPT ![p] = disk[c]]
        /\ pc' = [pc EXCEPT ![p] = "snapshot"]
        /\ UNCHANGED <<job, reg, snap, expect, todo, bad>>
    BY <1>4 DEF Goto, LoadConfig
  <2>2. pc[p] \notin Ended /\ pc[p] \in Started
    BY <1>1 DEF Ended, Started
  <2>3. job[p].sel \in Hosts /\ c \in ConfigOf(job[p].sel)
    BY <1>1, <2>2 DEF Plan
  <2>4. c \in Configs /\ c \in Paths
    BY <1>1, <2>3, ManagedFacts, PathFacts
  <2>5. disk[c] \in ConfigObjects \cup {None}
    BY <1>1, <1>4, <2>4, FitFacts DEF Typed, Files
  <2>6. "snapshot" \in Phases /\ "snapshot" \notin Acting /\ "snapshot" \in Started /\ "snapshot" \notin Ended
    BY DEF Phases, Acting, Started, Loaded, Ended
  <2>7. Own(p) /\ pc'[p] = "snapshot" /\ cfg'[p] = disk[c] /\ job'[p] = job[p]
    BY <1>1, <2>1, <2>5, <2>6 DEF Own, Typed
  <2>8. Plan(p)'
    BY <1>1, <2>1, <2>2, <2>7 DEF Plan
  <2>9. World(p) /\ Kept(p) /\ disk' = disk /\ touched'[p] = touched[p]
    BY <1>1, <2>6, <2>7, KeepWorld, StillKept DEF World
  <2>10. KnowsRegistry(p)'
    BY <1>1, <2>1, <2>2, <2>6, <2>7, <2>9 DEF Knows, KnowsRegistry, SameOthers
  <2>11. KnowsConfig(p)' /\ KnowsPayloads(p)'
    BY <2>6, <2>7, <2>9 DEF KnowsConfig, KnowsPayloads, SameUser
  <2> QED BY <1>2, <2>7, <2>8, <2>9, <2>10, <2>11 DEF Good, Knows
<1> QED BY <1>3, <1>4

LEMMA SnapshotGood == ASSUME IInv, NEW p \in Procs, Snapshot(p) PROVE Good(p)
<1>1. Typed /\ Plan(p) /\ Knows(p) /\ job[p] \in Jobs /\ Keep /\ UNCHANGED budget /\ pc[p] = "snapshot"
  BY DEF IInv, Typed, Snapshot
<1>2. BudgetOK
  BY <1>1, BudgetKept
<1>3. CASE Finish(p, "refused")
  BY <1>1, <1>2, <1>3, FinishGood DEF Ended
<1>4. CASE ~Finish(p, "refused")
  <2> DEFINE next  == After(job[p], pc[p])
             taken == [x \in Paths |-> IF x \in Managed(job[p]) THEN disk[x] ELSE None]
  <2>1. /\ snap' = [snap EXCEPT ![p] = taken]
        /\ pc' = [pc EXCEPT ![p] = next]
        /\ todo' = [todo EXCEPT ![p] = IF next = "package" THEN Package(job[p].sel) ELSE {}]
        /\ UNCHANGED <<job, reg, cfg, expect, bad>>
    BY <1>4 DEF Snapshot, Goto, Visit
  <2>2. /\ next \in {"package", "check", "host", "registry", "status"}
        /\ next = "check" => job[p].verb = "install"
        /\ next = "host" => job[p].sel \in Hosts
    BY <1>1, AfterFacts
  <2>3. taken \in Files
    <3>1. \A x \in Paths : taken[x] \in Fit(x)
      BY <1>1 DEF Typed, Files, Fit
    <3> QED BY <3>1, FitContents DEF Files
  <2>4. /\ next \in Acting /\ next \in Phases /\ next # "config?" /\ next # "rollback"
    BY <2>2 DEF Acting, Phases
  <2>5. pc[p] \notin Ended /\ pc[p] \in Started /\ pc[p] \in Loaded
    BY <1>1 DEF Ended, Started, Loaded
  <2>6. job[p].config \in ConfigOf(job[p].sel)
    BY <1>1, <2>5 DEF Plan
  <2>7. \A x \in Managed(job[p]) : x \in Paths /\ taken[x] = disk[x]
    BY <1>1, <2>6, ManagedFacts
  <2>8. /\ Registry \in Managed(job[p]) /\ Package(job[p].sel) \subseteq Managed(job[p])
        /\ job[p].sel \in Hosts => job[p].config \in Managed(job[p])
        /\ Package(job[p].sel) \subseteq Paths
    BY <1>1, <2>6, ManagedFacts, PathFacts
  <2> HIDE DEF next, taken
  <2>9. Own(p)
    BY <1>1, <2>1, <2>3, <2>4, <2>8 DEF Own, Typed
  <2>10. /\ pc'[p] = next /\ snap'[p] = taken /\ job'[p] = job[p] /\ reg'[p] = reg[p] /\ cfg'[p] = cfg[p]
         /\ next = "package" => todo'[p] = Package(job[p].sel)
    BY <1>1, <2>1 DEF Typed
  <2>11. Plan(p)'
    BY <1>1, <2>2, <2>4, <2>5, <2>10 DEF Plan
  <2>12. World(p) /\ Kept(p) /\ disk' = disk /\ touched'[p] = touched[p]
    BY <1>1, <2>4, <2>10, EndedOrPhase, KeepWorld, StillKept DEF World
  <2>13. KnowsRegistry(p)'
    BY <1>1, <2>5, <2>7, <2>8, <2>10, <2>12 DEF Knows, KnowsRegistry, SameOthers
  <2>14. KnowsConfig(p)'
    BY <1>1, <2>5, <2>7, <2>8, <2>10, <2>12 DEF Knows, KnowsConfig, SameUser
  <2>15. KnowsPayloads(p)'
    BY <2>7, <2>8, <2>10, <2>12 DEF KnowsPayloads
  <2> QED BY <1>2, <2>9, <2>11, <2>12, <2>13, <2>14, <2>15 DEF Good, Knows
<1> QED BY <1>3, <1>4

\* A payload that the command visits is one of its own, and not somebody's file.
LEMMA PayloadProper ==
  ASSUME IInv, NEW p \in Procs, pc[p] = "package", NEW x \in todo[p], NEW v, v # Foreign, disk[x] # Foreign
  PROVE  x \in Payloads /\ x \in Paths /\ Proper(p, x, v)
<1>1. Plan(p) /\ job[p] \in Jobs /\ pc[p] \notin Ended
  BY DEF IInv, Typed, Ended
<1>2. x \in Package(job[p].sel) /\ job[p].config \in ConfigOf(job[p].sel)
  BY <1>1 DEF Plan
<1>3. x \in Payloads /\ x \in Managed(job[p])
  BY <1>1, <1>2, ManagedFacts, PathFacts
<1>4. x \in Paths /\ x # Registry /\ x \notin Configs
  BY <1>3, PathFacts
<1> QED BY <1>3, <1>4 DEF Proper

LEMMA InstallPayloadGood == ASSUME IInv, NEW p \in Procs, InstallPayload(p) PROVE Good(p)
<1>1. pc[p] = "package" /\ pc[p] \in Acting /\ job[p].verb # "disable" /\ Typed
  BY DEF InstallPayload, Acting, IInv
<1>2. PICK x \in todo[p] :
        /\ Expected(p, x, New)
        /\ \/ disk[x] = Foreign /\ Unwind(p) /\ Keep /\ UNCHANGED budget
           \/ disk[x] = New     /\ Visited(p, x) /\ Keep /\ UNCHANGED budget
           \/ disk[x] \in {None, Old} /\ Visited(p, x) /\ Put(p, x, New) /\ UNCHANGED budget
           \/ disk[x] \in {None, Old} /\ Unwind(p) /\ WriteFails(p, x, New)
  BY DEF InstallPayload
<1>3. x \in Payloads /\ x \in Paths /\ New \in Fit(x) /\ New # Foreign
  <2>1. Plan(p) /\ job[p] \in Jobs /\ pc[p] \notin Ended
    BY <1>1 DEF IInv, Typed, Ended
  <2>2. x \in Package(job[p].sel)
    BY <1>1, <1>2, <2>1 DEF Plan
  <2> QED BY <2>1, <2>2, PathFacts, FitFacts, HookConstants DEF Owned
<1>4. ExpectOK
  BY <1>1, <1>2, <1>3, SetExpect
<1>5. CASE disk[x] = Foreign /\ Unwind(p) /\ Keep /\ UNCHANGED budget
  BY <1>1, <1>4, <1>5, UnwindWithin, BudgetKept, KeepGood
<1>6. CASE disk[x] = New /\ Visited(p, x) /\ Keep /\ UNCHANGED budget
  BY <1>1, <1>4, <1>6, VisitedWithin, BudgetKept, KeepGood
<1>7. ASSUME disk[x] \in {None, Old} PROVE Proper(p, x, New)
  BY <1>1, <1>3, <1>7, PayloadProper, HookConstants
<1>8. CASE disk[x] \in {None, Old} /\ Visited(p, x) /\ Put(p, x, New) /\ UNCHANGED budget
  BY <1>1, <1>3, <1>4, <1>7, <1>8, VisitedWithin, BudgetKept, PutGood
<1>9. CASE disk[x] \in {None, Old} /\ Unwind(p) /\ WriteFails(p, x, New)
  <2>1. Within(p) /\ BudgetOK
    BY <1>1, <1>4, <1>9, UnwindWithin, BudgetKept DEF WriteFails
  <2> QED BY <1>1, <1>3, <1>7, <1>9, <2>1, KeepGood, PutGood DEF WriteFails
<1> QED BY <1>2, <1>5, <1>6, <1>8, <1>9

LEMMA RemovePayloadGood == ASSUME IInv, NEW p \in Procs, RemovePayload(p) PROVE Good(p)
<1>1. pc[p] = "package" /\ pc[p] \in Acting /\ job[p].verb # "disable" /\ Typed /\ UNCHANGED expect
  BY DEF RemovePayload, Acting, IInv
<1>2. PICK x \in todo[p] :
        \/ disk[x] = Foreign   /\ Unwind(p) /\ Keep /\ UNCHANGED budget
        \/ disk[x] = None      /\ Visited(p, x) /\ Keep /\ UNCHANGED budget
        \/ disk[x] \in Owned   /\ Visited(p, x) /\ Put(p, x, None) /\ UNCHANGED budget
        \/ disk[x] \in Owned   /\ Unwind(p) /\ Keep /\ Upset("faults")
  BY DEF RemovePayload
<1>3. ExpectOK
  BY <1>1, SameExpect
<1>4. CASE Unwind(p) /\ Keep /\ (UNCHANGED budget \/ Upset("faults"))
  BY <1>1, <1>3, <1>4, UnwindWithin, BudgetKept, KeepGood
<1>5. CASE Visited(p, x) /\ Keep /\ UNCHANGED budget
  BY <1>1, <1>3, <1>5, VisitedWithin, BudgetKept, KeepGood
<1>6. CASE disk[x] \in Owned /\ Visited(p, x) /\ Put(p, x, None) /\ UNCHANGED budget
  <2>1. Within(p) /\ BudgetOK
    BY <1>1, <1>3, <1>6, VisitedWithin, BudgetKept
  <2>2. disk[x] # Foreign /\ None # Foreign
    BY <1>6, HookConstants DEF Owned
  <2>3. x \in Paths /\ Proper(p, x, None)
    BY <1>1, <2>2, PayloadProper
  <2>4. None \in Fit(x)
    BY DEF Fit
  <2> QED BY <1>1, <1>6, <2>1, <2>3, <2>4, PutGood
<1> QED BY <1>2, <1>4, <1>5, <1>6

LEMMA CheckPackageGood == ASSUME IInv, NEW p \in Procs, CheckPackage(p) PROVE Good(p)
<1>1. pc[p] = "check" /\ pc[p] \in Acting /\ Typed /\ Keep
  BY DEF CheckPackage, Acting, IInv
<1>2. ExpectOK /\ BudgetOK
  BY <1>1, SameExpect, BudgetKept DEF CheckPackage
<1>3. Within(p)
  BY <1>1, <1>2, AdvanceWithin, UnwindWithin DEF CheckPackage
<1> QED BY <1>1, <1>2, <1>3, KeepGood

LEMMA ReportGood == ASSUME IInv, NEW p \in Procs, Report(p) PROVE Good(p)
<1>1. Typed /\ Keep /\ UNCHANGED budget /\ Finish(p, "ok")
  BY DEF IInv, Report
<1> QED BY <1>1, BudgetKept, FinishGood DEF Ended

LEMMA KillGood == ASSUME IInv, NEW p \in Procs, Kill(p) PROVE Good(p)
<1>1. Typed /\ Keep /\ Upset("kills") /\ Finish(p, "idle")
  BY DEF IInv, Kill
<1> QED BY <1>1, BudgetKept, FinishGood DEF Ended

\* What is written into a configuration is the user's part as it was read.
LEMMA WriteHostGood == ASSUME IInv, NEW p \in Procs, WriteHost(p) PROVE Good(p)
<1> DEFINE key == EventKey[job[p].sel]
           c   == job[p].config
           v   == NewConfig(p)
<1>1. pc[p] = "host" /\ pc[p] \in Acting /\ Typed /\ Plan(p) /\ job[p] \in Jobs /\ pc[p] \notin Ended
  BY DEF WriteHost, Acting, IInv, Typed, Ended
<1>2. job[p].sel \in Hosts /\ c \in ConfigOf(job[p].sel)
  BY <1>1 DEF Plan
<1>3. c \in Configs /\ c \in Paths /\ c \in Managed(job[p]) /\ c # Registry /\ c \notin Payloads /\ key \in EventKeys
  BY <1>1, <1>2, ManagedFacts, PathFacts, HookConstants
<1>4. cfg[p] \in ConfigObjects \cup {None}
  BY <1>1 DEF Typed
<1>5. v \in ConfigObjects \cup {None} /\ SameUser(p, v)
  <2>1. CASE cfg[p] = None
    <3>1. v = None \/ v = [user |-> 0, keys |-> {key}]
      BY <2>1 DEF NewConfig
    <3>2. [user |-> 0, keys |-> {key}] \in ConfigObjects
      BY <1>3, HookConstants DEF ConfigObjects
    <3>3. UserPart(None, key) = [user |-> 0, keys |-> {}]
      BY DEF UserPart
    <3>4. UserPart([user |-> 0, keys |-> {key}], key) = [user |-> 0, keys |-> {}]
      <4>1. [user |-> 0, keys |-> {key}] # None
        BY <3>2, NoneIsNothing
      <4> QED BY <3>2, <4>1 DEF UserPart
    <3> QED BY <2>1, <3>1, <3>2, <3>3, <3>4 DEF SameUser
  <2>2. CASE cfg[p] # None
    <3>1. cfg[p] \in ConfigObjects /\ cfg[p].keys \in SUBSET EventKeys
      BY <1>4, <2>2 DEF ConfigObjects
    <3>2. PICK keys \in SUBSET EventKeys : v = [cfg[p] EXCEPT !.keys = keys] /\ keys \ {key} = cfg[p].keys \ {key}
      BY <1>3, <2>2, <3>1 DEF NewConfig
    <3>3. v \in ConfigObjects
      BY <3>1, <3>2 DEF ConfigObjects
    <3>4. v # None
      BY <3>3, NoneIsNothing
    <3>5. UserPart(v, key) = [v EXCEPT !.keys = v.keys \ {key}]
      BY <3>3, <3>4 DEF UserPart
    <3>6. UserPart(cfg[p], key) = [cfg[p] EXCEPT !.keys = cfg[p].keys \ {key}]
      BY <2>2, <3>1 DEF UserPart
    <3>7. [v EXCEPT !.keys = v.keys \ {key}] = [cfg[p] EXCEPT !.keys = cfg[p].keys \ {key}]
      BY <3>1, <3>2 DEF ConfigObjects
    <3> QED BY <3>3, <3>5, <3>6, <3>7 DEF SameUser
  <2> QED BY <2>1, <2>2
<1>6. CASE Advance(p) /\ Keep /\ UNCHANGED <<expect, budget>>
  BY <1>1, <1>6, SameExpect, BudgetKept, AdvanceWithin, KeepGood
<1>7. CASE Replace(p, c, v)
  <2>1. Proper(p, c, v) /\ v \in Fit(c)
    BY <1>3, <1>5, FitFacts DEF Proper
  <2> HIDE DEF c, v
  <2> QED BY <1>1, <1>3, <1>7, <2>1, ReplaceGood
<1> QED BY <1>6, <1>7 DEF WriteHost

\* The registry that a command writes is one, and differs in its own entry only.
LEMMA NewRegistryFits ==
  ASSUME Typed, NEW p \in Procs, Plan(p), pc[p] = "registry"
  PROVE  NewRegistry(p) \in Regs /\ \A t \in Selectors \ {job[p].sel} : NewRegistry(p)[t] = reg[p][t]
<1> DEFINE v == NewRegistry(p)
           s == job[p].sel
<1>1. pc[p] \in Loaded /\ pc[p] \notin Ended
  BY DEF Acting, Loaded, Ended
<1>2. job[p] \in Jobs /\ s \in Selectors /\ reg[p] \in Regs
  BY DEF Typed, Jobs
<1>3. job[p].config \in ConfigOf(s) /\ job[p].config \in Configs \cup {None}
  BY <1>1, <1>2 DEF Plan, Jobs
<1>4. \E e \in Entries \cup {None} : v = [reg[p] EXCEPT ![s] = e] /\ (e # None => e.config \in ConfigOf(s))
  <2>1. CASE job[p].verb = "install"
    <3> DEFINE e == [config |-> job[p].config, enabled |-> TRUE]
    <3>1. v = [reg[p] EXCEPT ![s] = e] /\ e \in Entries /\ e.config \in ConfigOf(s)
      BY <1>3, <2>1 DEF NewRegistry, Entries
    <3> QED BY <3>1
  <2>2. CASE job[p].verb = "disable"
    <3> DEFINE e == [reg[p][s] EXCEPT !.enabled = FALSE]
    <3>1. reg[p][s] # None
      BY <1>1, <1>2, <2>2 DEF Plan
    <3>2. reg[p][s] \in Entries /\ reg[p][s].config \in ConfigOf(s)
      BY <1>2, <3>1 DEF Regs, Registries
    <3>3. v = [reg[p] EXCEPT ![s] = e] /\ e \in Entries /\ e.config = reg[p][s].config
      BY <2>2, <3>2 DEF NewRegistry, Entries
    <3> QED BY <3>2, <3>3
  <2>3. CASE job[p].verb = "uninstall"
    BY <2>3 DEF NewRegistry
  <2> QED BY <1>2, <2>1, <2>2, <2>3 DEF Jobs, Verbs
<1>5. v \in Regs /\ \A t \in Selectors \ {s} : v[t] = reg[p][t]
  BY <1>2, <1>4 DEF Regs, Registries
<1> QED BY <1>5

\* What is written into the registry are the other entries as they were read.
LEMMA WriteRegistryGood == ASSUME IInv, NEW p \in Procs, WriteRegistry(p) PROVE Good(p)
<1> DEFINE v == NewRegistry(p)
           s == job[p].sel
<1>1. pc[p] = "registry" /\ pc[p] \in Acting /\ pc[p] \in Loaded /\ pc[p] \notin Ended
  BY DEF WriteRegistry, Acting, Loaded, Ended
<1>2. Typed /\ Plan(p) /\ job[p] \in Jobs /\ s \in Selectors /\ reg[p] \in Regs
  BY DEF IInv, Typed, Jobs
<1>3. job[p].config \in ConfigOf(s) /\ job[p].config \in Configs \cup {None}
  BY <1>1, <1>2 DEF Plan, Jobs
<1>5. v \in Regs /\ \A t \in Selectors \ {s} : v[t] = reg[p][t]
  BY <1>1, <1>2, NewRegistryFits DEF IInv
<1>6. SameOthers(p, v)
  BY <1>5, RegIsItself DEF SameOthers
<1>7. Registry \in Managed(job[p]) /\ Registry \in Paths /\ Registry \notin Configs /\ Registry \notin Payloads
  BY <1>2, <1>3, ManagedFacts, PathFacts
<1>8. Proper(p, Registry, v) /\ v \in Fit(Registry)
  BY <1>5, <1>6, <1>7, FitFacts DEF Proper
<1> HIDE DEF v
<1>9. CASE Advance(p) /\ Keep /\ UNCHANGED <<expect, budget>>
  BY <1>1, <1>2, <1>9, SameExpect, BudgetKept, AdvanceWithin, KeepGood
<1>10. CASE Replace(p, Registry, v)
  BY <1>1, <1>7, <1>8, <1>10, ReplaceGood
<1> QED BY <1>9, <1>10 DEF WriteRegistry, v

\* A step of the rollback, the last one included.
LEMMA RolledGood ==
  ASSUME IInv, NEW p \in Procs, pc[p] = "rollback", NEW x \in todo[p], NEW ok \in BOOLEAN,
         Rolled(p, x, ok), World(p), Careful(p), BudgetOK
  PROVE  Good(p)
<1>1. Typed /\ Plan(p) /\ pc[p] \in Acting
  BY DEF IInv, Acting
<1>2. ASSUME NEW how \in Ended, Finish(p, how) PROVE Good(p)
  BY <1>1, <1>2, FinishOwn, EndedKnows, CarefulKept DEF Good
<1>3. CASE /\ Visit(p, todo[p] \ {x})
           /\ bad' = [bad EXCEPT ![p] = @ \/ ~ok]
           /\ UNCHANGED <<pc, job, reg, cfg, snap, expect>>
  <2>1. todo' = [todo EXCEPT ![p] = todo[p] \ {x}] /\ bad' \in [Procs -> BOOLEAN]
    BY <1>1, <1>3 DEF Visit, Typed
  <2>2. Own(p) /\ todo'[p] = todo[p] \ {x}
    BY <1>1, <1>3, <2>1 DEF Own, Typed
  <2>3. Plan(p)'
    BY <1>1, <1>3, <2>2 DEF Plan, Managed
  <2>4. Within(p)
    BY <1>1, <1>3, <2>2, <2>3 DEF Within
  <2> QED BY <1>1, <2>4, ActGood
<1> QED BY <1>2, <1>3 DEF Rolled, Ended

\* The snapshot is proper: in what is not the command's own it is what is there.
LEMMA SnapProper ==
  ASSUME IInv, NEW p \in Procs, pc[p] = "rollback", NEW x \in todo[p]
  PROVE  x \in Paths /\ snap[p][x] \in Fit(x) /\ Proper(p, x, snap[p][x])
<1>1. Typed /\ Plan(p) /\ Knows(p) /\ job[p] \in Jobs /\ pc[p] \notin Ended /\ pc[p] \in Acting
  BY DEF IInv, Typed, Ended, Acting
<1>2. x \in Managed(job[p]) /\ job[p].config \in ConfigOf(job[p].sel)
  BY <1>1 DEF Plan
<1>3. x \in Paths /\ snap[p][x] \in Fit(x)
  BY <1>1, <1>2, ManagedFacts DEF Typed, Files
<1>4. ASSUME x = Registry, x \notin touched[p] PROVE SameOthers(p, snap[p][x])
  BY <1>1, <1>4 DEF Knows, KnowsRegistry
<1>5. ASSUME x \in Configs, x \notin touched[p] PROVE SameUser(p, snap[p][x])
  <2>1. x = job[p].config /\ job[p].sel \in Hosts
    BY <1>1, <1>2, <1>5, ManagedFacts, PathFacts
  <2> QED BY <1>1, <1>5, <2>1 DEF Knows, KnowsConfig
<1>6. ASSUME x \in Payloads, x \notin touched[p], disk[x] = Foreign PROVE snap[p][x] = Foreign
  <2>1. x \in Package(job[p].sel)
    BY <1>1, <1>2, <1>6, ManagedFacts, PathFacts
  <2> QED BY <1>1, <1>6, <2>1 DEF Knows, KnowsPayloads
<1> QED BY <1>2, <1>3, <1>4, <1>5, <1>6 DEF Proper

LEMMA RollbackGood == ASSUME IInv, NEW p \in Procs, Rollback(p) PROVE Good(p)
<1>1. Typed /\ pc[p] = "rollback"
  BY DEF IInv, Rollback
<1>2. PICK x \in LastOf(todo[p]) :
        \/ Rolled(p, x, TRUE) /\ Keep /\ UNCHANGED budget
        \/ Rolled(p, x, TRUE) /\ Put(p, x, snap[p][x]) /\ UNCHANGED budget
        \/ Rolled(p, x, FALSE) /\ WriteFails(p, x, snap[p][x])
        \/ Rolled(p, x, FALSE) /\ Keep /\ UNCHANGED budget
  BY DEF Rollback
<1>3. x \in todo[p]
  BY <1>2 DEF LastOf
<1>4. BudgetOK
  BY <1>1, <1>2, BudgetKept DEF WriteFails
<1>5. World(p) /\ Careful(p)
  <2>1. x \in Paths /\ snap[p][x] \in Fit(x) /\ Proper(p, x, snap[p][x])
    BY <1>1, <1>3, SnapProper
  <2>2. Keep \/ Put(p, x, snap[p][x])
    BY <1>2 DEF WriteFails
  <2> QED BY <1>1, <2>1, <2>2, KeepWorld, KeepCareful, PutCareful
<1> QED BY <1>1, <1>2, <1>3, <1>4, <1>5, RolledGood

-----------------------------------------------------------------------------
LEMMA ManageGood == ASSUME IInv, NEW p \in Procs, Manage(p) PROVE Good(p)
BY BeginGood, ReadRegistryGood, FindArtifactsGood, ProveOwnedGood, LoadConfigGood, SnapshotGood,
   InstallPayloadGood, RemovePayloadGood, CheckPackageGood, WriteHostGood, WriteRegistryGood,
   ReportGood, RollbackGood, KillGood
   DEF Manage, Read, Write

\* An edit is the user's, and every command that uses the file is told.
LEMMA EditIInv ==
  ASSUME IInv, NEW files, EditOf(files)
  PROVE  IInv' /\ UNCHANGED <<pc, locals, todo>>
<1>1. Typed /\ UNCHANGED <<pc, job, reg, cfg, snap, expect, bad, todo>>
  BY DEF IInv, EditOf, locals
<1>2. PICK x \in Paths : \E v \in Fit(x) : disk' = [disk EXCEPT ![x] = v] /\ Disturb(Procs, x)
  <2>1. CASE \E c \in Configs \cap files :
               \E v \in {Broken} \cup [user : {MaxEdits - budget.edits + 1}, keys : {{}, Keys(disk[c])}] :
                 disk' = [disk EXCEPT ![c] = v] /\ Disturb(Procs, c)
    <3>1. MaxEdits - budget.edits + 1 \in 0..MaxEdits
      <4>1. budget.edits \in Nat /\ budget.edits <= MaxEdits /\ budget.edits > 0 /\ MaxEdits \in Nat
        BY <1>1, HookConstants DEF Typed, EditOf
      <4> QED BY <4>1
    <3>2. PICK c \in Configs \cap files :
            \E v \in {Broken} \cup [user : {MaxEdits - budget.edits + 1}, keys : {{}, Keys(disk[c])}] :
              disk' = [disk EXCEPT ![c] = v] /\ Disturb(Procs, c)
      BY <2>1
    <3>3. Keys(disk[c]) \in SUBSET EventKeys
      BY DEF Keys, ConfigObjects
    <3>4. [user : {MaxEdits - budget.edits + 1}, keys : {{}, Keys(disk[c])}] \subseteq ConfigObjects
      BY <3>1, <3>3 DEF ConfigObjects
    <3>5. c \in Paths /\ ConfigObjects \cup {Broken} \subseteq Fit(c)
      BY PathFacts, FitFacts
    <3> QED BY <3>2, <3>4, <3>5
  <2>2. CASE \E x \in Payloads \cap files : disk' = [disk EXCEPT ![x] = Foreign] /\ Disturb(Procs, x)
    BY <2>2, PathFacts, FitFacts
  <2> QED BY <2>1, <2>2 DEF EditOf
<1>3. disk' \in Files /\ \A y \in Paths \ {x} : disk'[y] = disk[y]
  <2>1. PICK v \in Fit(x) : disk' = [disk EXCEPT ![x] = v]
    BY <1>2
  <2>2. disk \in Files /\ disk \in [Paths -> Contents]
    BY <1>1 DEF Typed, Files
  <2>3. disk' \in Files
    BY <2>1, <2>2, WriteFits
  <2> QED BY <2>1, <2>2, <2>3
<1>4. BudgetOK
  <2>1. budget.edits - 1 \in Nat /\ budget.edits - 1 <= MaxEdits
    <3>1. budget.edits \in Nat /\ budget.edits <= MaxEdits /\ budget.edits > 0 /\ MaxEdits \in Nat
      BY <1>1, HookConstants DEF Typed, EditOf
    <3> QED BY <3>1
  <2>2. budget' = [budget EXCEPT !.edits = budget.edits - 1, !.upsets = 0]
    BY DEF EditOf
  <2> QED BY <1>1, <2>1, <2>2 DEF Typed, BudgetOK
<1>5. touched' = [q \in Procs |-> IF pc'[q] \in Ended THEN {}
                                  ELSE IF q \in Procs /\ x \in Managed(job[q]) THEN touched[q] \cup {x}
                                  ELSE touched[q]]
  BY <1>2 DEF Disturb
<1>6. Typed'
  BY <1>1, <1>3, <1>4, <1>5 DEF Typed, BudgetOK
<1>7. ASSUME NEW q \in Procs PROVE Plan(q)' /\ Knows(q)'
  <2>1. Plan(q) /\ Knows(q)
    BY DEF IInv
  <2>2. Plan(q)'
    BY <1>1, <2>1 DEF Plan, Managed
  <2>3. CASE pc[q] \in Ended
    BY <1>1, <2>3, EndedKnows
  <2>4. CASE pc[q] \notin Ended
    <3>1. job[q] \in Jobs /\ job[q].config \in ConfigOf(job[q].sel)
      BY <1>1, <2>1, <2>4 DEF Typed, Plan
    <3>2. /\ Registry \in Managed(job[q]) /\ Package(job[q].sel) \subseteq Managed(job[q])
          /\ job[q].sel \in Hosts => job[q].config \in Managed(job[q])
          /\ Managed(job[q]) \subseteq Paths
      BY <3>1, ManagedFacts
    <3>3. touched[q] \subseteq touched'[q] /\ \A y \in Managed(job[q]) \ touched'[q] : disk'[y] = disk[y]
      BY <1>1, <1>3, <1>5, <2>4, <3>2
    <3>4. KnowsRegistry(q)'
      BY <1>1, <2>1, <3>2, <3>3 DEF Knows, KnowsRegistry, SameOthers
    <3>5. KnowsConfig(q)'
      BY <1>1, <2>1, <3>2, <3>3 DEF Knows, KnowsConfig, SameUser
    <3>6. KnowsPayloads(q)'
      BY <1>1, <2>1, <3>2, <3>3 DEF Knows, KnowsPayloads
    <3> QED BY <2>2, <3>4, <3>5, <3>6 DEF Knows
  <2> QED BY <2>3, <2>4
<1> QED BY <1>1, <1>6, <1>7 DEF IInv, locals

LEMMA StepIInv == IInv /\ [Next]_vars => IInv'
<1> SUFFICES ASSUME IInv, [Next]_vars PROVE IInv'
  OBVIOUS
<1>1. CASE UNCHANGED vars
  BY <1>1 DEF vars, IInv, Typed, Plan, Knows, KnowsRegistry, KnowsConfig, KnowsPayloads,
              SameOthers, SameUser, Managed
<1>2. CASE Edit
  BY <1>2, EditIInv DEF Edit
<1>3. ASSUME NEW p \in Procs, Manage(p) PROVE IInv'
  <2>1. Good(p)
    BY <1>3, ManageGood
  <2>2. Typed'
    BY <2>1 DEF Good, Own, World, BudgetOK, Typed
  <2>3. \A q \in Procs : Plan(q)' /\ Knows(q)'
    BY <2>1, OthersKnow DEF Good
  <2> QED BY <2>2, <2>3 DEF IInv
<1> QED BY <1>1, <1>2, <1>3 DEF Next

-----------------------------------------------------------------------------
(* The rollback *)

\* As long as no restoration failed, what the rollback has visited is as in the
\* snapshot.
Undone(p) == pc[p] = "rollback" /\ ~bad[p] =>
    \A x \in Managed(job[p]) \ (todo[p] \cup touched[p]) : disk[x] = snap[p][x]

RInv == IInv /\ \A p \in Procs : Undone(p)

\* A rollback begins with every file of the transaction still to be visited.
LEMMA UnwindsToAll ==
  ASSUME IInv, NEW p \in Procs, Manage(p), ~Rollback(p), pc'[p] = "rollback"
  PROVE  todo'[p] = Managed(job'[p])
<1>1. Typed /\ Plan(p) /\ job[p] \in Jobs
  BY DEF IInv, Typed
<1>2. ASSUME Unwind(p) PROVE todo'[p] = Managed(job'[p])
  BY <1>1, <1>2 DEF Unwind, Visit, Typed
<1>3. ASSUME NEW how \in Ended, Finish(p, how) PROVE FALSE
  BY <1>1, <1>3 DEF Finish, Goto, Typed, Ended
<1>4. ASSUME Advance(p), pc[p] \in {"package", "check", "host", "registry"},
             pc[p] = "package" => job[p].verb # "disable"
      PROVE  FALSE
  <2>1. pc[p] \notin Ended
    BY <1>4 DEF Ended
  <2>2. After(job[p], pc[p]) # "rollback"
    BY <1>1, <1>4, <2>1, AfterFacts DEF Plan
  <2> QED BY <1>1, <1>4, <2>2 DEF Advance, Goto, Typed
<1>5. CASE Begin(p)
  BY <1>1, <1>5 DEF Begin, Goto, Typed
<1>6. CASE ReadRegistry(p)
  BY <1>1, <1>3, <1>6 DEF ReadRegistry, Goto, Typed, Ended
<1>7. CASE FindArtifacts(p)
  BY <1>3, <1>7 DEF FindArtifacts, Ended
<1>8. CASE ProveOwned(p)
  BY <1>1, <1>3, <1>8 DEF ProveOwned, Goto, Typed, Ended
<1>9. CASE LoadConfig(p)
  BY <1>1, <1>3, <1>9 DEF LoadConfig, Goto, Typed, Ended
<1>10. CASE Snapshot(p)
  <2>1. After(job[p], pc[p]) # "rollback"
    BY <1>1, <1>10, AfterFacts DEF Snapshot
  <2> QED BY <1>1, <1>3, <1>10, <2>1 DEF Snapshot, Goto, Typed, Ended
<1>11. ASSUME NEW x, Visited(p, x), pc[p] = "package", job[p].verb # "disable" PROVE FALSE
  BY <1>1, <1>4, <1>11 DEF Visited
<1>12. CASE InstallPayload(p)
  <2>1. pc[p] = "package" /\ job[p].verb # "disable"
    BY <1>12 DEF InstallPayload
  <2>2. Unwind(p) \/ \E x \in todo[p] : Visited(p, x)
    BY <1>12 DEF InstallPayload
  <2> QED BY <1>2, <1>11, <2>1, <2>2
<1>13. CASE RemovePayload(p)
  <2>1. pc[p] = "package" /\ job[p].verb # "disable"
    BY <1>13 DEF RemovePayload
  <2>2. Unwind(p) \/ \E x \in todo[p] : Visited(p, x)
    BY <1>13 DEF RemovePayload
  <2> QED BY <1>2, <1>11, <2>1, <2>2
<1>14. CASE CheckPackage(p)
  BY <1>2, <1>4, <1>14 DEF CheckPackage
<1>15. CASE WriteHost(p)
  BY <1>2, <1>4, <1>15 DEF WriteHost, Replace
<1>16. CASE WriteRegistry(p)
  BY <1>2, <1>4, <1>16 DEF WriteRegistry, Replace
<1>17. CASE Report(p)
  BY <1>3, <1>17 DEF Report, Ended
<1>18. CASE Kill(p)
  BY <1>3, <1>18 DEF Kill, Ended
<1> QED BY <1>5, <1>6, <1>7, <1>8, <1>9, <1>10, <1>12, <1>13, <1>14, <1>15, <1>16, <1>17, <1>18
        DEF Manage, Read, Write

\* A restoration that did not fail: the file is as in the snapshot, and no other
\* file has changed.
LEMMA RestoredOne ==
  ASSUME IInv, NEW p \in Procs, Rollback(p)
  PROVE  \E x \in todo[p], ok \in BOOLEAN :
            /\ Rolled(p, x, ok)
            /\ ok => disk'[x] = snap[p][x]
            /\ \A y \in Paths \ {x} : disk'[y] = disk[y]
<1>1. disk \in [Paths -> Contents] /\ pc[p] = "rollback"
  BY DEF IInv, Typed, Files, Rollback
<1>2. PICK x \in LastOf(todo[p]) :
        \/ disk[x] = snap[p][x] /\ Rolled(p, x, TRUE) /\ Keep
        \/ Rolled(p, x, TRUE) /\ Put(p, x, snap[p][x])
        \/ Rolled(p, x, FALSE) /\ WriteFails(p, x, snap[p][x])
        \/ Rolled(p, x, FALSE) /\ Keep
  BY DEF Rollback
<1>3. x \in todo[p] /\ x \in Paths
  <2>1. x \in todo[p]
    BY <1>2 DEF LastOf
  <2> QED BY <1>1, <2>1, SnapProper
<1>4. disk' = disk \/ disk' = [disk EXCEPT ![x] = snap[p][x]]
  BY <1>2 DEF WriteFails, Keep, Put
<1>5. \A y \in Paths \ {x} : disk'[y] = disk[y]
  BY <1>1, <1>4
<1>6. CASE Rolled(p, x, TRUE) /\ disk'[x] = snap[p][x]
  BY <1>3, <1>5, <1>6
<1>7. CASE Rolled(p, x, FALSE)
  BY <1>3, <1>5, <1>7
<1> QED BY <1>1, <1>2, <1>3, <1>6, <1>7 DEF Keep, Put

LEMMA StepRInv == RInv /\ [Next]_vars => RInv'
<1> SUFFICES ASSUME RInv, [Next]_vars PROVE RInv'
  OBVIOUS
<1>1. IInv /\ IInv'
  BY StepIInv DEF RInv
<1>2. CASE UNCHANGED vars
  BY <1>1, <1>2 DEF vars, RInv, Undone, Managed
<1>3. CASE Edit
  <2>1. UNCHANGED <<pc, job, snap, bad, todo>>
    BY <1>1, <1>3, EditIInv DEF Edit, locals
  <2>2. PICK x \in Paths : \E v : disk' = [disk EXCEPT ![x] = v] /\ Disturb(Procs, x)
    BY <1>3, PathFacts DEF Edit, EditOf
  <2>3. \A y \in Paths \ {x} : disk'[y] = disk[y]
    BY <1>1, <2>2 DEF IInv, Typed, Files
  <2>4. touched' = [q \in Procs |-> IF pc'[q] \in Ended THEN {}
                                    ELSE IF q \in Procs /\ x \in Managed(job[q]) THEN touched[q] \cup {x}
                                    ELSE touched[q]]
    BY <2>2 DEF Disturb
  <2>5. ASSUME NEW q \in Procs, pc[q] = "rollback" PROVE Undone(q)'
    <3>1. pc[q] \notin Ended /\ Plan(q) /\ job[q] \in Jobs
      BY <1>1, <2>5 DEF Ended, IInv, Typed
    <3>2. Managed(job[q]) \subseteq Paths
      BY <3>1, ManagedFacts DEF Plan
    <3>3. touched[q] \subseteq touched'[q] /\ \A y \in Managed(job[q]) \ touched'[q] : disk'[y] = disk[y]
      BY <2>1, <2>3, <2>4, <3>1, <3>2
    <3> QED BY <2>1, <3>3 DEF RInv, Undone, Managed
  <2>6. \A q \in Procs : Undone(q)'
    BY <2>1, <2>5 DEF Undone
  <2> QED BY <1>1, <2>6 DEF RInv
<1>4. ASSUME NEW p \in Procs, Manage(p), NEW q \in Procs, pc'[q] = "rollback" PROVE Undone(q)'
  <2>1. Own(p) /\ World(p) /\ pc'[q] \notin Ended
    BY <1>1, <1>4, ManageGood DEF Good, Ended
  <2>2. CASE q # p
    BY <2>1, <2>2 DEF Own, World, RInv, Undone, Managed
  <2>3. CASE q = p /\ ~Rollback(p)
    BY <1>1, <1>4, <2>3, UnwindsToAll DEF Undone
  <2>4. CASE q = p /\ Rollback(p)
    <3>1. PICK x \in todo[p], ok \in BOOLEAN :
            /\ Rolled(p, x, ok)
            /\ ok => disk'[x] = snap[p][x]
            /\ \A y \in Paths \ {x} : disk'[y] = disk[y]
      BY <1>1, <2>4, RestoredOne
    <3>2. Typed /\ Plan(p) /\ job[p] \in Jobs /\ pc[p] = "rollback" /\ pc[p] \notin Ended
      BY <1>1, <2>4 DEF IInv, Typed, Rollback, Ended
    <3>3. ~\E how \in Ended : Finish(p, how)
      BY <1>4, <2>4, <3>2, FinishOwn DEF Ended
    <3>4. /\ Visit(p, todo[p] \ {x})
          /\ bad' = [bad EXCEPT ![p] = @ \/ ~ok]
          /\ UNCHANGED <<pc, job, reg, cfg, snap, expect>>
      BY <3>1, <3>3 DEF Rolled, Ended
    <3>5. todo'[p] = todo[p] \ {x} /\ (~bad'[p] => ok /\ ~bad[p])
      BY <3>2, <3>4 DEF Visit, Typed
    <3>6. Managed(job[p]) \subseteq Paths /\ touched'[p] = touched[p]
      BY <2>1, <2>4, <3>2, ManagedFacts DEF Plan, World
    <3>7. Undone(p)
      BY DEF RInv
    <3> QED BY <2>4, <3>1, <3>2, <3>4, <3>5, <3>6, <3>7 DEF Undone, Managed
  <2> QED BY <2>2, <2>3, <2>4
<1>5. ASSUME NEW p \in Procs, Manage(p) PROVE RInv'
  <2>1. \A q \in Procs : Undone(q)'
    BY <1>4, <1>5 DEF Undone
  <2> QED BY <1>1, <2>1 DEF RInv
<1> QED BY <1>2, <1>3, <1>5 DEF Next

-----------------------------------------------------------------------------
(* What a success rests on: up to its write each file is as it was read, and    *)
(* past its write it is as the command wants it.                                *)

AsRead(p) ==
    /\ pc[p] \in {"owned?", "config?", "snapshot", "package", "check", "host", "registry"} =>
          /\ Registry \notin touched[p] => Integrations(disk[Registry]) = reg[p]
          /\ reg[p][job[p].sel] # None => reg[p][job[p].sel].config = job[p].config
    /\ \/ pc[p] \in {"snapshot", "host"}
       \/ pc[p] \in {"package", "check"} /\ job[p].verb = "install"
       => (job[p].sel \in Hosts /\ job[p].config \notin touched[p] => disk[job[p].config] = cfg[p])

PackageDone(p) == \A x \in Package(job[p].sel) \ touched[p] :
    /\ job[p].verb = "install" =>
          /\ pc[p] = "package" /\ x \notin todo[p] => disk[x] = New
          /\ pc[p] \in {"check", "host", "registry", "status"} => disk[x] = New
    /\ job[p].verb = "uninstall" =>
          /\ pc[p] = "package" /\ x \notin todo[p] => disk[x] = None
          /\ pc[p] \in {"registry", "status"} => disk[x] = None

HostDone(p) ==
    (pc[p] \in {"registry", "status"} \/ (pc[p] = "package" /\ job[p].verb = "uninstall")) =>
        (job[p].sel \in Hosts /\ job[p].config \notin touched[p] =>
            (EventKey[job[p].sel] \in Keys(disk[job[p].config]) <=> job[p].verb = "install"))

RegistryDone(p) == pc[p] = "status" /\ Registry \notin touched[p] =>
    /\ Integrations(disk[Registry]) = NewRegistry(p)
    /\ job[p].verb # "install" => reg[p][job[p].sel] # None
    /\ reg[p][job[p].sel] # None => reg[p][job[p].sel].config = job[p].config

Honest(p) == AsRead(p) /\ PackageDone(p) /\ HostDone(p) /\ RegistryDone(p)

OInv == IInv /\ \A p \in Procs : Honest(p)

\* The labels at which there is something to know.
LEMMA HonestElsewhere ==
  \A p \in Procs : pc'[p] \in Ended \cup {"registry?", "artifacts?", "rollback"} => Honest(p)'
<1> SUFFICES ASSUME NEW p \in Procs, pc'[p] \in Ended \cup {"registry?", "artifacts?", "rollback"}
             PROVE  Honest(p)'
  OBVIOUS
<1>1. pc'[p] \notin {"owned?", "config?", "snapshot", "package", "check", "host", "registry", "status"}
  BY DEF Ended
<1> QED BY <1>1 DEF Honest, AsRead, PackageDone, HostDone, RegistryDone

LEMMA AfterIs ==
  ASSUME NEW j \in Jobs
  PROVE  /\ After(j, "snapshot") = IF j.verb = "install" THEN "package"
                                   ELSE IF j.sel # PathShim THEN "host"
                                   ELSE IF j.verb = "uninstall" THEN "package" ELSE "registry"
         /\ j.verb = "install" =>
               /\ After(j, "package") = "check"
               /\ After(j, "check") = IF j.sel = PathShim THEN "registry" ELSE "host"
         /\ j.verb = "uninstall" => After(j, "package") = "registry"
         /\ After(j, "host") = IF j.verb = "uninstall" THEN "package" ELSE "registry"
         /\ After(j, "registry") = "status"
<1>1. j.verb \in {"install", "disable", "uninstall"}
  BY DEF Jobs, Verbs
<1>2. CASE j.verb = "install"
  BY <1>2 DEF After, Following
<1>3. CASE j.verb = "disable"
  BY <1>3 DEF After, Following
<1>4. CASE j.verb = "uninstall"
  BY <1>4 DEF After, Following
<1> QED BY <1>1, <1>2, <1>3, <1>4

\* What others do, a command that is honest is told.
LEMMA OthersHonest ==
  ASSUME OInv, NEW q \in Procs,
         /\ pc'[q] = pc[q] /\ job'[q] = job[q] /\ reg'[q] = reg[q]
         /\ cfg'[q] = cfg[q] /\ snap'[q] = snap[q] /\ todo'[q] = todo[q],
         pc[q] \notin Ended => /\ touched[q] \subseteq touched'[q]
                               /\ \A x \in Managed(job[q]) \ touched'[q] : disk'[x] = disk[x]
  PROVE  Honest(q)'
<1>1. CASE pc[q] \in Ended
  BY <1>1, HonestElsewhere
<1>2. CASE pc[q] \notin Ended
  <2>1. job[q] \in Jobs /\ job[q].config \in ConfigOf(job[q].sel) /\ Honest(q)
    BY <1>2 DEF OInv, IInv, Typed, Plan
  <2>2. /\ Registry \in Managed(job[q]) /\ Package(job[q].sel) \subseteq Managed(job[q])
        /\ job[q].sel \in Hosts => job[q].config \in Managed(job[q])
    BY <2>1, ManagedFacts
  <2>3. AsRead(q)'
    BY <1>2, <2>1, <2>2 DEF Honest, AsRead
  <2>4. PackageDone(q)'
    BY <1>2, <2>1, <2>2 DEF Honest, PackageDone
  <2>5. HostDone(q)'
    BY <1>2, <2>1, <2>2 DEF Honest, HostDone
  <2>6. RegistryDone(q)'
    BY <1>2, <2>1, <2>2 DEF Honest, RegistryDone, NewRegistry
  <2> QED BY <2>3, <2>4, <2>5, <2>6 DEF Honest
<1> QED BY <1>1, <1>2

\* The reading steps.
LEMMA ReadHonest == ASSUME OInv, NEW p \in Procs, Read(p) PROVE Honest(p)'
<1>1. IInv /\ Typed /\ Plan(p) /\ Honest(p) /\ job[p] \in Jobs /\ disk' = disk
  BY DEF OInv, IInv, Typed, Read, ReadRegistry, FindArtifacts, ProveOwned, LoadConfig, Snapshot, Keep
<1>2. pc'[p] \notin Ended => touched'[p] = touched[p]
  BY <1>1, ManageGood DEF Manage, Good, World
<1>3. ASSUME NEW how \in Ended, Finish(p, how) PROVE Honest(p)'
  BY <1>1, <1>3, FinishOwn, HonestElsewhere
<1>4. job[p].sel \in Hosts <=> job[p].sel # PathShim
  BY <1>1, HookConstants DEF Jobs, Selectors
<1>5. CASE ReadRegistry(p) /\ ~Finish(p, "refused")
  <2> DEFINE read  == Integrations(disk[Registry])
             entry == read[job[p].sel]
             next  == IF job[p].verb # "install"
                      THEN IF entry = None THEN "artifacts?" ELSE "owned?"
                      ELSE IF job[p].sel = PathShim THEN "snapshot" ELSE "config?"
  <2>1. /\ reg' = [reg EXCEPT ![p] = read]
        /\ job' = [job EXCEPT ![p].config = IF entry # None THEN entry.config ELSE @]
        /\ pc' = [pc EXCEPT ![p] = next]
    BY <1>5 DEF ReadRegistry, Goto
  <2> HIDE DEF next
  <2>2. /\ reg'[p] = read /\ job'[p].sel = job[p].sel /\ pc'[p] = next
        /\ entry # None => job'[p].config = entry.config
    BY <1>1, <2>1 DEF Typed, Jobs
  <2>3. /\ next \in {"artifacts?", "owned?", "snapshot", "config?"}
        /\ next = "snapshot" => job[p].sel \notin Hosts
    BY <1>4 DEF next
  <2> QED BY <1>1, <2>2, <2>3 DEF Honest, AsRead, PackageDone, HostDone, RegistryDone
<1>6. CASE FindArtifacts(p)
  BY <1>3, <1>6 DEF FindArtifacts, Ended
<1>7. CASE ProveOwned(p) /\ ~Finish(p, "refused")
  <2> DEFINE next == IF job[p].sel = PathShim THEN "snapshot" ELSE "config?"
  <2>1. pc' = [pc EXCEPT ![p] = next] /\ UNCHANGED <<job, reg, cfg, todo>> /\ pc[p] = "owned?"
    BY <1>7 DEF ProveOwned, Goto, locals
  <2> HIDE DEF next
  <2>2. /\ next \in {"snapshot", "config?"} /\ pc'[p] = next
        /\ next = "snapshot" => job[p].sel \notin Hosts
    BY <1>1, <1>4, <2>1 DEF Typed, next
  <2>3. touched'[p] = touched[p]
    BY <1>2, <2>2 DEF Ended
  <2> QED BY <1>1, <2>1, <2>2, <2>3 DEF Honest, AsRead, PackageDone, HostDone, RegistryDone
<1>8. CASE LoadConfig(p) /\ ~Finish(p, "refused")
  <2>1. /\ pc' = [pc EXCEPT ![p] = "snapshot"] /\ cfg' = [cfg EXCEPT ![p] = disk[job[p].config]]
        /\ UNCHANGED <<job, reg, todo>> /\ pc[p] = "config?"
    BY <1>8 DEF LoadConfig, Goto
  <2>2. pc'[p] = "snapshot" /\ cfg'[p] = disk[job[p].config]
    BY <1>1, <2>1 DEF Typed
  <2>3. touched'[p] = touched[p]
    BY <1>2, <2>2 DEF Ended
  <2> QED BY <1>1, <2>1, <2>2, <2>3 DEF Honest, AsRead, PackageDone, HostDone, RegistryDone
<1>9. CASE Snapshot(p) /\ ~Finish(p, "refused")
  <2> DEFINE next == After(job[p], "snapshot")
  <2>1. /\ pc' = [pc EXCEPT ![p] = next] /\ UNCHANGED <<job, reg, cfg>> /\ pc[p] = "snapshot"
        /\ todo' = [todo EXCEPT ![p] = IF next = "package" THEN Package(job[p].sel) ELSE {}]
    BY <1>9 DEF Snapshot, Goto, Visit
  <2>2. next = IF job[p].verb = "install" THEN "package"
               ELSE IF job[p].sel # PathShim THEN "host"
               ELSE IF job[p].verb = "uninstall" THEN "package" ELSE "registry"
    BY <1>1, AfterIs
  <2> HIDE DEF next
  <2>3. pc'[p] = next /\ (next = "package" => todo'[p] = Package(job[p].sel))
    BY <1>1, <2>1 DEF Typed
  <2>4. touched'[p] = touched[p]
    BY <1>2, <2>2, <2>3 DEF Ended
  <2>5. AsRead(p)'
    BY <1>1, <2>1, <2>2, <2>3, <2>4 DEF Honest, AsRead
  <2>6. PackageDone(p)' /\ HostDone(p)' /\ RegistryDone(p)'
    BY <1>1, <1>4, <2>1, <2>2, <2>3 DEF PackageDone, HostDone, RegistryDone
  <2> QED BY <2>5, <2>6 DEF Honest
<1>10. CASE Finish(p, "refused")
  BY <1>3, <1>10 DEF Ended
<1> QED BY <1>5, <1>6, <1>7, <1>8, <1>9, <1>10 DEF Read

\* What every step inside the transaction leaves alone, unless it ends or rolls back.
LEMMA ActFacts ==
  ASSUME OInv, NEW p \in Procs, pc[p] \in {"package", "check", "host", "registry"}, Manage(p)
  PROVE  /\ IInv /\ Typed /\ Plan(p) /\ Honest(p) /\ job[p] \in Jobs
         /\ job[p].config \in ConfigOf(job[p].sel)
         /\ disk \in Files /\ disk \in [Paths -> Contents]
         /\ job[p].sel \in Hosts <=> job[p].sel # PathShim
         /\ Package(job[p].sel) \subseteq Payloads /\ Package(job[p].sel) \subseteq Managed(job[p])
         /\ job[p].sel \in Hosts => job[p].config \in Configs
         /\ pc'[p] \notin Ended => touched'[p] = touched[p]
<1>1. IInv /\ Typed /\ Plan(p) /\ Honest(p) /\ job[p] \in Jobs /\ pc[p] \notin Ended
  BY DEF OInv, IInv, Typed, Ended
<1>2. job[p].config \in ConfigOf(job[p].sel)
  BY <1>1 DEF Plan
<1>3. disk \in Files /\ disk \in [Paths -> Contents]
  BY <1>1 DEF Typed, Files
<1>4. job[p].sel \in Hosts <=> job[p].sel # PathShim
  BY <1>1, HookConstants DEF Jobs, Selectors
<1>5. pc'[p] \notin Ended => touched'[p] = touched[p]
  BY <1>1, ManageGood DEF Good, World
<1> QED BY <1>1, <1>2, <1>3, <1>4, <1>5, PathFacts, ManagedFacts

\* Advance, seen from the command.
LEMMA AdvanceFacts ==
  ASSUME Typed, NEW p \in Procs, Advance(p)
  PROVE  /\ pc'[p] = After(job[p], pc[p])
         /\ pc'[p] = "package" => todo'[p] = Package(job[p].sel)
         /\ job' = job /\ reg' = reg /\ cfg' = cfg
BY DEF Advance, Goto, Visit, Typed

LEMMA UnwindHonest == ASSUME Typed, NEW p \in Procs, Unwind(p) PROVE Honest(p)'
BY HonestElsewhere DEF Unwind, Goto, Typed

\* A payload is visited: it is as the command wants it, and the rest is as it was.
LEMMA VisitedHonest ==
  ASSUME OInv, NEW p \in Procs, Manage(p), pc[p] = "package", job[p].verb # "disable",
         NEW x \in todo[p], Visited(p, x),
         disk'[x] = IF job[p].verb = "install" THEN New ELSE None,
         \A y \in Paths \ {x} : disk'[y] = disk[y]
  PROVE  Honest(p)'
<1>1. /\ Typed /\ Plan(p) /\ Honest(p) /\ job[p] \in Jobs
      /\ job[p].sel \in Hosts <=> job[p].sel # PathShim
      /\ Package(job[p].sel) \subseteq Payloads
      /\ job[p].sel \in Hosts => job[p].config \in Configs
      /\ pc'[p] \notin Ended => touched'[p] = touched[p]
  BY ActFacts
<1>2. job[p].verb \in {"install", "uninstall"} /\ pc[p] \notin Ended
  BY <1>1 DEF Jobs, Verbs, Ended
<1>3. x \in Package(job[p].sel) /\ x \in Payloads
  BY <1>1, <1>2 DEF Plan
<1>4. /\ disk'[Registry] = disk[Registry]
      /\ job[p].sel \in Hosts => disk'[job[p].config] = disk[job[p].config]
      /\ \A y \in Package(job[p].sel) \ {x} : disk'[y] = disk[y]
  BY <1>1, <1>3, PathFacts
<1>5. CASE todo[p] = {x}
  <2>1. /\ pc'[p] = IF job[p].verb = "install" THEN "check" ELSE "registry"
        /\ job' = job /\ reg' = reg /\ cfg' = cfg
    BY <1>1, <1>2, <1>5, AdvanceFacts, AfterIs DEF Visited
  <2>2. touched'[p] = touched[p]
    BY <1>1, <2>1 DEF Ended
  <2>3. AsRead(p)'
    BY <1>1, <1>2, <1>4, <2>1, <2>2 DEF Honest, AsRead
  <2>4. PackageDone(p)'
    BY <1>1, <1>2, <1>4, <1>5, <2>1, <2>2 DEF Honest, PackageDone
  <2>5. HostDone(p)' /\ RegistryDone(p)'
    BY <1>1, <1>2, <1>4, <2>1, <2>2 DEF Honest, HostDone, RegistryDone
  <2> QED BY <2>3, <2>4, <2>5 DEF Honest
<1>6. CASE todo[p] # {x}
  <2>1. pc' = pc /\ job' = job /\ reg' = reg /\ cfg' = cfg /\ todo'[p] = todo[p] \ {x}
    BY <1>1, <1>6 DEF Visited, Visit, Typed
  <2>2. touched'[p] = touched[p]
    BY <1>1, <1>2, <2>1
  <2>3. AsRead(p)'
    BY <1>1, <1>4, <2>1, <2>2 DEF Honest, AsRead
  <2>4. PackageDone(p)'
    BY <1>1, <1>2, <1>4, <2>1, <2>2 DEF Honest, PackageDone
  <2>5. HostDone(p)' /\ RegistryDone(p)'
    BY <1>1, <1>4, <2>1, <2>2 DEF Honest, HostDone, RegistryDone
  <2> QED BY <2>3, <2>4, <2>5 DEF Honest
<1> QED BY <1>5, <1>6

LEMMA PayloadHonest ==
  ASSUME OInv, NEW p \in Procs, InstallPayload(p) \/ RemovePayload(p)
  PROVE  Honest(p)'
<1>1. /\ pc[p] = "package" /\ job[p].verb # "disable" /\ Manage(p)
      /\ InstallPayload(p) => job[p].verb = "install"
      /\ RemovePayload(p) => job[p].verb = "uninstall"
  BY DEF InstallPayload, RemovePayload, Manage, Write
<1>2. Typed /\ disk \in [Paths -> Contents]
  BY <1>1, ActFacts
<1>3. PICK x \in todo[p] :
        \/ Unwind(p)
        \/ Visited(p, x) /\ disk' = disk /\ disk[x] = IF job[p].verb = "install" THEN New ELSE None
        \/ Visited(p, x) /\ disk' = [disk EXCEPT ![x] = IF job[p].verb = "install" THEN New ELSE None]
  BY <1>1 DEF InstallPayload, RemovePayload, Keep, Put
<1>4. x \in Paths
  BY <1>2 DEF Typed
<1> QED BY <1>1, <1>2, <1>3, <1>4, UnwindHonest, VisitedHonest

LEMMA CheckHonest == ASSUME OInv, NEW p \in Procs, CheckPackage(p) PROVE Honest(p)'
<1>1. pc[p] = "check" /\ disk' = disk /\ Manage(p)
  BY DEF CheckPackage, Keep, Manage, Write
<1>2. /\ Typed /\ Plan(p) /\ Honest(p) /\ job[p] \in Jobs
      /\ job[p].sel \in Hosts <=> job[p].sel # PathShim
      /\ pc'[p] \notin Ended => touched'[p] = touched[p]
  BY <1>1, ActFacts
<1>3. job[p].verb = "install"
  BY <1>1, <1>2 DEF Plan, Ended
<1>4. CASE Advance(p)
  <2>1. /\ pc'[p] = IF job[p].sel = PathShim THEN "registry" ELSE "host"
        /\ job' = job /\ reg' = reg /\ cfg' = cfg
    BY <1>1, <1>2, <1>3, <1>4, AdvanceFacts, AfterIs
  <2>2. touched'[p] = touched[p]
    BY <1>2, <2>1 DEF Ended
  <2> QED BY <1>1, <1>2, <1>3, <2>1, <2>2 DEF Honest, AsRead, PackageDone, HostDone, RegistryDone
<1> QED BY <1>2, <1>4, UnwindHonest DEF CheckPackage

\* The configuration that is written, and the one that need not be.
LEMMA NewConfigFacts ==
  ASSUME Typed, NEW p \in Procs, job[p].sel \in Hosts
  PROVE  EventKey[job[p].sel] \in Keys(NewConfig(p)) <=> job[p].verb = "install"
<1> DEFINE key == EventKey[job[p].sel]
<1>1. key \in EventKeys /\ 0 \in 0..MaxEdits
  BY HookConstants
<1>2. cfg[p] \in ConfigObjects \cup {None}
  BY DEF Typed
<1>3. CASE cfg[p] = None
  <2>1. [user |-> 0, keys |-> {key}] \in ConfigObjects
    BY <1>1 DEF ConfigObjects
  <2> QED BY <1>3, <2>1, NoneIsNothing DEF NewConfig, Keys
<1>4. CASE cfg[p] # None
  <2>1. cfg[p] \in ConfigObjects /\ cfg[p].keys \in SUBSET EventKeys
    BY <1>2, <1>4 DEF ConfigObjects
  <2>2. NewConfig(p) = [cfg[p] EXCEPT !.keys = IF job[p].verb = "install" THEN cfg[p].keys \cup {key}
                                                                         ELSE cfg[p].keys \ {key}]
    BY <1>4, <2>1 DEF NewConfig
  <2>3. NewConfig(p) \in ConfigObjects
    BY <1>1, <2>1, <2>2 DEF ConfigObjects
  <2>4. NewConfig(p).keys = IF job[p].verb = "install" THEN cfg[p].keys \cup {key} ELSE cfg[p].keys \ {key}
    BY <2>1, <2>2 DEF ConfigObjects
  <2> QED BY <2>3, <2>4 DEF Keys
<1> QED BY <1>3, <1>4

LEMMA HostHonest == ASSUME OInv, NEW p \in Procs, WriteHost(p) PROVE Honest(p)'
<1> DEFINE c == job[p].config
<1>1. pc[p] = "host" /\ Manage(p)
  BY DEF WriteHost, Manage, Write
<1>2. /\ Typed /\ Plan(p) /\ Honest(p) /\ job[p] \in Jobs /\ disk \in [Paths -> Contents]
      /\ Package(job[p].sel) \subseteq Payloads
      /\ job[p].sel \in Hosts => c \in Configs
      /\ pc'[p] \notin Ended => touched'[p] = touched[p]
  BY <1>1, ActFacts
<1>3. job[p].sel \in Hosts /\ c \in Configs /\ c \in Paths /\ c # Registry /\ c \notin Package(job[p].sel)
  <2>1. job[p].sel \in Hosts
    BY <1>1, <1>2 DEF Plan, Ended
  <2> QED BY <1>2, <2>1, PathFacts
<1>4. CASE Unwind(p)
  BY <1>2, <1>4, UnwindHonest
<1>5. CASE /\ Advance(p)
           /\ \/ disk' = disk /\ NewConfig(p) = cfg[p]
              \/ disk' = [disk EXCEPT ![c] = NewConfig(p)]
  <2>1. /\ pc'[p] = IF job[p].verb = "uninstall" THEN "package" ELSE "registry"
        /\ pc'[p] = "package" => todo'[p] = Package(job[p].sel)
        /\ job' = job /\ reg' = reg /\ cfg' = cfg
    BY <1>1, <1>2, <1>5, AdvanceFacts, AfterIs
  <2>2. touched'[p] = touched[p]
    BY <1>2, <2>1 DEF Ended
  <2>3. /\ disk'[Registry] = disk[Registry]
        /\ \A x \in Package(job[p].sel) : disk'[x] = disk[x]
    BY <1>2, <1>3, <1>5, PathFacts
  <2>4. c \notin touched[p] => disk'[c] = NewConfig(p)
    BY <1>1, <1>2, <1>3, <1>5 DEF Honest, AsRead
  <2>5. AsRead(p)'
    BY <1>1, <1>2, <2>1, <2>2, <2>3 DEF Honest, AsRead
  <2>6. PackageDone(p)'
    BY <1>1, <1>2, <2>1, <2>2, <2>3 DEF Honest, PackageDone
  <2>7. HostDone(p)'
    BY <1>2, <1>3, <2>1, <2>2, <2>4, NewConfigFacts DEF HostDone
  <2>8. RegistryDone(p)'
    BY <2>1 DEF RegistryDone
  <2> QED BY <2>5, <2>6, <2>7, <2>8 DEF Honest
<1> QED BY <1>4, <1>5 DEF WriteHost, Replace, Keep, Put

LEMMA RegistryHonest == ASSUME OInv, NEW p \in Procs, WriteRegistry(p) PROVE Honest(p)'
<1>1. pc[p] = "registry" /\ Manage(p)
  BY DEF WriteRegistry, Manage, Write
<1>2. /\ IInv /\ Typed /\ Plan(p) /\ Honest(p) /\ job[p] \in Jobs /\ disk \in [Paths -> Contents]
      /\ Package(job[p].sel) \subseteq Payloads
      /\ job[p].sel \in Hosts => job[p].config \in Configs
      /\ pc'[p] \notin Ended => touched'[p] = touched[p]
  BY <1>1, ActFacts
<1>3. CASE Unwind(p)
  BY <1>2, <1>3, UnwindHonest
<1>4. CASE /\ Advance(p)
           /\ \/ disk' = disk /\ NewRegistry(p) = reg[p]
              \/ disk' = [disk EXCEPT ![Registry] = NewRegistry(p)]
  <2>1. pc'[p] = "status" /\ job' = job /\ reg' = reg
    BY <1>1, <1>2, <1>4, AdvanceFacts, AfterIs
  <2>2. touched'[p] = touched[p]
    BY <1>2, <2>1 DEF Ended
  <2>3. /\ \A x \in Package(job[p].sel) : disk'[x] = disk[x]
        /\ job[p].sel \in Hosts => disk'[job[p].config] = disk[job[p].config]
    BY <1>2, <1>4, PathFacts
  <2>4. NewRegistry(p) = NewRegistry(p)'
    BY <2>1 DEF NewRegistry
  <2>5. Integrations(NewRegistry(p)) = NewRegistry(p)
    BY <1>1, <1>2, NewRegistryFits, RegIsItself
  <2>6. Registry \notin touched[p] => Integrations(disk'[Registry]) = NewRegistry(p)
    BY <1>1, <1>2, <1>4, <2>5, PathFacts DEF Honest, AsRead
  <2>7. AsRead(p)' /\ PackageDone(p)' /\ HostDone(p)'
    BY <1>1, <1>2, <2>1, <2>2, <2>3 DEF Honest, AsRead, PackageDone, HostDone
  <2>8. RegistryDone(p)'
    <3>1. job[p].verb # "install" => reg[p][job[p].sel] # None
      BY <1>1, <1>2 DEF Plan, Ended, Loaded, Acting
    <3> QED BY <1>1, <1>2, <2>1, <2>2, <2>4, <2>6, <3>1 DEF RegistryDone, Honest, AsRead
  <2> QED BY <2>7, <2>8 DEF Honest
<1> QED BY <1>3, <1>4 DEF WriteRegistry, Replace, Keep, Put

LEMMA StepOInv == OInv /\ [Next]_vars => OInv'
<1> SUFFICES ASSUME OInv, [Next]_vars PROVE OInv'
  OBVIOUS
<1>1. IInv /\ IInv'
  BY StepIInv DEF OInv
<1>2. CASE UNCHANGED vars
  <2>1. \A q \in Procs : Honest(q)'
    BY <1>2, OthersHonest DEF vars
  <2> QED BY <1>1, <2>1 DEF OInv
<1>3. CASE Edit
  <2>1. UNCHANGED <<pc, job, reg, cfg, snap, todo>>
    BY <1>1, <1>3, EditIInv DEF Edit, locals
  <2>2. PICK x \in Paths : \E v : disk' = [disk EXCEPT ![x] = v] /\ Disturb(Procs, x)
    BY <1>3, PathFacts DEF Edit, EditOf
  <2>3. \A y \in Paths \ {x} : disk'[y] = disk[y]
    BY <1>1, <2>2 DEF IInv, Typed, Files
  <2>4. touched' = [q \in Procs |-> IF pc'[q] \in Ended THEN {}
                                    ELSE IF q \in Procs /\ x \in Managed(job[q]) THEN touched[q] \cup {x}
                                    ELSE touched[q]]
    BY <2>2 DEF Disturb
  <2>5. ASSUME NEW q \in Procs PROVE Honest(q)'
    <3>1. ASSUME pc[q] \notin Ended
          PROVE  /\ touched[q] \subseteq touched'[q]
                 /\ \A y \in Managed(job[q]) \ touched'[q] : disk'[y] = disk[y]
      <4>1. Plan(q) /\ job[q] \in Jobs
        BY <1>1 DEF IInv, Typed
      <4>2. Managed(job[q]) \subseteq Paths
        BY <3>1, <4>1, ManagedFacts DEF Plan
      <4> QED BY <2>1, <2>3, <2>4, <3>1, <4>2
    <3> QED BY <2>1, <3>1, OthersHonest
  <2> QED BY <1>1, <2>5 DEF OInv
<1>4. ASSUME NEW p \in Procs, Manage(p) PROVE OInv'
  <2>1. Own(p) /\ World(p)
    BY <1>1, <1>4, ManageGood DEF Good
  <2>2. ASSUME NEW q \in Procs \ {p} PROVE Honest(q)'
    <3>1. /\ pc'[q] = pc[q] /\ job'[q] = job[q] /\ reg'[q] = reg[q]
          /\ cfg'[q] = cfg[q] /\ snap'[q] = snap[q] /\ todo'[q] = todo[q]
      BY <2>1 DEF Own
    <3> QED BY <2>1, <3>1, OthersHonest DEF World
  <2>3. Honest(p)'
    <3>1. Typed /\ pc[p] \in Ended \cup Phases
      BY <1>1 DEF IInv, Typed
    <3>2. CASE Begin(p)
      BY <3>1, <3>2, HonestElsewhere DEF Begin, Goto, Typed
    <3>3. ASSUME NEW how \in Ended, Finish(p, how) PROVE Honest(p)'
      BY <3>1, <3>3, FinishOwn, HonestElsewhere
    <3>4. CASE Report(p)
      BY <3>3, <3>4 DEF Report, Ended
    <3>5. CASE Kill(p)
      BY <3>3, <3>5 DEF Kill, Ended
    <3>6. CASE Rollback(p)
      <4>1. PICK x \in todo[p], ok \in BOOLEAN : Rolled(p, x, ok)
        BY <1>1, <3>6, RestoredOne
      <4>2. pc'[p] = "rollback" \/ \E how \in Ended : Finish(p, how)
        BY <3>6, <4>1 DEF Rolled, Rollback, Ended
      <4> QED BY <3>3, <4>2, HonestElsewhere
    <3> QED BY <1>4, <3>2, <3>4, <3>5, <3>6, ReadHonest, PayloadHonest, CheckHonest, HostHonest, RegistryHonest
        DEF Manage, Write
  <2> QED BY <1>1, <2>2, <2>3 DEF OInv
<1> QED BY <1>2, <1>3, <1>4 DEF Next

-----------------------------------------------------------------------------
(* The adapter, which a registration needs *)

\* Until it is removed on purpose the adapter is there, or is what the command found.
Adapts(p) ==
    job[p].sel \in Hosts /\ touched[p] = {} /\ pc[p] \in Acting /\ job[p].verb # "uninstall" =>
        disk[Adapter] \in Owned \/ disk[Adapter] = snap[p][Adapter]

AInv == IInv /\ \A p \in Procs : Adapts(p)

LEMMA StepAInv == AInv /\ [Next]_vars => AInv'
<1> SUFFICES ASSUME AInv, [Next]_vars, NEW q \in Procs,
                    (job[q].sel \in Hosts /\ touched[q] = {} /\ pc[q] \in Acting /\ job[q].verb # "uninstall")'
             PROVE  disk'[Adapter] \in Owned \/ disk'[Adapter] = snap'[q][Adapter]
  BY StepIInv DEF AInv, Adapts
<1>1. IInv /\ Typed /\ Plan(q) /\ Adapts(q) /\ job[q] \in Jobs /\ disk \in [Paths -> Contents]
  BY DEF AInv, IInv, Typed, Files
<1>2. pc'[q] \notin Ended
  BY DEF Ended, Acting
<1>3. CASE /\ pc'[q] = pc[q] /\ job'[q] = job[q] /\ snap'[q] = snap[q]
           /\ touched[q] \subseteq touched'[q]
           /\ \A x \in Managed(job[q]) \ touched'[q] : disk'[x] = disk[x]
  <2>1. job[q].config \in ConfigOf(job[q].sel)
    BY <1>1, <1>2, <1>3 DEF Plan
  <2>2. Adapter \in Managed(job[q])
    BY <1>1, <1>3, <2>1, ManagedFacts, HookConstants DEF Package
  <2> QED BY <1>1, <1>3, <2>2 DEF Adapts
<1>4. CASE UNCHANGED vars
  BY <1>3, <1>4 DEF vars
<1>5. CASE Edit
  <2>1. UNCHANGED <<pc, job, snap>>
    BY <1>1, <1>5, EditIInv DEF Edit, locals
  <2>2. PICK x \in Paths : \E v : disk' = [disk EXCEPT ![x] = v] /\ Disturb(Procs, x)
    BY <1>5, PathFacts DEF Edit, EditOf
  <2>3. x \notin Managed(job[q]) /\ touched'[q] = touched[q]
    BY <1>2, <2>2 DEF Disturb
  <2>4. \A y \in Managed(job[q]) : disk'[y] = disk[y]
    <3>1. Managed(job[q]) \subseteq Paths
      BY <1>1, <1>2, <2>1, ManagedFacts DEF Plan
    <3> QED BY <1>1, <2>2, <2>3, <3>1
  <2> QED BY <1>3, <2>1, <2>3, <2>4
<1>6. ASSUME NEW p \in Procs, Manage(p), p # q PROVE disk'[Adapter] \in Owned \/ disk'[Adapter] = snap'[q][Adapter]
  BY <1>1, <1>2, <1>3, <1>6, ManageGood DEF Good, Own, World
<1>7. CASE Manage(q)
  <2>1. touched'[q] = touched[q] /\ Adapter \in Paths
    BY <1>1, <1>2, <1>7, ManageGood, PathFacts DEF Good, World, Payloads
  <2>2. ASSUME pc[q] \in Acting, job'[q] = job[q], snap'[q] = snap[q],
               disk'[Adapter] \in {disk[Adapter], New, snap[q][Adapter]}
        PROVE  disk'[Adapter] \in Owned \/ disk'[Adapter] = snap'[q][Adapter]
    BY <1>1, <2>1, <2>2 DEF Adapts, Owned
  <2>3. ASSUME NEW how \in Ended, Finish(q, how) PROVE FALSE
    BY <1>1, <1>2, <2>3, FinishOwn
  <2>4. CASE Begin(q) \/ ReadRegistry(q) \/ FindArtifacts(q) \/ ProveOwned(q) \/ LoadConfig(q) \/ Report(q) \/ Kill(q)
    <3>1. ~FindArtifacts(q) /\ ~Report(q) /\ ~Kill(q)
      BY <2>3 DEF FindArtifacts, Report, Kill, Ended
    <3>2. pc'[q] \notin Acting
      BY <1>1, <2>3, <2>4, <3>1 DEF Begin, ReadRegistry, ProveOwned, LoadConfig, Goto, Typed, Acting, Ended
    <3> QED BY <3>2
  <2>5. CASE Snapshot(q)
    <3>1. snap' = [snap EXCEPT ![q] = [x \in Paths |-> IF x \in Managed(job[q]) THEN disk[x] ELSE None]]
          /\ disk' = disk /\ job' = job /\ pc[q] = "snapshot"
      BY <2>3, <2>5 DEF Snapshot, Keep, Ended
    <3>2. job[q].config \in ConfigOf(job[q].sel)
      BY <1>1, <3>1 DEF Plan, Ended
    <3>3. Adapter \in Managed(job[q])
      BY <1>1, <3>1, <3>2, ManagedFacts, HookConstants DEF Package
    <3> QED BY <1>1, <2>1, <3>1, <3>3 DEF Typed
  <2>6. CASE InstallPayload(q)
    <3>1. pc[q] \in Acting /\ job' = job /\ snap' = snap
      BY <2>6 DEF InstallPayload, Acting, Unwind, Visited, Advance
    <3>2. disk' = disk \/ \E x : disk' = [disk EXCEPT ![x] = New]
      BY <2>6 DEF InstallPayload, Keep, Put, WriteFails
    <3> QED BY <1>1, <2>1, <2>2, <3>1, <3>2
  <2>7. CASE RemovePayload(q)
    <3>1. job' = job /\ job[q].verb = "uninstall"
      BY <2>7 DEF RemovePayload, Unwind, Visited, Advance
    <3> QED BY <3>1
  <2>8. CASE CheckPackage(q)
    <3>1. pc[q] \in Acting /\ job' = job /\ snap' = snap /\ disk' = disk
      BY <2>8 DEF CheckPackage, Acting, Unwind, Advance, Keep
    <3> QED BY <2>2, <3>1
  <2>9. CASE WriteHost(q)
    <3>1. pc[q] \in Acting /\ pc[q] = "host" /\ job' = job /\ snap' = snap
      BY <2>9 DEF WriteHost, Replace, Acting, Unwind, Advance
    <3>2. job[q].config # Adapter
      <4>1. job[q].sel \in Hosts /\ job[q].config \in ConfigOf(job[q].sel)
        BY <1>1, <3>1 DEF Plan, Ended
      <4> QED BY <1>1, <4>1, ManagedFacts, PathFacts DEF Payloads
    <3>3. disk' = disk \/ \E v : disk' = [disk EXCEPT ![job[q].config] = v]
      BY <2>9 DEF WriteHost, Replace, Keep, Put, WriteFails
    <3> QED BY <1>1, <2>1, <2>2, <3>1, <3>2, <3>3
  <2>10. CASE WriteRegistry(q)
    <3>1. pc[q] \in Acting /\ job' = job /\ snap' = snap
      BY <2>10 DEF WriteRegistry, Replace, Acting, Unwind, Advance
    <3>2. disk' = disk \/ \E v : disk' = [disk EXCEPT ![Registry] = v]
      BY <2>10 DEF WriteRegistry, Replace, Keep, Put, WriteFails
    <3> QED BY <1>1, <2>1, <2>2, <3>1, <3>2, HookConstants
  <2>11. CASE Rollback(q)
    <3>1. pc[q] \in Acting /\ job' = job /\ snap' = snap
      BY <2>3, <2>11 DEF Rollback, Rolled, Acting, Ended
    <3>2. disk' = disk \/ \E x : disk' = [disk EXCEPT ![x] = snap[q][x]]
      BY <2>11 DEF Rollback, Keep, Put, WriteFails
    <3> QED BY <1>1, <2>1, <2>2, <3>1, <3>2
  <2> QED BY <1>7, <2>4, <2>5, <2>6, <2>7, <2>8, <2>9, <2>10, <2>11 DEF Manage, Read, Write
<1> QED BY <1>4, <1>5, <1>6, <1>7 DEF Next

\* A step after which the registration dangles found it so.
LEMMA DanglesBefore ==
  ASSUME OInv, RInv, AInv, NEW p \in Procs, Manage(p), pc[p] \notin Ended, touched[p] = {}, ~bad[p],
         pc[p] = "rollback" => job[p].verb # "uninstall", Dangles(disk', job[p])
  PROVE  Dangles(disk, job[p]) \/ Dangles(snap[p], job[p])
<1> DEFINE c   == job[p].config
           key == EventKey[job[p].sel]
<1>1. /\ Typed /\ Plan(p) /\ Honest(p) /\ Undone(p) /\ Adapts(p) /\ job[p] \in Jobs
      /\ disk \in [Paths -> Contents]
  BY DEF OInv, RInv, AInv, IInv, Typed, Files
<1>2. job[p].sel \in Hosts /\ key \in Keys(disk'[c]) /\ disk'[Adapter] \notin Owned
  BY DEF Dangles
<1>3. c \in ConfigOf(job[p].sel) /\ c \in Configs /\ c \in Managed(job[p])
  BY <1>1, <1>2, ManagedFacts DEF Plan
<1>4. Package(job[p].sel) = {Adapter} /\ Adapter \in Payloads
  BY <1>2, HookConstants DEF Package, Payloads
<1>5. c \in Paths /\ Adapter \in Paths /\ c # Adapter /\ c # Registry /\ Adapter # Registry /\ Adapter \notin Configs
  BY <1>3, <1>4, PathFacts
<1>6. CASE disk'[c] = disk[c] /\ disk'[Adapter] = disk[Adapter]
  BY <1>2, <1>6 DEF Dangles
<1>7. CASE InstallPayload(p)
  <2>1. PICK x \in todo[p] : disk' = disk \/ disk' = [disk EXCEPT ![x] = New]
    BY <1>7 DEF InstallPayload, Keep, Put, WriteFails
  <2>2. x = Adapter
    BY <1>1, <1>4, <1>7 DEF Plan, InstallPayload, Ended
  <2> QED BY <1>1, <1>2, <1>5, <1>6, <2>1, <2>2 DEF Owned
<1>8. CASE RemovePayload(p)
  <2>1. pc[p] = "package" /\ job[p].verb = "uninstall"
    BY <1>8 DEF RemovePayload
  <2>2. key \notin Keys(disk[c])
    BY <1>1, <1>2, <2>1 DEF Honest, HostDone
  <2>3. PICK x \in todo[p] : disk' = disk \/ disk' = [disk EXCEPT ![x] = None]
    BY <1>8 DEF RemovePayload, Keep, Put
  <2>4. x = Adapter
    BY <1>1, <1>4, <2>1 DEF Plan
  <2>5. disk'[c] = disk[c]
    BY <1>1, <1>5, <2>3, <2>4
  <2> QED BY <1>2, <2>2, <2>5
<1>9. CASE WriteHost(p)
  <2>1. pc[p] = "host" /\ (disk' = disk \/ disk' = [disk EXCEPT ![c] = NewConfig(p)])
    BY <1>9 DEF WriteHost, Replace, Keep, Put, WriteFails
  <2>2. CASE disk' = [disk EXCEPT ![c] = NewConfig(p)]
    <3>1. disk'[c] = NewConfig(p) /\ disk'[Adapter] = disk[Adapter]
      BY <1>1, <1>5, <2>2
    <3>2. job[p].verb = "install"
      BY <1>1, <1>2, <3>1, NewConfigFacts
    <3>3. disk[Adapter] = New
      BY <1>1, <1>4, <2>1, <3>2 DEF Honest, PackageDone
    <3> QED BY <1>2, <3>1, <3>3 DEF Owned
  <2> QED BY <1>6, <2>1, <2>2
<1>10. CASE WriteRegistry(p)
  <2>1. disk' = disk \/ \E v : disk' = [disk EXCEPT ![Registry] = v]
    BY <1>10 DEF WriteRegistry, Replace, Keep, Put, WriteFails
  <2> QED BY <1>1, <1>5, <1>6, <2>1
<1>11. CASE Rollback(p)
  <2>1. PICK x \in LastOf(todo[p]) : disk' = disk \/ disk' = [disk EXCEPT ![x] = snap[p][x]]
    BY <1>11 DEF Rollback, Keep, Put, WriteFails
  <2>2. pc[p] = "rollback" /\ pc[p] \in Acting /\ job[p].verb # "uninstall" /\ x \in todo[p]
    BY <1>11, <2>1 DEF Rollback, Acting, LastOf
  <2>3. CASE x = c /\ disk' = [disk EXCEPT ![x] = snap[p][x]]
    <3>1. disk'[c] = snap[p][c] /\ disk'[Adapter] = disk[Adapter]
      BY <1>1, <1>5, <2>3
    <3>2. disk[Adapter] = snap[p][Adapter]
      BY <1>1, <1>2, <2>2, <3>1 DEF Adapts
    <3> QED BY <1>2, <3>1, <3>2 DEF Dangles
  <2>4. CASE x = Adapter /\ disk' = [disk EXCEPT ![x] = snap[p][x]]
    <3>1. disk'[c] = disk[c] /\ disk'[Adapter] = snap[p][Adapter]
      BY <1>1, <1>5, <2>4
    <3>2. c \notin todo[p]
      BY <1>3, <1>5, <2>1, <2>4 DEF LastOf
    <3>3. disk[c] = snap[p][c]
      BY <1>1, <1>3, <2>2, <3>2 DEF Undone
    <3> QED BY <1>2, <3>1, <3>3 DEF Dangles
  <2>5. CASE x # c /\ x # Adapter
    BY <1>1, <1>5, <1>6, <2>1, <2>5
  <2> QED BY <1>6, <2>1, <2>3, <2>4, <2>5
<1>12. CASE disk' = disk
  BY <1>6, <1>12
<1> QED BY <1>7, <1>8, <1>9, <1>10, <1>11, <1>12
    DEF Manage, Read, Write, Begin, ReadRegistry, FindArtifacts, ProveOwned, LoadConfig, Snapshot,
        CheckPackage, Report, Kill, Keep

-----------------------------------------------------------------------------
(* Theorems *)

\* A command knows what it does not own: while nobody else has changed the
\* registry or its configuration, their other entries and the user's part are as
\* the command has read them, on disk and in its snapshot, and somebody's file in
\* the place of a payload is in the snapshot too.  Every write and every rollback
\* of hook.py rests on this; it holds at every label of every command, whatever
\* is killed, fails or is edited.
THEOREM HookInvariance == Spec => []IInv
<1> QED BY InitIInv, StepIInv, PTL DEF Spec

\* The variables keep their types.
THEOREM HookTypeCorrect == Spec => []TypeOK
<1>1. IInv => TypeOK
  <2>1. Regs \subseteq Registries /\ Files \subseteq [Paths -> Contents]
    BY DEF Regs, Files
  <2> QED BY <2>1 DEF IInv, Typed, TypeOK
<1> QED BY <1>1, HookInvariance, PTL

\* No step of any command, at any number of commands and hosts, changes the
\* entries of other selectors, the user's part of a configuration, or a file that
\* is not the package's, unless the file was changed by somebody else while the
\* command ran (hook.py, the writes of the transaction and its rollback).
THEOREM OthersKept == Spec => OthersAreKept
<1> DEFINE Theirs(p) ==
      Acts(p) /\ pc[p] \notin Ended =>
          /\ \/ Registry \in touched[p]
             \/ \A s \in Selectors \ {job[p].sel} : Entry(s)' = Entry(s)
          /\ \A c \in Configs \ touched[p] :
                \/ disk'[c] = disk[c]
                \/ /\ c = job[p].config
                   /\ UserPart(disk'[c], EventKey[job[p].sel]) = UserPart(disk[c], EventKey[job[p].sel])
          /\ \A x \in Payloads \ touched[p] : disk[x] = Foreign => disk'[x] = Foreign
<1>1. ASSUME IInv, Next, NEW q \in Procs PROVE Theirs(q)
  <2>1. CASE Edit
    <3>1. UNCHANGED <<pc, todo>>
      BY <1>1, <2>1, EditIInv DEF Edit
    <3> QED BY <3>1 DEF Acts
  <2>2. ASSUME NEW p \in Procs, Manage(p) PROVE Theirs(q)
    <3>1. Good(p)
      BY <1>1, <2>2, ManageGood
    <3>2. CASE q = p
      BY <3>1, <3>2 DEF Good, Kept
    <3>3. CASE q # p
      BY <3>1, <3>3 DEF Good, Own, Acts
    <3> QED BY <3>2, <3>3
  <2> QED BY <1>1, <2>1, <2>2 DEF Next
<1>2. IInv /\ [Next]_vars => [\A p \in Procs : Theirs(p)]_vars
  BY <1>1
<1> QED BY <1>2, HookInvariance, PTL DEF Spec, OthersAreKept

\* A command that reports an ordinary failure has left every file that nobody
\* else changed as it found it, at whatever step it failed and whether or not the
\* failing write had its effect (_FileTransaction.rollback).
THEOREM FailureIsUndone == Spec => FailedIsUndone
<1>1. Init => RInv
  <2>1. Init => \A p \in Procs : pc[p] = "idle"
    BY DEF Init
  <2> QED BY <2>1, InitIInv DEF RInv, Undone
<1>2. ASSUME RInv, Next, NEW q \in Procs, pc[q] = "rollback", pc'[q] = "failed",
             NEW y \in Managed(job[q]) \ touched[q]
      PROVE  disk'[y] = snap[q][y]
  <2>1. IInv
    BY <1>2 DEF RInv
  <2>2. PICK p \in Procs : Manage(p)
    <3>1. ~Edit
      BY <1>2, <2>1, EditIInv DEF Edit
    <3> QED BY <1>2, <3>1 DEF Next
  <2>3. q = p
    BY <1>2, <2>1, <2>2, ManageGood DEF Good, Own
  <2>4. Typed /\ Plan(p) /\ job[p] \in Jobs /\ pc[p] \notin Ended /\ pc[p] = "rollback" /\ pc'[p] = "failed"
    BY <1>2, <2>1, <2>3 DEF IInv, Typed, Ended
  <2>5. Rollback(p)
    <3>1. ~Kill(p)
      BY <2>1, <2>4, FinishOwn DEF Kill, Ended
    <3> QED BY <2>2, <2>4, <3>1
        DEF Manage, Read, Write, Begin, ReadRegistry, FindArtifacts, ProveOwned, LoadConfig, Snapshot,
            InstallPayload, RemovePayload, CheckPackage, WriteHost, WriteRegistry, Report
  <2>6. PICK x \in todo[p], ok \in BOOLEAN :
          /\ Rolled(p, x, ok)
          /\ ok => disk'[x] = snap[p][x]
          /\ \A z \in Paths \ {x} : disk'[z] = disk[z]
    BY <2>1, <2>5, RestoredOne
  <2>7. todo[p] = {x} /\ Finish(p, IF bad[p] \/ ~ok THEN "rollback_failed" ELSE "failed")
    BY <2>4, <2>6 DEF Rolled
  <2>8. ~bad[p] /\ ok
    BY <2>4, <2>7 DEF Finish, Goto, Typed
  <2>9. y \in Paths
    BY <1>2, <2>3, <2>4, ManagedFacts DEF Plan
  <2>10. Undone(p)
    BY <1>2 DEF RInv
  <2> QED BY <1>2, <2>3, <2>4, <2>6, <2>7, <2>8, <2>9, <2>10 DEF Undone
<1>3. RInv /\ [Next]_vars =>
        [\A p \in Procs : pc[p] = "rollback" /\ pc'[p] = "failed" =>
            \A x \in Managed(job[p]) \ touched[p] : disk'[x] = snap[p][x]]_vars
  BY <1>2
<1> QED BY <1>1, <1>3, StepRInv, PTL DEF Spec, FailedIsUndone

\* A command that reports success has done all of it, if nobody else changed its
\* files: after an install the integration is enforced with the payloads of this
\* source tree, after a disable the entry is there and nothing is registered, after
\* an uninstall nothing is left.  It may skip what it finds done, whatever was
\* killed or failed before it (hook_install, hook_disable, hook_uninstall).
THEOREM SuccessIsTrue == Spec => []OkIsTrue
<1>1. Init => OInv
  <2>1. Init => \A p \in Procs : pc[p] = "idle"
    BY DEF Init
  <2>2. Init => \A p \in Procs : Honest(p)
    BY <2>1 DEF Honest, AsRead, PackageDone, HostDone, RegistryDone
  <2> QED BY <2>2, InitIInv DEF OInv
<1>2. OInv => OkIsTrue
  <2> SUFFICES ASSUME OInv, NEW p \in Procs, pc[p] = "status", touched[p] \cap Managed(job[p]) = {}
               PROVE  CASE job[p].verb = "install"   ->
                              Enforced(job[p].sel) /\ \A x \in Package(job[p].sel) : disk[x] = New
                        [] job[p].verb = "disable"   ->
                              /\ Entry(job[p].sel) = [config |-> job[p].config, enabled |-> FALSE]
                              /\ ~Registered(job[p].sel, job[p].config)
                        [] job[p].verb = "uninstall" ->
                              /\ Entry(job[p].sel) = None
                              /\ ~Registered(job[p].sel, job[p].config)
                              /\ \A x \in Package(job[p].sel) : disk[x] = None
    BY DEF OkIsTrue
  <2> DEFINE j == job[p]
  <2>1. Typed /\ Plan(p) /\ Honest(p) /\ j \in Jobs /\ j.sel \in Selectors /\ reg[p] \in Regs /\ pc[p] \notin Ended
    BY DEF OInv, IInv, Typed, Jobs, Ended
  <2>2. j.config \in ConfigOf(j.sel)
    BY <2>1 DEF Plan
  <2>3. /\ Registry \notin touched[p] /\ Package(j.sel) \cap touched[p] = {}
        /\ j.sel \in Hosts => j.config \notin touched[p]
    BY <2>1, <2>2, ManagedFacts
  <2>4. /\ Entry(j.sel) = NewRegistry(p)[j.sel]
        /\ j.verb # "install" => reg[p][j.sel] # None
        /\ reg[p][j.sel] # None => reg[p][j.sel].config = j.config
    BY <2>1, <2>3 DEF Honest, RegistryDone, Entry
  <2>5. j.sel \in Hosts => (Registered(j.sel, j.config) <=> j.verb = "install")
    BY <2>1, <2>3 DEF Honest, HostDone, Registered
  <2>6. j.verb \in {"install", "disable", "uninstall"} /\ reg[p] \in Registries
    BY <2>1 DEF Jobs, Verbs, Regs
  <2>7. CASE j.verb = "install"
    <3>1. Entry(j.sel) = [config |-> j.config, enabled |-> TRUE]
      BY <2>1, <2>4, <2>6, <2>7 DEF NewRegistry, Registries
    <3>2. Entry(j.sel) # None
      <4>1. [config |-> j.config, enabled |-> TRUE] \in Entries
        BY <2>1 DEF Entries, Jobs
      <4> QED BY <3>1, <4>1, NoneIsNothing
    <3>3. \A x \in Package(j.sel) : disk[x] = New
      BY <2>1, <2>3, <2>7 DEF Honest, PackageDone
    <3>4. Enforced(j.sel)
      BY <2>5, <2>7, <3>1, <3>2, <3>3 DEF Enforced, Owned
    <3> QED BY <2>7, <3>3, <3>4
  <2>8. CASE j.verb = "disable"
    <3>1. reg[p][j.sel] \in Entries
      BY <2>1, <2>4, <2>6, <2>8 DEF Registries
    <3>2. Entry(j.sel) = [reg[p][j.sel] EXCEPT !.enabled = FALSE]
      BY <2>1, <2>4, <2>6, <2>8 DEF NewRegistry, Registries
    <3>3. Entry(j.sel) = [config |-> j.config, enabled |-> FALSE]
      BY <2>4, <2>8, <3>1, <3>2 DEF Entries
    <3> QED BY <2>5, <2>8, <3>3 DEF Registered
  <2>9. CASE j.verb = "uninstall"
    <3>1. Entry(j.sel) = None
      BY <2>1, <2>4, <2>6, <2>9 DEF NewRegistry, Registries
    <3>2. \A x \in Package(j.sel) : disk[x] = None
      BY <2>1, <2>3, <2>9 DEF Honest, PackageDone
    <3> QED BY <2>5, <2>9, <3>1, <3>2 DEF Registered
  <2> QED BY <2>6, <2>7, <2>8, <2>9
<1> QED BY <1>1, <1>2, StepOInv, PTL DEF Spec

\* No order of writes, no kill and no failed install or disable leaves a host with
\* a registration of a command's without the adapter it names, unless the command
\* found it so, somebody else changed its files, or two failures met (the order of
\* the steps in hook_install, hook_disable and hook_uninstall, and of the rollback).
THEOREM AdapterOutlives == Spec => AdapterOutlivesRegistration
<1>1. Init => OInv /\ RInv /\ AInv
  <2>1. Init => \A p \in Procs : pc[p] = "idle"
    BY DEF Init
  <2>2. Init => \A p \in Procs : Honest(p) /\ Undone(p) /\ Adapts(p)
    BY <2>1 DEF Honest, AsRead, PackageDone, HostDone, RegistryDone, Undone, Adapts, Acting
  <2> QED BY <2>2, InitIInv DEF OInv, RInv, AInv
<1>2. ASSUME OInv, RInv, AInv, Next, NEW q \in Procs, Acts(q), pc[q] \notin Ended, touched[q] = {}, ~bad[q],
             pc[q] = "rollback" => job[q].verb # "uninstall", Dangles(disk', job[q])
      PROVE  Dangles(disk, job[q]) \/ Dangles(snap[q], job[q])
  <2>1. IInv
    BY <1>2 DEF OInv
  <2>2. PICK p \in Procs : Manage(p)
    <3>1. ~Edit
      BY <1>2, <2>1, EditIInv DEF Edit, Acts
    <3> QED BY <1>2, <3>1 DEF Next
  <2>3. q = p
    BY <1>2, <2>1, <2>2, ManageGood DEF Good, Own, Acts
  <2> QED BY <1>2, <2>2, <2>3, DanglesBefore
<1>3. OInv /\ RInv /\ AInv /\ [Next]_vars =>
        [\A p \in Procs :
          /\ Acts(p) /\ pc[p] \notin Ended /\ touched[p] = {} /\ ~bad[p]
          /\ pc[p] = "rollback" => job[p].verb # "uninstall"
          /\ Dangles(disk', job[p])
          => Dangles(disk, job[p]) \/ Dangles(snap[p], job[p])]_vars
  BY <1>2
<1> QED BY <1>1, <1>3, StepOInv, StepRInv, StepAInv, PTL DEF Spec, AdapterOutlivesRegistration

=============================================================================
