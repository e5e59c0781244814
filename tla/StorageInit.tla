---------------------------- MODULE StorageInit ----------------------------
(***************************************************************************)
(* Several processes initialise one storage root (initialize_layout), any  *)
(* of them may be killed or meet a failing call, the power may fail, and   *)
(* commands already use the store once it is complete (require_layout).    *)
(*                                                                         *)
(* Each name is looked at and made in two steps.  A name that was made is  *)
(* on the disk when its directory has been flushed; until then a power     *)
(* failure may take it, and all that is below it.                          *)
(***************************************************************************)
EXTENDS Naturals, Sequences

CONSTANTS
  Proc,
  MaxInits, MaxUpsets, MaxForeign, MaxLosses, MaxLines  \* bounds; an upset is a failing call or a kill

ASSUME StorageInitConstants ==
  /\ MaxInits \in Nat /\ MaxUpsets \in Nat
  /\ MaxForeign \in Nat /\ MaxLosses \in Nat /\ MaxLines \in Nat

\* The names in the order in which they are made; "above" is the directory
\* that holds the root, and stands for all that os.makedirs may have to make.
Order == <<"above", "root", "locks", "trash", "objects", "ledger", "lock">>
Name  == {"above", "root", "locks", "trash", "objects", "ledger", "lock"}
Dirs  == {"above", "root", "locks", "trash", "objects"}

Parent == [above |-> "ground", root |-> "above", locks |-> "root", trash |-> "root",
           objects |-> "trash", ledger |-> "root", lock |-> "locks"]

Right(x) == IF x \in Dirs THEN "dir" ELSE "file"

VARIABLES
  kind,     \* what is at each name; "foreign" is of another kind than expected
  durable,  \* the names that a power failure leaves
  lines,    \* the records in the ledger that were acknowledged
  pc, at,   \* where each process is: the phase, and the place in Order or Flushes
  made,     \* what it made itself: created_dirs, ledger_created, lock_created
  excuse,   \* history: a call of this initialisation has failed
  vouched,  \* history: the names made by an initialisation that succeeded
  budget

vars  == <<kind, durable, lines, pc, at, made, excuse, vouched, budget>>
disk  == <<kind, durable, lines>>

Init ==
  /\ \E d \in {"none", "dir"} :
       /\ kind = [x \in Name |-> IF x = "above" THEN d ELSE "none"]
       /\ durable = IF d = "dir" THEN {"above"} ELSE {}
  /\ lines = 0
  /\ pc = [p \in Proc |-> "idle"] /\ at = [p \in Proc |-> 1]
  /\ made = [p \in Proc |-> {}] /\ excuse = [p \in Proc |-> FALSE]
  /\ vouched = {}
  /\ budget = [inits |-> MaxInits, upsets |-> MaxUpsets, foreign |-> MaxForeign, losses |-> MaxLosses]

Spend(what) == budget[what] > 0 /\ budget' = [budget EXCEPT ![what] = @ - 1]

Running == {"look", "make", "flush"}
Whole   == \A x \in Name : kind[x] = Right(x)

-----------------------------------------------------------------------------
Goto(p, phase) == pc' = [pc EXCEPT ![p] = phase]
Stop(p, end) ==
  Goto(p, end) /\ at' = [at EXCEPT ![p] = 1] /\ made' = [made EXCEPT ![p] = {}]

\* To the next name; os.makedirs makes the root without looking at it.
Advance(p) ==
  /\ at' = [at EXCEPT ![p] = @ + 1]
  /\ Goto(p, IF at[p] = Len(Order) THEN "flush" ELSE IF at[p] = 1 THEN "make" ELSE "look")

\* os.path.lexists(layout.root); a root that exists must be a directory.
Start(p) ==
  /\ pc[p] \notin Running
  /\ Spend("inits")
  /\ excuse' = [excuse EXCEPT ![p] = FALSE]
  /\ \/ kind["root"] = "none" /\ Goto(p, "look") /\ at' = [at EXCEPT ![p] = 1]
     \/ kind["root"] = "dir" /\ Goto(p, "look") /\ at' = [at EXCEPT ![p] = 3]
     \/ kind["root"] = "foreign" /\ Goto(p, "failed") /\ UNCHANGED at
  /\ UNCHANGED <<disk, made, vouched>>

\* What is acceptable at a name that is there: os.makedirs does not mind what
\* is above the root until it makes the root.
Accepted(x) == kind[x] = Right(x) \/ (x = "above" /\ kind[x] # "none")

\* lstat in _ensure_directory and _ensure_regular_file.
Look(p) ==
  /\ pc[p] = "look"
  /\ LET x == Order[at[p]] IN
     \/ kind[x] = "none" /\ Goto(p, "make") /\ UNCHANGED <<at, made>>
     \/ Accepted(x) /\ Advance(p) /\ UNCHANGED made
     \/ kind[x] # "none" /\ ~Accepted(x) /\ Stop(p, "failed")
  /\ UNCHANGED <<disk, excuse, vouched, budget>>

\* MUTANT: a directory that has appeared since it was looked for is an error.
Make_Exclusive(p) ==
  /\ pc[p] = "make"
  /\ LET x == Order[at[p]] IN
     IF kind[x] = "none" /\ (x # "above" => kind[Parent[x]] = "dir")
       THEN /\ kind' = [kind EXCEPT ![x] = Right(x)]
            /\ made' = [made EXCEPT ![p] = @ \cup {x}] /\ Advance(p)
       ELSE Stop(p, "failed") /\ UNCHANGED kind
  /\ UNCHANGED <<durable, lines, excuse, vouched, budget>>

\* MUTANT: whatever has appeared since is taken for a directory.
Make_Trusting(p) ==
  /\ pc[p] = "make"
  /\ LET x == Order[at[p]] IN
     IF kind[x] = "none"
       THEN /\ kind' = [kind EXCEPT ![x] = Right(x)]
            /\ made' = [made EXCEPT ![p] = @ \cup {x}]
       ELSE UNCHANGED <<kind, made>>
  /\ Advance(p)
  /\ UNCHANGED <<durable, lines, excuse, vouched, budget>>

\* mkdir, or open with O_CREAT and O_EXCL.  If the name has appeared since it
\* was looked for it is looked at again.  A root that another process made
\* counts as created all the same, and what os.makedirs made above it does not.
Make(p) ==
  /\ pc[p] = "make"
  /\ LET x == Order[at[p]] IN
     \/ /\ kind[x] = "none" /\ (x # "above" => kind[Parent[x]] = "dir")
        /\ kind' = [kind EXCEPT ![x] = Right(x)]
        /\ made' = [made EXCEPT ![p] = @ \cup ({x} \ {"above"})]
        /\ Advance(p)
     \/ /\ kind[x] # "none" /\ Accepted(x)
        /\ made' = IF x = "root" THEN [made EXCEPT ![p] = @ \cup {x}] ELSE made
        /\ Advance(p) /\ UNCHANGED kind
     \/ /\ \/ kind[x] # "none" /\ ~Accepted(x)
           \/ x # "above" /\ kind[Parent[x]] # "dir"
        /\ Stop(p, "failed") /\ UNCHANGED kind
  /\ UNCHANGED <<durable, lines, excuse, vouched, budget>>

\* A call fails; a new file whose fsync fails stays.
Fail(p) ==
  /\ pc[p] \in Running
  /\ Spend("upsets")
  /\ excuse' = [excuse EXCEPT ![p] = TRUE] /\ Stop(p, "failed")
  /\ \/ UNCHANGED kind
     \/ /\ pc[p] = "make" /\ Order[at[p]] \notin Dirs /\ kind[Order[at[p]]] = "none"
        /\ kind[Parent[Order[at[p]]]] = "dir"
        /\ kind' = [kind EXCEPT ![Order[at[p]]] = "file"]
  /\ UNCHANGED <<durable, lines, vouched>>

\* MUTANT: the directory of a new root is not flushed.
Flushes_NotAbove ==
  << [of |-> {"ledger", "lock"}, dir |-> "locks"], [of |-> {"ledger", "lock"}, dir |-> "root"],
     [of |-> {"objects"}, dir |-> "trash"], [of |-> {"trash"}, dir |-> "root"],
     [of |-> {"locks"}, dir |-> "root"], [of |-> {}, dir |-> "above"] >>

\* The directories that are flushed at the end, and for what: two for the files,
\* then the parents of created_dirs in reverse.
Flushes ==
  << [of |-> {"ledger", "lock"}, dir |-> "locks"], [of |-> {"ledger", "lock"}, dir |-> "root"],
     [of |-> {"objects"}, dir |-> "trash"], [of |-> {"trash"}, dir |-> "root"],
     [of |-> {"locks"}, dir |-> "root"], [of |-> {"root"}, dir |-> "above"] >>

In(d) == {x \in Name : Parent[x] = d /\ kind[x] # "none"}

\* _sync_directory, for what this process has made.
Flush(p) ==
  LET i == at[p] - Len(Order) IN
  /\ pc[p] = "flush" /\ i <= Len(Flushes)
  /\ durable' = IF made[p] \cap Flushes[i].of # {} THEN durable \cup In(Flushes[i].dir) ELSE durable
  /\ at' = [at EXCEPT ![p] = @ + 1]
  /\ UNCHANGED <<kind, lines, pc, made, excuse, vouched, budget>>

Finish(p) ==
  /\ pc[p] = "flush" /\ at[p] - Len(Order) > Len(Flushes)
  /\ Stop(p, "done")
  /\ vouched' = vouched \cup made[p]
  /\ UNCHANGED <<disk, excuse, budget>>

Kill(p) ==
  /\ pc[p] \in Running
  /\ Spend("upsets")
  /\ Stop(p, "idle")
  /\ UNCHANGED <<disk, excuse, vouched>>

-----------------------------------------------------------------------------
\* A command that finds the layout complete appends a record, which flushes
\* the ledger and its directory.
Use ==
  /\ Whole /\ lines < MaxLines
  /\ lines' = lines + 1
  /\ durable' = durable \cup In("root")
  /\ UNCHANGED <<kind, pc, at, made, excuse, vouched, budget>>

\* Somebody else makes something at a free name that should not be there.
Foreign ==
  /\ Spend("foreign")
  /\ \E x \in Name \ {"above"} :
       /\ kind[x] = "none" /\ kind[Parent[x]] = "dir"
       /\ kind' = [kind EXCEPT ![x] = "foreign"]
  /\ UNCHANGED <<durable, lines, pc, at, made, excuse, vouched>>

Above == [above |-> {}, root |-> {"above"}, locks |-> {"above", "root"},
          trash |-> {"above", "root"}, objects |-> {"above", "root", "trash"},
          ledger |-> {"above", "root"}, lock |-> {"above", "root", "locks"}]

\* Names that were not flushed may be gone, with what is below them; all the
\* processes are.
PowerLoss ==
  /\ Spend("losses")
  /\ \E lost \in SUBSET {x \in Name \ durable : kind[x] # "none"} :
       LET gone == {x \in Name : x \in lost \/ Above[x] \cap lost # {}} IN
       /\ kind' = [x \in Name |-> IF x \in gone THEN "none" ELSE kind[x]]
       /\ durable' = {x \in Name : kind'[x] # "none"}
       /\ lines' = IF "ledger" \in gone THEN 0 ELSE lines
       /\ vouched' = vouched \ gone
  /\ pc' = [p \in Proc |-> "idle"]
  /\ at' = [p \in Proc |-> 1] /\ made' = [p \in Proc |-> {}]
  /\ excuse' = [p \in Proc |-> FALSE]

Step(p) == Start(p) \/ Look(p) \/ Make(p) \/ Flush(p) \/ Finish(p) \/ Fail(p) \/ Kill(p)

Next == (\E p \in Proc : Step(p)) \/ Use \/ Foreign \/ PowerLoss

Spec == Init /\ [][Next]_vars

-----------------------------------------------------------------------------
(* Properties *)

\* Types, and a tree: what exists is in a directory that exists.
TypeOK ==
  /\ kind \in [Name -> {"none", "dir", "file", "foreign"}]
  /\ durable \subseteq {x \in Name : kind[x] # "none"}
  /\ lines \in 0..MaxLines
  /\ pc \in [Proc -> Running \cup {"idle", "failed", "done"}]
  /\ at \in [Proc -> Nat \ {0}]
  /\ made \in [Proc -> SUBSET Name] /\ excuse \in [Proc -> BOOLEAN]
  /\ vouched \subseteq Name
  /\ \A x \in Name \ {"above"} : kind[x] # "none" => kind[Parent[x]] = "dir"

\* An init that reports success has left a complete layout, whoever else was
\* initialising the root and whatever had appeared there.
SuccessIsWhole == (\E p \in Proc : pc[p] = "done") => Whole

\* An init fails for no other reason than a failing call or an object of the
\* wrong kind: not because another init is running, and not because of what a
\* killed one or a power failure has left.
FailsForAReason ==
  \A p \in Proc : pc[p] = "failed" => excuse[p] \/ \E x \in Name : kind[x] = "foreign"

\* No init takes anything away: records that commands have written while it
\* was running stay, and only a power failure takes names.
NothingIsTaken ==
  [][~PowerLoss => lines' >= lines /\ \A x \in Name : kind[x] # "none" => kind'[x] = kind[x]]_vars

\* A power failure takes a name made by an init that reported success only
\* together with a directory above it that no successful init had made.
VouchedSurvives ==
  [][\A x \in vouched : kind'[x] = "none" =>
        \E y \in Above[x] : y \notin vouched /\ kind[y] # "none" /\ kind'[y] = "none"]_vars
=============================================================================
