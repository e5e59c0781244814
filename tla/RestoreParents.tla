--------------------------- MODULE RestoreParents ---------------------------
(***************************************************************************)
(* One restore whose destination lies below directories that may have to   *)
(* be created (safe_delete/restore.py, with the renames of move.py).  The  *)
(* missing directories are made in the private staging directory, the      *)
(* payload is moved into the deepest, and one rename publishes the chain.  *)
(* If a later step fails the payload is moved back and the directories are *)
(* removed again, each after it has been reclaimed into staging.  The user *)
(* works in the same visible directories all the time.                     *)
(*                                                                         *)
(* The file system is the place of every object.  Places are names in a    *)
(* directory, and a held descriptor is the directory itself: what is done  *)
(* through it follows the directory wherever it is renamed to.             *)
(***************************************************************************)
EXTENDS Integers, FiniteSets

CONSTANTS
    MaxDepth,       \* components between the root and the destination
    UserFiles, UserDirs, \* what the user may create
    Payload,        \* the object in the trash
    Root, Elsewhere, Staging, Box,  \* directories: two visible, two private
    Leaf, Extra,    \* the name of the destination, and a name nobody else uses
    Gone, Unborn,   \* not there any more, or not yet
    MaxMoves, MaxKills, MaxFaults   \* bounds of the environment

User   == UserFiles \cup UserDirs
Made   == 1..MaxDepth           \* the directory that the restore makes for a component
Obj    == Made \cup User \cup {Payload}
Nodes  == Obj \cup {Root, Elsewhere, Staging, Box}
Names  == Obj \cup {Leaf, Extra}
At(d, name) == [in |-> d, as |-> name]
Places == [in : Nodes, as : Names] \cup {Gone, Unborn}

ASSUME RestoreConstants ==
    /\ MaxDepth \in Nat /\ MaxMoves \in Nat /\ MaxKills \in Nat /\ MaxFaults \in Nat
    /\ UserFiles \cap UserDirs = {} /\ User \cap Made = {} /\ Payload \notin User \cup Made
    /\ {Root, Elsewhere, Staging, Box} \cap Obj = {}
    /\ Root \notin {Elsewhere, Staging, Box} /\ Elsewhere \notin {Staging, Box} /\ Staging # Box
    /\ Leaf # Extra /\ {Leaf, Extra} \cap Obj = {}
    /\ Gone # Unborn /\ {Gone, Unborn} \cap [in : Nodes, as : Names] = {}

VARIABLES
    v9fs,       \* whether the file system has no rename that refuses to replace
    depth,      \* the number of components of this destination
    place,      \* where every object is
    pc,
    parent,     \* destination_parent_fd
    anchor,     \* the existing directory below which the first component is missing
    first,      \* the index of that component, depth + 1 if none is missing
    made,       \* created_parents, the components made so far
    published,  \* whether they are published
    step,       \* the component whose directory is being removed
    held,       \* what its reclaim found under the name
    dirty,      \* whether the cleanup has something to report
    why,        \* how the restore will end if the cleanup has nothing to report
    armed,      \* v9fs: the name has been looked at and was free
    fresh,      \* history: what the user put somewhere since then
    budget

vars == <<v9fs, depth, place, pc, parent, anchor, first, made, published, step,
          held, dirty, why, armed, fresh, budget>>
fixed == <<v9fs, depth>>

Ended == {"restored", "refused", "rolled_back", "unclean", "unverified", "rollback_failed", "killed"}
Steps == {"open", "stage", "check", "move", "verify", "publish", "append", "recheck",
          "return", "remove", "inspect", "putback"}

Occupant(slot) == {o \in Obj : place[o] = slot}
Children(d)    == {o \in Obj : place[o] \notin {Gone, Unborn} /\ place[o].in = d}
IsDir(d)       == d \in Made \cup UserDirs \cup {Root, Elsewhere, Staging, Box}
Exists(d)      == d \in Obj => place[d] \notin {Gone, Unborn}

\* The directories a user can get at: below one of the visible two.
Reachable[d \in Nodes] ==
    d \in {Root, Elsewhere} \/ (d \in Obj /\ Exists(d) /\ Reachable[place[d].in])
Visible == {d \in Nodes : IsDir(d) /\ Reachable[d]}
Seen    == {o \in Obj : Reachable[o]}

Deepest     == CHOOSE i \in made : \A j \in made : j <= i
Slot(i)     == At(IF i = first THEN anchor ELSE i - 1, i)     \* where component i belongs
Target      == At(parent, Leaf)
Staged(o)   == At(Staging, o)                                 \* a fresh random name

Init ==
    /\ v9fs \in BOOLEAN /\ depth \in 0..MaxDepth
    /\ place = [o \in Obj |-> IF o = Payload THEN At(Box, Leaf) ELSE Unborn]
    /\ pc = "open"
    /\ parent = Root /\ anchor = Root /\ first = depth + 1
    /\ made = {} /\ published = FALSE
    /\ step = 0 /\ held = {} /\ dirty = FALSE /\ why = "refused"
    /\ armed = FALSE /\ fresh = {}
    /\ budget = [moves |-> MaxMoves, kills |-> MaxKills, faults |-> MaxFaults]

-----------------------------------------------------------------------------
Spend(what) == budget[what] > 0 /\ budget' = [budget EXCEPT ![what] = @ - 1]
Goto(l)     == pc' = l
walk        == <<parent, anchor, first, made, published>>
cleaning    == <<step, held, dirty, why>>

\* rename(2) replaces what it finds if both are directories and the one found
\* is empty, or if neither is a directory.
CanReplace(o, x) == (IsDir(o) <=> IsDir(x)) /\ Children(x) = {}

\* rename_without_replace of o to a slot, and what to do in either case.  The
\* kernel refuses a taken name; on v9fs the name is looked at first and what
\* appears there before the rename is replaced.
Rename(o, slot, Moved, Failed) ==
    \/ /\ Occupant(slot) = {} /\ Exists(slot.in) /\ (v9fs => armed)
       /\ place' = [place EXCEPT ![o] = slot]
       /\ armed' = FALSE /\ Moved /\ UNCHANGED <<fresh, budget>>
    \/ /\ v9fs /\ ~armed /\ Occupant(slot) = {} /\ Exists(slot.in)
       /\ armed' = TRUE /\ fresh' = {}
       /\ UNCHANGED <<place, pc, walk, cleaning, budget>>
    \/ /\ v9fs /\ armed
       /\ \E x \in Occupant(slot) :
            /\ CanReplace(o, x)
            /\ place' = [place EXCEPT ![o] = slot, ![x] = Gone]
       /\ armed' = FALSE /\ Moved /\ UNCHANGED <<fresh, budget>>
    \/ /\ \/ ~Exists(slot.in)
          \/ \E x \in Occupant(slot) : ~(v9fs /\ armed /\ CanReplace(o, x))
       /\ armed' = FALSE /\ Failed /\ UNCHANGED <<place, fresh, budget>>
    \/ /\ Spend("faults")
       /\ armed' = FALSE /\ Failed /\ UNCHANGED <<place, fresh>>

Still == UNCHANGED <<place, armed, fresh, budget>>

\* MUTANT: the components are not taken in reverse.
CleanUp_Forward(reason) ==
    /\ why' = reason /\ held' = {} /\ dirty' = FALSE
    /\ IF made = {} THEN Goto(reason) /\ step' = 0
       ELSE Goto("remove") /\ step' = first
\* _remove_created_parents, the deepest first; then the restore ends.
CleanUp(reason) ==
    /\ why' = reason /\ held' = {} /\ dirty' = FALSE
    /\ IF made = {} THEN Goto(reason) /\ step' = 0
       ELSE Goto("remove") /\ step' = Deepest
\* MUTANT: the removal goes on to directories that were there before.
NextParent_All(report) ==
    /\ held' = {} /\ dirty' = (dirty \/ report)
    /\ IF step = 1 THEN Goto(IF dirty \/ report THEN "unclean" ELSE why) /\ step' = 0
       ELSE Goto("remove") /\ step' = step - 1
    /\ UNCHANGED why
NextParent(report) ==
    /\ held' = {} /\ dirty' = (dirty \/ report)
    /\ IF step = first THEN Goto(IF dirty \/ report THEN "unclean" ELSE why) /\ step' = 0
       ELSE Goto("remove") /\ step' = step - 1
    /\ UNCHANGED why

\* _open_restore_parent walks as far as there are directories; --create-parents
\* may be missing, and what is no directory is refused.
Open ==
    /\ pc = "open"
    /\ \E d \in SUBSET UserDirs, k \in 1..(depth + 1) :
         LET node(i) == IF i = 0 THEN {Root} ELSE {x \in d : place[x].as = i}
         IN
         /\ Cardinality(d) = k - 1 /\ d \subseteq Seen
         /\ \A i \in 1..(k - 1) : \E x \in node(i), y \in node(i - 1) : place[x] = At(y, i)
         /\ \E here \in node(k - 1) :
              LET found == Occupant(At(here, k)) IN
              /\ anchor' = here /\ parent' = here /\ first' = k
              /\ \/ k = depth + 1 /\ Goto("check")
                 \/ k <= depth /\ found = {} /\ Goto("stage")
                 \/ k <= depth /\ found = {} /\ Goto("refused")
                 \/ k <= depth /\ found # {} /\ found \cap UserDirs = {} /\ Goto("refused")
    /\ UNCHANGED <<made, published, cleaning>> /\ Still

\* MUTANT: the directories are made where they belong.
Stage_InPlace ==
    LET i == IF made = {} THEN first ELSE 1 + Deepest
    IN
    /\ pc = "stage" /\ Occupant(Slot(i)) = {}
    /\ place' = [place EXCEPT ![i] = Slot(i)]
    /\ made' = made \cup {i} /\ parent' = i /\ published' = TRUE
    /\ Goto(IF i = depth THEN "check" ELSE "stage")
    /\ UNCHANGED <<anchor, first, cleaning, armed, fresh, budget>>
\* _stage_missing_chain: one round of its loop.  A component whose directory
\* cannot be made or opened is not there.
Stage ==
    LET i == IF made = {} THEN first ELSE 1 + Deepest
    IN
    /\ pc = "stage"
    /\ \/ /\ place' = [place EXCEPT ![i] = IF i = first THEN Staged(i) ELSE At(i - 1, i)]
          /\ made' = made \cup {i} /\ parent' = i
          /\ Goto(IF i = depth THEN "check" ELSE "stage")
          /\ UNCHANGED <<anchor, first, published, cleaning, armed, fresh, budget>>
       \/ /\ Spend("faults") /\ CleanUp("refused")
          /\ UNCHANGED <<place, walk, armed, fresh>>

\* The destination must be free; the devices and the record can still refuse.
CheckDestination ==
    /\ pc = "check"
    /\ \/ Occupant(Target) = {} /\ Goto("move") /\ UNCHANGED cleaning
       \/ CleanUp("refused")
    /\ UNCHANGED walk /\ Still

MovePayload ==
    /\ pc = "move"
    /\ Rename(Payload, Target, Goto("verify") /\ UNCHANGED <<walk, cleaning>>,
                               CleanUp("refused") /\ UNCHANGED walk)

\* The end of atomic_move; after it only the directories are cleaned up.
Verify ==
    /\ pc = "verify"
    /\ \/ /\ Occupant(Target) = {Payload}
          /\ Goto(IF made = {} THEN "append" ELSE "publish")
          /\ UNCHANGED <<cleaning, budget>>
       \/ Occupant(Target) # {Payload} /\ CleanUp("unverified") /\ UNCHANGED budget
       \/ Spend("faults") /\ CleanUp("unverified")
    /\ UNCHANGED <<walk, place, armed, fresh>>

Publish ==
    /\ pc = "publish"
    /\ Rename(first, Slot(first),
              Goto("append") /\ published' = TRUE /\ UNCHANGED <<parent, anchor, first, made, cleaning>>,
              Goto("recheck") /\ UNCHANGED <<walk, cleaning>>)

AppendRecord ==
    /\ pc = "append"
    /\ \/ Goto("restored") /\ UNCHANGED budget
       \/ Goto("recheck") /\ Spend("faults")
    /\ UNCHANGED <<walk, cleaning, place, armed, fresh>>

\* _rollback_restore: the object at the destination must be the restored one.
Recheck ==
    /\ pc = "recheck"
    /\ Goto(IF Occupant(Target) = {Payload} THEN "return" ELSE "rollback_failed")
    /\ UNCHANGED <<walk, cleaning>> /\ Still

\* Then whatever is there is moved into the trash; if it is another object the
\* rollback has failed, and the directories stay.
Return ==
    /\ pc = "return"
    /\ \/ \E o \in Occupant(Target) :
            /\ place' = [place EXCEPT ![o] = At(Box, Leaf)]
            /\ IF o = Payload THEN CleanUp("rolled_back")
               ELSE Goto("rollback_failed") /\ UNCHANGED cleaning
            /\ UNCHANGED budget
       \/ Occupant(Target) = {} /\ Goto("rollback_failed") /\ UNCHANGED <<place, cleaning, budget>>
       \/ Spend("faults") /\ Goto("rollback_failed") /\ UNCHANGED <<place, cleaning>>
    /\ UNCHANGED <<walk, armed, fresh>>

\* _discard_unpublished_parent: rmdir in private staging; a directory that is
\* not empty stays, which is no error.
Discard ==
    /\ pc = "remove" /\ ~published
    /\ \/ /\ place' = [place EXCEPT ![step] = IF Children(step) = {} THEN Gone ELSE @]
          /\ NextParent(FALSE) /\ UNCHANGED budget
       \/ Spend("faults") /\ NextParent(TRUE) /\ UNCHANGED place
    /\ UNCHANGED <<walk, armed, fresh>>

\* _reclaim_published_parent: whatever has the name is renamed into staging,
Reclaim ==
    /\ pc = "remove" /\ published
    /\ \/ \E o \in Occupant(Slot(step)) :
            /\ place' = [place EXCEPT ![o] = Staged(o)]
            /\ held' = {o} /\ Goto("inspect")
            /\ UNCHANGED <<step, dirty, why, budget>>
       \/ Occupant(Slot(step)) = {} /\ NextParent(TRUE) /\ UNCHANGED <<place, budget>>
       \/ Spend("faults") /\ NextParent(TRUE) /\ UNCHANGED place
    /\ UNCHANGED <<walk, armed, fresh>>

\* MUTANT: any empty directory is removed.
Inspect_AnyDirectory == \E o \in held :
    /\ pc = "inspect"
    /\ IF Children(o) = {} THEN place' = [place EXCEPT ![o] = Gone] ELSE UNCHANGED place
    /\ NextParent(FALSE)
    /\ UNCHANGED <<walk, armed, fresh, budget>>
\* opened as a directory, and compared with the directory that was made.  Ours
\* is removed if it is empty; ours with something in it, and a directory that
\* is not ours, are put back.
Inspect == \E o \in held :
    /\ pc = "inspect"
    /\ \/ ~IsDir(o) /\ NextParent(TRUE) /\ UNCHANGED <<place, budget>>
       \/ /\ o = step /\ Children(o) = {}
          /\ place' = [place EXCEPT ![o] = Gone]
          /\ NextParent(FALSE) /\ UNCHANGED budget
       \/ /\ IsDir(o) /\ (o # step \/ Children(o) # {})
          /\ Goto("putback") /\ UNCHANGED <<place, cleaning, budget>>
       \/ Spend("faults") /\ NextParent(TRUE) /\ UNCHANGED place
    /\ UNCHANGED <<walk, armed, fresh>>

\* MUTANT: what cannot be put back is not reported.
PutBack_Silent == \E o \in held :
    /\ pc = "putback"
    /\ Rename(o, Slot(step), NextParent(FALSE) /\ UNCHANGED walk,
                             NextParent(FALSE) /\ UNCHANGED walk)
\* A directory put back that is ours is no error, any other is reported.
PutBack == \E o \in held :
    /\ pc = "putback"
    /\ Rename(o, Slot(step), NextParent(o # step) /\ UNCHANGED walk,
                             NextParent(TRUE) /\ UNCHANGED walk)

Kill == /\ pc \notin Ended
        /\ Spend("kills")
        /\ Goto("killed")
        /\ UNCHANGED <<walk, cleaning, place, armed, fresh>>

Restore ==
    /\ \/ Open \/ Stage \/ CheckDestination \/ MovePayload \/ Verify \/ Publish \/ AppendRecord
       \/ Recheck \/ Return \/ Discard \/ Reclaim \/ Inspect \/ PutBack \/ Kill
    /\ UNCHANGED fixed

-----------------------------------------------------------------------------
(* The user, in the visible directories *)

\* Names that matter: components, the destination, and one more.
Free == {At(d, name) : d \in Visible, name \in (1..depth) \cup {Leaf, Extra}} \ {place[o] : o \in Obj}

UserCreate == \E u \in User, slot \in Free :
    /\ place[u] = Unborn
    /\ place' = [place EXCEPT ![u] = slot]
    /\ fresh' = fresh \cup {u}
UserMovesAway == \E o \in Seen :
    /\ place[o].in # Elsewhere /\ Occupant(At(Elsewhere, o)) = {}
    /\ place' = [place EXCEPT ![o] = At(Elsewhere, o)]
    /\ UNCHANGED fresh
UserDelete == \E o \in Seen :
    /\ Children(o) = {}
    /\ place' = [place EXCEPT ![o] = Gone]
    /\ UNCHANGED fresh

UserStep ==
    /\ pc \notin Ended
    /\ UserCreate \/ UserMovesAway \/ UserDelete
    /\ Spend("moves")
    /\ UNCHANGED <<fixed, pc, walk, cleaning, armed>>

Next == Restore \/ UserStep

Spec == Init /\ [][Next]_vars 

-----------------------------------------------------------------------------
(* Properties *)

TypeOK ==
    /\ v9fs \in BOOLEAN /\ depth \in 0..MaxDepth
    /\ place \in [Obj -> Places]
    /\ pc \in Steps \cup Ended
    /\ parent \in {Root} \cup UserDirs \cup Made /\ anchor \in {Root} \cup UserDirs
    /\ first \in 1..(MaxDepth + 1)
    /\ made = {} \/ \E i \in Made : i <= depth /\ made = first..i
    /\ published \in BOOLEAN /\ step \in 0..MaxDepth
    /\ pc \in {"remove", "inspect", "putback"} => step \in made
    /\ held \in SUBSET Obj /\ dirty \in BOOLEAN /\ why \in Ended
    /\ armed \in BOOLEAN /\ fresh \in SUBSET User

Lost(o) == place[o] = Gone

\* Nothing that is not the restore's own empty directory is ever destroyed by
\* it, in whatever order the user creates, moves and deletes things around its
\* renames; on v9fs only what the user put under the name after the name had
\* been found free.
NothingIsReplaced ==
    [][\A o \in Obj : ~Lost(o) /\ Lost(o)' /\ Restore =>
          \/ o \in Made /\ Children(o) = {}
          \/ v9fs /\ o \in fresh]_vars

\* No empty directory appears at the destination: the chain becomes visible by
\* one rename with the payload already in it, or a directory comes back because
\* something of the user's is in it.
NoBareParent ==
    [][\A i \in Made : i \notin Seen /\ i \in Seen' /\ place'[i] # place[i] =>
          \/ Payload \in Seen'
          \/ pc = "putback" /\ Children(i)' # {}]_vars

\* A rollback that reports nothing left over has left nothing over: the payload
\* is in the trash, and each directory that was made is gone; or the user has
\* put something below, and the directory has been published and is not hidden
\* in staging.
CleanMeansClean ==
    pc = "rolled_back" =>
        /\ place[Payload] = At(Box, Leaf)
        /\ \A i \in made : Lost(i) \/ (published /\ place[i].in # Staging /\ \E u \in User : place[u] # Unborn)

\* What belongs to the user is never left in staging or in the trash without a
\* word: only a restore that ends with a failure of its rollback or cleanup,
\* or is killed in the middle of it, can leave such an object there.
Hidden == {u \in User : place[u] \notin {Gone, Unborn} /\ u \notin Seen}
CaptureIsReported == pc \in Ended /\ Hidden # {} => pc \in {"unclean", "rollback_failed", "killed"}
=============================================================================
