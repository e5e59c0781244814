------------------------ MODULE RestoreParentsProofs ------------------------
(***************************************************************************)
(* Theorems about RestoreParents: for every depth, every set of things the *)
(* user may create and any number of moves and faults, the variables have  *)
(* their types, and the restore destroys nothing but its own empty         *)
(* directories, except what the user put under a name between the look and *)
(* the rename on v9fs.  The second half is about the tree: what is in      *)
(* sight, what a rollback leaves over, and what it hides.                  *)
(***************************************************************************)
EXTENDS RestoreParents, TLAPS, WellFoundedInduction

\* While a rename on v9fs is armed, all that is under the name came since.
ArmedOK ==
    armed =>
        \/ pc \in Ended
        \/ pc = "move"    /\ v9fs /\ Occupant(Target) \subseteq fresh
        \/ pc = "publish" /\ v9fs /\ Occupant(Slot(first)) \subseteq fresh
        \/ pc = "putback" /\ v9fs /\ Occupant(Slot(step)) \subseteq fresh

\* How far the walk has come: nothing is made before the first missing component
\* is known, a round of the loop has a component left to make, and a chain is
\* published only if there is one.
PathOK ==
    /\ pc = "open" => made = {}
    /\ pc = "stage" => \E i \in 0..MaxDepth : i >= first - 1 /\ i < depth /\ made = first..i
    /\ pc = "publish" => made # {}

IInv == TypeOK /\ ArmedOK /\ PathOK

-----------------------------------------------------------------------------
Rec == [in : Nodes, as : Names]

LEMMA AtType == \A d \in Nodes, n \in Names : At(d, n) \in Rec /\ At(d, n).in = d /\ At(d, n).as = n
BY DEF At, Rec

LEMMA RecNotGone == \A x \in Rec : x \in Places /\ x # Gone /\ x # Unborn
BY RestoreConstants DEF Rec, Places

LEMMA MadeInterval ==
  ASSUME NEW a \in Nat, NEW b \in Nat, a <= b
  PROVE  /\ a..b # {}
         /\ (CHOOSE i \in a..b : \A j \in a..b : j <= i) = b
<1>1. b \in a..b /\ \A j \in a..b : j <= b
  OBVIOUS
<1>2. \A i \in a..b : (\A j \in a..b : j <= i) => i = b
  BY <1>1
<1> QED BY <1>1, <1>2

LEMMA DeepestFact ==
  ASSUME TypeOK, made # {}
  PROVE  /\ Deepest \in made /\ Deepest \in 1..depth /\ made = first..Deepest
<1>1. PICK i \in Made : i <= depth /\ made = first..i
  BY DEF TypeOK
<1>2. first \in Nat /\ i \in Nat /\ first <= i /\ depth \in Nat
  BY <1>1, RestoreConstants DEF TypeOK, Made
<1>3. Deepest = i
  BY <1>1, <1>2, MadeInterval DEF Deepest
<1> QED BY <1>1, <1>2, <1>3 DEF Made, TypeOK

LEMMA SlotType ==
  ASSUME TypeOK
  PROVE  /\ Target \in Rec /\ Target.in # Elsewhere
         /\ \A i \in Made : i >= first => Slot(i) \in Rec /\ Slot(i).in # Elsewhere
         /\ \A o \in Obj : Staged(o) \in Rec
         /\ At(Box, Leaf) \in Rec
<1>1. parent \in Nodes /\ parent # Elsewhere
  BY RestoreConstants DEF TypeOK, Nodes, Obj, User
<1>2. anchor \in Nodes /\ anchor # Elsewhere
  BY RestoreConstants DEF TypeOK, Nodes, Obj, User
<1>3. Target \in Rec /\ Target.in # Elsewhere
  BY <1>1, AtType DEF Target, Names
<1>4. ASSUME NEW i \in Made, i >= first PROVE Slot(i) \in Rec /\ Slot(i).in # Elsewhere
  <2>1. i \in Names
    BY DEF Names, Obj
  <2>2. CASE i = first
    BY <1>2, <2>1, <2>2, AtType DEF Slot
  <2>3. CASE i # first
    <3>1. i - 1 \in Made
      BY <1>4, <2>3, RestoreConstants DEF Made, TypeOK
    <3>2. i - 1 \in Nodes /\ i - 1 # Elsewhere
      BY <3>1, RestoreConstants DEF Nodes, Obj
    <3>3. Slot(i) = At(i - 1, i)
      BY <2>3 DEF Slot
    <3> QED BY <2>1, <3>2, <3>3, AtType
  <2> QED BY <2>2, <2>3
<1>5. \A o \in Obj : Staged(o) \in Rec
  BY AtType DEF Staged, Nodes, Names
<1>6. At(Box, Leaf) \in Rec
  BY AtType DEF Nodes, Names
<1> QED BY <1>3, <1>4, <1>5, <1>6

LEMMA InitIInv == Init => IInv
<1> SUFFICES ASSUME Init PROVE IInv
  OBVIOUS
<1>1. At(Box, Leaf) \in Places /\ Unborn \in Places
  BY AtType, RecNotGone DEF Nodes, Names, Places
<1>2. place \in [Obj -> Places]
  BY <1>1 DEF Init
<1>3. first \in 1..(MaxDepth + 1) /\ depth \in 0..MaxDepth
  BY RestoreConstants DEF Init
<1>4. TypeOK
  <2>1. pc \in Steps \cup Ended /\ why \in Ended /\ pc \notin {"remove", "inspect", "putback"}
    BY DEF Init, Steps, Ended
  <2>2. v9fs \in BOOLEAN /\ published \in BOOLEAN /\ dirty \in BOOLEAN /\ armed \in BOOLEAN
    BY DEF Init
  <2>3. parent = Root /\ anchor = Root /\ made = {} /\ step = 0 /\ held = {} /\ fresh = {}
    BY DEF Init
  <2>4. step \in 0..MaxDepth
    BY <2>3, RestoreConstants
  <2> QED BY <1>2, <1>3, <2>1, <2>2, <2>3, <2>4 DEF TypeOK
<1>5. armed = FALSE /\ pc = "open" /\ made = {}
  BY DEF Init
<1> QED BY <1>4, <1>5 DEF IInv, ArmedOK, PathOK

-----------------------------------------------------------------------------
(* The pieces the steps are made of *)

\* What the program counter, the cleanup and the walk may become.
Control ==
    /\ pc' \in Steps \cup Ended
    /\ parent' \in {Root} \cup UserDirs \cup Made /\ anchor' \in {Root} \cup UserDirs
    /\ first' \in 1..(MaxDepth + 1)
    /\ made' = {} \/ \E i \in Made : i <= depth' /\ made' = first'..i
    /\ published' \in BOOLEAN /\ step' \in 0..MaxDepth
    /\ pc' \in {"remove", "inspect", "putback"} => step' \in made'
    /\ held' \in SUBSET Obj /\ dirty' \in BOOLEAN /\ why' \in Ended

\* What the file system may become.
World ==
    /\ place' \in [Obj -> Places] /\ armed' \in BOOLEAN /\ fresh' \in SUBSET User

LEMMA TypeParts == TypeOK /\ Control /\ World /\ UNCHANGED fixed => TypeOK'
BY DEF TypeOK, Control, World, fixed

LEMMA CleanUpControl ==
  ASSUME TypeOK, NEW r \in Ended, CleanUp(r), UNCHANGED walk, UNCHANGED fixed
  PROVE  Control /\ pc' \in Ended \cup {"remove"}
<1>1. CASE made = {} /\ Goto(r) /\ step' = 0
  <2>1. pc' = r /\ step' \in 0..MaxDepth /\ r \notin {"remove", "inspect", "putback"}
    BY <1>1, RestoreConstants DEF Goto, Ended
  <2> QED BY <1>1, <2>1 DEF Control, CleanUp, TypeOK, walk, fixed
<1>2. CASE made # {} /\ Goto("remove") /\ step' = Deepest
  <2>1. Deepest \in made /\ Deepest \in 0..MaxDepth
    BY <1>2, DeepestFact, RestoreConstants DEF TypeOK
  <2>2. "remove" \in Steps /\ pc' = "remove"
    BY <1>2 DEF Steps, Goto
  <2> QED BY <1>2, <2>1, <2>2 DEF Control, CleanUp, TypeOK, walk, fixed
<1> QED BY <1>1, <1>2 DEF CleanUp

LEMMA NextParentControl ==
  ASSUME TypeOK, NEW b \in BOOLEAN, NextParent(b), UNCHANGED walk, UNCHANGED fixed, step \in made
  PROVE  Control /\ pc' \in Ended \cup {"remove"}
<1>1. held' = {} /\ dirty' \in BOOLEAN /\ why' \in Ended
  BY DEF NextParent, TypeOK
<1>2. PICK i \in Made : i <= depth /\ made = first..i
  BY DEF TypeOK
<1>3. first \in Nat /\ first >= 1 /\ i \in Nat /\ i <= MaxDepth /\ step \in first..i
  BY <1>2, RestoreConstants DEF TypeOK, Made
<1>4. CASE step = first
  <2>1. pc' \in Ended /\ step' = 0
    BY <1>4 DEF NextParent, Goto, Ended, TypeOK
  <2>2. pc' \notin {"remove", "inspect", "putback"} /\ step' \in 0..MaxDepth
    BY <2>1, RestoreConstants DEF Ended
  <2> QED BY <1>1, <2>1, <2>2 DEF Control, TypeOK, walk, fixed
<1>5. CASE step # first
  <2>1. pc' = "remove" /\ step' = step - 1
    BY <1>5 DEF NextParent, Goto
  <2>2. step' \in first..i /\ step' \in 0..MaxDepth
    BY <1>3, <1>5, <2>1, RestoreConstants
  <2>3. "remove" \in Steps
    BY DEF Steps
  <2> QED BY <1>1, <1>2, <2>1, <2>2, <2>3 DEF Control, TypeOK, walk, fixed
<1> QED BY <1>4, <1>5

\* What a rename does to the objects and to the look before it, whatever its
\* caller makes of the outcome.
Renamed(o, slot) ==
    \/ place' = [place EXCEPT ![o] = slot] /\ armed' = FALSE /\ UNCHANGED fresh
    \/ /\ v9fs /\ Occupant(slot) = {} /\ armed' = TRUE /\ fresh' = {}
       /\ UNCHANGED <<place, pc, walk, cleaning>>
    \/ /\ v9fs /\ armed /\ armed' = FALSE /\ UNCHANGED fresh
       /\ \E x \in Occupant(slot) : place' = [place EXCEPT ![o] = slot, ![x] = Gone]
    \/ armed' = FALSE /\ UNCHANGED <<place, fresh>>

LEMMA RenameWorld ==
  ASSUME TypeOK, NEW o \in Obj, NEW slot \in Rec, Renamed(o, slot)
  PROVE  World
<1>1. slot \in Places /\ Gone \in Places
  BY RecNotGone DEF Places
<1>2. \A x \in Obj : [place EXCEPT ![o] = slot, ![x] = Gone] \in [Obj -> Places]
  BY <1>1 DEF TypeOK
<1>3. [place EXCEPT ![o] = slot] \in [Obj -> Places]
  BY <1>1 DEF TypeOK
<1>4. place' \in [Obj -> Places]
  BY <1>2, <1>3 DEF Renamed, Occupant, TypeOK
<1>5. armed' \in BOOLEAN
  BY DEF Renamed
<1>6. fresh' \in SUBSET User
  BY DEF Renamed, TypeOK
<1> QED BY <1>4, <1>5, <1>6 DEF World

\* What a step of the restore may destroy.
Keeps ==
    \A o \in Obj : place[o] # Gone /\ place'[o] = Gone =>
        \/ o \in Made /\ Children(o) = {}
        \/ v9fs /\ o \in fresh

\* A rename destroys only what is under the name on v9fs after the look.
LEMMA RenameKeeps ==
  ASSUME TypeOK, NEW o \in Obj, NEW slot \in Rec, Renamed(o, slot),
         armed => Occupant(slot) \subseteq fresh
  PROVE  Keeps
<1> SUFFICES ASSUME NEW x \in Obj, place[x] # Gone, place'[x] = Gone
             PROVE  v9fs /\ x \in fresh
  BY DEF Keeps
<1>1. slot # Gone
  BY RecNotGone
<1>2. CASE place' = [place EXCEPT ![o] = slot]
  BY <1>1, <1>2 DEF TypeOK
<1>3. CASE UNCHANGED place
  BY <1>3
<1>4. CASE v9fs /\ armed /\ \E y \in Occupant(slot) : place' = [place EXCEPT ![o] = slot, ![y] = Gone]
  <2>1. PICK y \in Occupant(slot) : place' = [place EXCEPT ![o] = slot, ![y] = Gone]
    BY <1>4
  <2>2. x # y => place'[x] = place[x] \/ place'[x] = slot
    BY <2>1 DEF TypeOK, Occupant
  <2>3. x = y
    BY <1>1, <2>2
  <2> QED BY <1>4, <2>1, <2>3
<1> QED BY <1>2, <1>3, <1>4 DEF Renamed

\* An object that gets a proper place is not lost, and no other is.
LEMMA PlaceKeeps ==
  ASSUME TypeOK, NEW o \in Obj, NEW slot \in Rec, place' = [place EXCEPT ![o] = slot]
  PROVE  Keeps /\ place' \in [Obj -> Places]
BY RecNotGone DEF TypeOK, Keeps

\* A step that changes no place loses nothing.
LEMMA StillWorld ==
  ASSUME TypeOK, UNCHANGED <<place, armed, fresh>>
  PROVE  World /\ Keeps
BY DEF TypeOK, World, Keeps

\* Only the three renames at visible names are ever armed.
LEMMA Unarmed ==
  ASSUME IInv, pc \in Steps \ {"move", "publish", "putback"}, UNCHANGED armed
  PROVE  ArmedOK'
<1>1. pc \notin Ended
  BY DEF Steps, Ended
<1>2. ~armed
  BY <1>1 DEF IInv, ArmedOK
<1> QED BY <1>2 DEF ArmedOK

LEMMA Disarmed == armed' = FALSE => ArmedOK'
BY DEF ArmedOK

\* The cleanup and the ends are no part of the walk.
LEMMA OffPath == pc' \notin {"open", "stage", "publish"} => PathOK'
BY DEF PathOK

LEMMA EndOffPath == pc' \in Ended \cup {"remove"} => PathOK'
BY DEF PathOK, Ended

\* A step that only goes on to the next label.
LEMMA SameControl ==
  ASSUME TypeOK, UNCHANGED <<walk, cleaning>>, UNCHANGED fixed, pc' \in Steps \cup Ended,
         pc' \in {"remove", "inspect", "putback"} => pc \in {"remove", "inspect", "putback"}
  PROVE  Control
BY DEF TypeOK, Control, walk, cleaning, fixed

\* What every step of the restore does.
Good == Control /\ World /\ ArmedOK' /\ PathOK' /\ Keeps

-----------------------------------------------------------------------------
(* The steps of the restore *)

LEMMA OpenGood == ASSUME IInv, Open, UNCHANGED fixed PROVE Good
<1>0. TypeOK /\ made = {} /\ pc = "open"
  BY DEF IInv, PathOK, Open
<1>1. World /\ Keeps
  BY <1>0, StillWorld DEF Open, Still
<1>2. ArmedOK'
  <2>1. pc \in Steps \ {"move", "publish", "putback"} /\ UNCHANGED armed
    BY <1>0 DEF Steps, Open, Still
  <2> QED BY <2>1, Unarmed
<1>3. PICK d \in SUBSET UserDirs, k \in 1..(depth + 1) :
         \E here \in (IF k - 1 = 0 THEN {Root} ELSE {x \in d : place[x].as = k - 1}) :
              /\ anchor' = here /\ parent' = here /\ first' = k
              /\ \/ k = depth + 1 /\ Goto("check")
                 \/ k <= depth /\ Goto("stage")
                 \/ Goto("refused")
  BY DEF Open
<1>4. PICK here \in {Root} \cup UserDirs :
              /\ anchor' = here /\ parent' = here /\ first' = k
              /\ \/ k = depth + 1 /\ Goto("check")
                 \/ k <= depth /\ Goto("stage")
                 \/ Goto("refused")
  BY <1>3
<1>5. pc' \in {"check", "stage", "refused"} /\ (pc' = "stage" => k <= depth)
  BY <1>4 DEF Goto
<1>6. first' \in 1..(MaxDepth + 1) /\ k \in Nat /\ k >= 1 /\ depth \in Nat /\ depth <= MaxDepth
  BY <1>0, <1>4, RestoreConstants DEF TypeOK
<1>7. made' = {} /\ UNCHANGED <<published, cleaning>>
  BY <1>0 DEF Open
<1>8. Control
  <2>1. pc' \in Steps \cup Ended /\ pc' \notin {"remove", "inspect", "putback"}
    BY <1>5 DEF Steps, Ended
  <2>2. parent' \in {Root} \cup UserDirs \cup Made /\ anchor' \in {Root} \cup UserDirs
    BY <1>4
  <2> QED BY <1>0, <1>6, <1>7, <2>1, <2>2 DEF Control, TypeOK, cleaning
<1>9. PathOK'
  <2>1. ASSUME pc' = "stage" PROVE \E i \in 0..MaxDepth : i >= first' - 1 /\ i < depth' /\ made' = first'..i
    <3>1. depth' = depth /\ first' = k /\ k <= depth
      BY <1>4, <1>5, <2>1 DEF fixed
    <3>2. k - 1 \in 0..MaxDepth /\ k - 1 >= first' - 1 /\ k - 1 < depth' /\ first'..(k - 1) = {}
      BY <1>6, <3>1, RestoreConstants
    <3> QED BY <1>7, <3>2
  <2> QED BY <1>5, <2>1 DEF PathOK
<1> QED BY <1>1, <1>2, <1>8, <1>9 DEF Good

LEMMA StageGood == ASSUME IInv, Stage, UNCHANGED fixed PROVE Good
<1>0. TypeOK /\ pc = "stage"
  BY DEF IInv, Stage
<1>1. PICK b \in 0..MaxDepth : b >= first - 1 /\ b < depth /\ made = first..b
  BY <1>0 DEF IInv, PathOK
<1>2. first \in Nat /\ first >= 1 /\ b \in Nat /\ depth \in Nat /\ depth <= MaxDepth /\ MaxDepth \in Nat
  BY <1>0, RestoreConstants DEF TypeOK
<1> DEFINE i == IF made = {} THEN first ELSE 1 + Deepest
<1>3. i = b + 1
  <2>1. CASE made = {}
    <3>1. ~(first <= b)
      BY <1>1, <1>2, <2>1, MadeInterval
    <3> QED BY <1>1, <1>2, <2>1, <3>1
  <2>2. CASE made # {}
    <3>1. first <= b
      BY <1>1, <1>2, <2>2
    <3>2. Deepest = b
      BY <1>1, <1>2, <3>1, MadeInterval DEF Deepest
    <3> QED BY <1>2, <2>2, <3>2
  <2> QED BY <2>1, <2>2
<1>4. i \in Made /\ i <= depth /\ i >= first
  BY <1>1, <1>2, <1>3 DEF Made
<1>5. ArmedOK'
  <2>1. pc \in Steps \ {"move", "publish", "putback"} /\ UNCHANGED armed
    BY <1>0 DEF Steps, Stage
  <2> QED BY <2>1, Unarmed
<1>6. CASE /\ place' = [place EXCEPT ![i] = IF i = first THEN Staged(i) ELSE At(i - 1, i)]
           /\ made' = made \cup {i} /\ parent' = i
           /\ Goto(IF i = depth THEN "check" ELSE "stage")
           /\ UNCHANGED <<anchor, first, published, cleaning, armed, fresh, budget>>
  <2> HIDE DEF i
  <2>1. i \in Obj /\ Staged(i) \in Rec
    BY <1>0, <1>4, SlotType DEF Obj
  <2>2. i # first => At(i - 1, i) \in Rec
    <3> SUFFICES ASSUME i # first PROVE At(i - 1, i) \in Rec
      OBVIOUS
    <3>1. i - 1 \in Nodes /\ i \in Names
      BY <1>2, <1>4, <2>1 DEF Nodes, Names, Obj, Made
    <3> QED BY <3>1, AtType
  <2>3. PICK slot \in Rec : place' = [place EXCEPT ![i] = slot]
    BY <1>6, <2>1, <2>2
  <2>4. Keeps /\ place' \in [Obj -> Places]
    BY <1>0, <2>1, <2>3, PlaceKeeps
  <2>5. World
    BY <1>0, <1>6, <2>4 DEF World, TypeOK
  <2>6. made' = first..i
    BY <1>1, <1>2, <1>3, <1>6
  <2>7. pc' \in {"check", "stage"} /\ (pc' = "stage" => i # depth)
    BY <1>6 DEF Goto
  <2>8. first' = first /\ depth' = depth
    BY <1>6 DEF fixed
  <2>9. Control
    <3>1. pc' \in Steps /\ pc' \notin {"remove", "inspect", "putback"}
      BY <2>7 DEF Steps
    <3>2. \E j \in Made : j <= depth' /\ made' = first'..j
      BY <1>4, <2>6, <2>8
    <3> QED BY <1>0, <1>4, <1>6, <2>8, <3>1, <3>2 DEF Control, TypeOK, cleaning
  <2>10. PathOK'
    <3>0. i \in 1..MaxDepth
      BY <1>4 DEF Made
    <3>1. i \in 0..MaxDepth /\ i >= first' - 1 /\ made' = first'..i
      BY <1>2, <1>4, <2>6, <2>8, <3>0
    <3>2. pc' = "stage" => i < depth'
      BY <1>2, <1>4, <2>7, <2>8, <3>0
    <3> QED BY <2>7, <3>1, <3>2 DEF PathOK
  <2> QED BY <1>5, <2>4, <2>5, <2>9, <2>10 DEF Good
<1>7. CASE CleanUp("refused") /\ UNCHANGED <<place, walk, armed, fresh>>
  <2>1. Control /\ pc' \in Ended \cup {"remove"}
    BY <1>0, <1>7, CleanUpControl DEF Ended
  <2>2. World /\ Keeps
    BY <1>0, <1>7, StillWorld
  <2> QED BY <1>5, <2>1, <2>2, EndOffPath DEF Good
<1> QED BY <1>6, <1>7 DEF Stage

LEMMA CheckGood == ASSUME IInv, CheckDestination, UNCHANGED fixed PROVE Good
<1>0. TypeOK /\ pc = "check" /\ UNCHANGED walk /\ Still
  BY DEF IInv, CheckDestination
<1>1. World /\ Keeps
  BY <1>0, StillWorld DEF Still
<1>2. ArmedOK'
  <2>1. pc \in Steps \ {"move", "publish", "putback"} /\ UNCHANGED armed
    BY <1>0 DEF Steps, Still
  <2> QED BY <2>1, Unarmed
<1>3. CASE Goto("move") /\ UNCHANGED cleaning
  <2>1. pc' = "move" /\ "move" \in Steps
    BY <1>3 DEF Goto, Steps
  <2>2. Control
    BY <1>0, <1>3, <2>1, SameControl
  <2> QED BY <1>1, <1>2, <2>1, <2>2, OffPath DEF Good
<1>4. CASE CleanUp("refused")
  <2>1. Control /\ pc' \in Ended \cup {"remove"}
    BY <1>0, <1>4, CleanUpControl DEF Ended
  <2> QED BY <1>1, <1>2, <2>1, EndOffPath DEF Good
<1> QED BY <1>3, <1>4 DEF CheckDestination

LEMMA MoveGood == ASSUME IInv, MovePayload, UNCHANGED fixed PROVE Good
<1>0. TypeOK /\ pc = "move" /\ pc \notin Ended
  BY DEF IInv, MovePayload, Ended
<1>1. Renamed(Payload, Target)
  BY DEF MovePayload, Rename, Renamed
<1>2. Payload \in Obj /\ Target \in Rec
  BY <1>0, SlotType DEF Obj
<1>3. armed => Occupant(Target) \subseteq fresh
  BY <1>0 DEF IInv, ArmedOK
<1>4. World /\ Keeps
  BY <1>0, <1>1, <1>2, <1>3, RenameWorld, RenameKeeps
<1>5. \/ armed' = FALSE /\ Goto("verify") /\ UNCHANGED <<walk, cleaning>>
      \/ armed' = FALSE /\ CleanUp("refused") /\ UNCHANGED walk
      \/ v9fs /\ Occupant(Target) = {} /\ fresh' = {} /\ UNCHANGED <<place, pc, walk, cleaning>>
  BY DEF MovePayload, Rename
<1>6. CASE armed' = FALSE /\ Goto("verify") /\ UNCHANGED <<walk, cleaning>>
  <2>1. pc' = "verify" /\ "verify" \in Steps
    BY <1>6 DEF Goto, Steps
  <2>2. Control
    BY <1>0, <1>6, <2>1, SameControl
  <2> QED BY <1>4, <1>6, <2>1, <2>2, OffPath, Disarmed DEF Good
<1>7. CASE armed' = FALSE /\ CleanUp("refused") /\ UNCHANGED walk
  <2>1. Control /\ pc' \in Ended \cup {"remove"}
    BY <1>0, <1>7, CleanUpControl DEF Ended
  <2> QED BY <1>4, <1>7, <2>1, EndOffPath, Disarmed DEF Good
<1>8. CASE v9fs /\ Occupant(Target) = {} /\ fresh' = {} /\ UNCHANGED <<place, pc, walk, cleaning>>
  <2>1. pc' = "move" /\ "move" \in Steps
    BY <1>0, <1>8 DEF Steps
  <2>2. Control
    BY <1>0, <1>8, <2>1, SameControl
  <2>3. v9fs' /\ Occupant(Target)' = {}
    BY <1>8 DEF fixed, walk, Occupant, Target
  <2>4. ArmedOK'
    BY <2>1, <2>3 DEF ArmedOK
  <2> QED BY <1>4, <2>1, <2>2, <2>4, OffPath DEF Good
<1> QED BY <1>5, <1>6, <1>7, <1>8

LEMMA VerifyGood == ASSUME IInv, Verify, UNCHANGED fixed PROVE Good
<1>0. TypeOK /\ pc = "verify" /\ UNCHANGED <<walk, place, armed, fresh>>
  BY DEF IInv, Verify
<1>1. World /\ Keeps
  BY <1>0, StillWorld
<1>2. ArmedOK'
  <2>1. pc \in Steps \ {"move", "publish", "putback"}
    BY <1>0 DEF Steps
  <2> QED BY <1>0, <2>1, Unarmed
<1>3. CASE Goto(IF made = {} THEN "append" ELSE "publish") /\ UNCHANGED cleaning
  <2>1. pc' \in {"append", "publish"} /\ (pc' = "publish" => made # {})
    BY <1>3 DEF Goto
  <2>2. Control
    <3>1. pc' \in Steps /\ pc' \notin {"remove", "inspect", "putback"}
      BY <2>1 DEF Steps
    <3> QED BY <1>0, <1>3, <3>1, SameControl
  <2>3. PathOK'
    BY <1>0, <2>1 DEF PathOK, walk
  <2> QED BY <1>1, <1>2, <2>2, <2>3 DEF Good
<1>4. CASE CleanUp("unverified")
  <2>1. Control /\ pc' \in Ended \cup {"remove"}
    BY <1>0, <1>4, CleanUpControl DEF Ended
  <2> QED BY <1>1, <1>2, <2>1, EndOffPath DEF Good
<1> QED BY <1>3, <1>4 DEF Verify

LEMMA PublishGood == ASSUME IInv, Publish, UNCHANGED fixed PROVE Good
<1>0. TypeOK /\ pc = "publish" /\ pc \notin Ended /\ made # {}
  BY DEF IInv, Publish, Ended, PathOK
<1>1. Renamed(first, Slot(first))
  BY DEF Publish, Rename, Renamed
<1>2. first \in Made
  <2>1. PICK i \in Made : i <= depth /\ made = first..i
    BY <1>0 DEF TypeOK
  <2>2. first <= i /\ i \in 1..MaxDepth /\ first \in Nat /\ first >= 1
    BY <1>0, <2>1, RestoreConstants DEF TypeOK, Made
  <2> QED BY <2>2, RestoreConstants DEF Made
<1>3. first \in Obj /\ Slot(first) \in Rec
  <2>1. first >= first
    BY <1>2 DEF Made
  <2> QED BY <1>0, <1>2, <2>1, SlotType DEF Obj
<1>4. armed => Occupant(Slot(first)) \subseteq fresh
  BY <1>0 DEF IInv, ArmedOK
<1>5. World /\ Keeps
  BY <1>0, <1>1, <1>3, <1>4, RenameWorld, RenameKeeps
<1>6. \/ armed' = FALSE /\ Goto("append") /\ published' = TRUE /\ UNCHANGED <<parent, anchor, first, made, cleaning>>
      \/ armed' = FALSE /\ Goto("recheck") /\ UNCHANGED <<walk, cleaning>>
      \/ v9fs /\ Occupant(Slot(first)) = {} /\ UNCHANGED <<place, pc, walk, cleaning>>
  BY DEF Publish, Rename
<1>7. CASE armed' = FALSE /\ Goto("append") /\ published' = TRUE /\ UNCHANGED <<parent, anchor, first, made, cleaning>>
  <2>1. pc' = "append" /\ "append" \in Steps
    BY <1>7 DEF Goto, Steps
  <2>2. Control
    BY <1>0, <1>7, <2>1 DEF Control, TypeOK, cleaning, fixed
  <2> QED BY <1>5, <1>7, <2>1, <2>2, OffPath, Disarmed DEF Good
<1>8. CASE armed' = FALSE /\ Goto("recheck") /\ UNCHANGED <<walk, cleaning>>
  <2>1. pc' = "recheck" /\ "recheck" \in Steps
    BY <1>8 DEF Goto, Steps
  <2>2. Control
    BY <1>0, <1>8, <2>1, SameControl
  <2> QED BY <1>5, <1>8, <2>1, <2>2, OffPath, Disarmed DEF Good
<1>9. CASE v9fs /\ Occupant(Slot(first)) = {} /\ UNCHANGED <<place, pc, walk, cleaning>>
  <2>1. pc' = "publish" /\ "publish" \in Steps
    BY <1>0, <1>9 DEF Steps
  <2>2. Control
    BY <1>0, <1>9, <2>1, SameControl
  <2>3. v9fs' /\ Occupant(Slot(first))' = {}
    BY <1>9 DEF fixed, walk, Occupant, Slot
  <2>4. ArmedOK'
    BY <2>1, <2>3 DEF ArmedOK
  <2>5. PathOK'
    BY <1>0, <1>9, <2>1 DEF PathOK, walk
  <2> QED BY <1>5, <2>2, <2>4, <2>5 DEF Good
<1> QED BY <1>6, <1>7, <1>8, <1>9

\* The steps between the publication and the cleanup that move nothing.
LEMMA AppendGood == ASSUME IInv, AppendRecord \/ Recheck, UNCHANGED fixed PROVE Good
<1>0. TypeOK /\ pc \in {"append", "recheck"} /\ UNCHANGED <<walk, cleaning, place, armed, fresh>>
  BY DEF IInv, AppendRecord, Recheck, Still
<1>1. World /\ Keeps
  BY <1>0, StillWorld
<1>2. ArmedOK'
  <2>1. pc \in Steps \ {"move", "publish", "putback"}
    BY <1>0 DEF Steps
  <2> QED BY <1>0, <2>1, Unarmed
<1>3. pc' \in {"restored", "recheck", "return", "rollback_failed"}
  BY DEF AppendRecord, Recheck, Goto
<1>4. pc' \in Steps \cup Ended /\ pc' \notin {"remove", "inspect", "putback"}
  BY <1>3 DEF Steps, Ended
<1>5. Control
  BY <1>0, <1>4, SameControl
<1> QED BY <1>1, <1>2, <1>3, <1>5, OffPath DEF Good

LEMMA ReturnGood == ASSUME IInv, Return, UNCHANGED fixed PROVE Good
<1>0. TypeOK /\ pc = "return" /\ UNCHANGED <<walk, armed, fresh>>
  BY DEF IInv, Return
<1>1. ArmedOK'
  <2>1. pc \in Steps \ {"move", "publish", "putback"}
    BY <1>0 DEF Steps
  <2> QED BY <1>0, <2>1, Unarmed
<1>2. \/ UNCHANGED place
      \/ \E o \in Obj : place' = [place EXCEPT ![o] = At(Box, Leaf)]
  BY DEF Return, Occupant
<1>3. Keeps /\ place' \in [Obj -> Places]
  <2>1. CASE UNCHANGED place
    BY <1>0, <2>1 DEF Keeps, TypeOK
  <2>2. CASE \E o \in Obj : place' = [place EXCEPT ![o] = At(Box, Leaf)]
    <3>1. PICK o \in Obj : place' = [place EXCEPT ![o] = At(Box, Leaf)]
      BY <2>2
    <3>2. At(Box, Leaf) \in Rec
      BY <1>0, SlotType
    <3> QED BY <1>0, <3>1, <3>2, PlaceKeeps
  <2> QED BY <1>2, <2>1, <2>2
<1>4. World
  BY <1>0, <1>3 DEF World, TypeOK
<1>5. CASE CleanUp("rolled_back")
  <2>1. Control /\ pc' \in Ended \cup {"remove"}
    BY <1>0, <1>5, CleanUpControl DEF Ended
  <2> QED BY <1>1, <1>3, <1>4, <2>1, EndOffPath DEF Good
<1>6. CASE Goto("rollback_failed") /\ UNCHANGED cleaning
  <2>1. pc' = "rollback_failed" /\ "rollback_failed" \in Ended
    BY <1>6 DEF Goto, Ended
  <2>2. Control
    BY <1>0, <1>6, <2>1, SameControl
  <2> QED BY <1>1, <1>3, <1>4, <2>1, <2>2, OffPath DEF Good
<1> QED BY <1>5, <1>6 DEF Return

-----------------------------------------------------------------------------
(* The cleanup *)

\* A step of the cleanup that goes on to the next component.
LEMMA NextGood ==
  ASSUME IInv, pc \in {"remove", "inspect", "putback"}, UNCHANGED fixed, UNCHANGED walk,
         NEW b \in BOOLEAN, NextParent(b)
  PROVE  Control /\ PathOK'
<1>1. TypeOK /\ step \in made
  BY DEF IInv, TypeOK
<1>2. Control /\ pc' \in Ended \cup {"remove"}
  BY <1>1, NextParentControl
<1> QED BY <1>2, EndOffPath

LEMMA DiscardGood == ASSUME IInv, Discard, UNCHANGED fixed PROVE Good
<1>0. TypeOK /\ pc = "remove" /\ UNCHANGED <<walk, armed, fresh>> /\ step \in Made
  <2>1. TypeOK /\ pc = "remove" /\ UNCHANGED <<walk, armed, fresh>>
    BY DEF IInv, Discard
  <2>2. step \in made /\ made \subseteq Made
    <3>1. step \in made
      BY <2>1 DEF TypeOK
    <3>2. PICK i \in Made : made = first..i
      BY <2>1, <3>1 DEF TypeOK
    <3> QED BY <2>1, <3>1, <3>2, RestoreConstants DEF TypeOK, Made
  <2> QED BY <2>1, <2>2
<1>1. ArmedOK'
  <2>1. pc \in Steps \ {"move", "publish", "putback"}
    BY <1>0 DEF Steps
  <2> QED BY <1>0, <2>1, Unarmed
<1>2. Keeps /\ place' \in [Obj -> Places]
  <2>1. CASE UNCHANGED place
    BY <1>0, <2>1 DEF Keeps, TypeOK
  <2>2. CASE Children(step) = {} /\ place' = [place EXCEPT ![step] = Gone]
    <3>1. Gone \in Places /\ step \in Obj
      BY <1>0 DEF Places, Obj
    <3>2. place' \in [Obj -> Places]
      BY <1>0, <2>2, <3>1 DEF TypeOK
    <3>3. \A o \in Obj : o # step => place'[o] = place[o]
      BY <1>0, <2>2 DEF TypeOK
    <3> QED BY <1>0, <2>2, <3>2, <3>3 DEF Keeps
  <2>3. CASE Children(step) # {} /\ place' = [place EXCEPT ![step] = place[step]]
    BY <1>0, <2>3 DEF Keeps, TypeOK
  <2> QED BY <2>1, <2>2, <2>3 DEF Discard
<1>3. World
  BY <1>0, <1>2 DEF World, TypeOK
<1>4. \E b \in BOOLEAN : NextParent(b)
  BY DEF Discard
<1>5. Control /\ PathOK'
  BY <1>0, <1>4, NextGood
<1> QED BY <1>1, <1>2, <1>3, <1>5 DEF Good

LEMMA ReclaimGood == ASSUME IInv, Reclaim, UNCHANGED fixed PROVE Good
<1>0. TypeOK /\ pc = "remove" /\ UNCHANGED <<walk, armed, fresh>> /\ step \in made
  BY DEF IInv, Reclaim, TypeOK
<1>1. ArmedOK'
  <2>1. pc \in Steps \ {"move", "publish", "putback"}
    BY <1>0 DEF Steps
  <2> QED BY <1>0, <2>1, Unarmed
<1>2. CASE \E o \in Occupant(Slot(step)) :
             /\ place' = [place EXCEPT ![o] = Staged(o)]
             /\ held' = {o} /\ Goto("inspect")
             /\ UNCHANGED <<step, dirty, why, budget>>
  <2>1. PICK o \in Obj :
             /\ place' = [place EXCEPT ![o] = Staged(o)]
             /\ held' = {o} /\ Goto("inspect")
             /\ UNCHANGED <<step, dirty, why, budget>>
    BY <1>2 DEF Occupant
  <2>2. Staged(o) \in Rec
    BY <1>0, SlotType
  <2>3. Keeps /\ place' \in [Obj -> Places]
    BY <1>0, <2>1, <2>2, PlaceKeeps
  <2>4. World
    BY <1>0, <2>3 DEF World, TypeOK
  <2>5. pc' = "inspect" /\ "inspect" \in Steps
    BY <2>1 DEF Goto, Steps
  <2>6. Control
    BY <1>0, <2>1, <2>5 DEF Control, TypeOK, walk, fixed
  <2> QED BY <1>1, <2>3, <2>4, <2>5, <2>6, OffPath DEF Good
<1>3. CASE UNCHANGED place /\ NextParent(TRUE)
  <2>1. World /\ Keeps
    BY <1>0, <1>3, StillWorld
  <2>2. Control /\ PathOK'
    BY <1>0, <1>3, NextGood
  <2> QED BY <1>1, <2>1, <2>2 DEF Good
<1> QED BY <1>2, <1>3 DEF Reclaim

LEMMA InspectGood == ASSUME IInv, Inspect, UNCHANGED fixed PROVE Good
<1>0. TypeOK /\ pc = "inspect" /\ UNCHANGED <<walk, armed, fresh>> /\ step \in Made /\ step \in made
  <2>1. TypeOK /\ pc = "inspect" /\ UNCHANGED <<walk, armed, fresh>>
    BY DEF IInv, Inspect
  <2>2. step \in made /\ made \subseteq Made
    <3>1. step \in made
      BY <2>1 DEF TypeOK
    <3>2. PICK i \in Made : made = first..i
      BY <2>1, <3>1 DEF TypeOK
    <3> QED BY <2>1, <3>1, <3>2, RestoreConstants DEF TypeOK, Made
  <2> QED BY <2>1, <2>2
<1>1. ArmedOK'
  <2>1. pc \in Steps \ {"move", "publish", "putback"}
    BY <1>0 DEF Steps
  <2> QED BY <1>0, <2>1, Unarmed
<1>2. CASE UNCHANGED place /\ NextParent(TRUE)
  <2>1. World /\ Keeps
    BY <1>0, <1>2, StillWorld
  <2>2. Control /\ PathOK'
    BY <1>0, <1>2, NextGood
  <2> QED BY <1>1, <2>1, <2>2 DEF Good
<1>3. CASE Children(step) = {} /\ place' = [place EXCEPT ![step] = Gone] /\ NextParent(FALSE)
  <2>1. Gone \in Places /\ step \in Obj
    BY <1>0 DEF Places, Obj
  <2>2. place' \in [Obj -> Places]
    BY <1>0, <1>3, <2>1 DEF TypeOK
  <2>3. \A o \in Obj : o # step => place'[o] = place[o]
    BY <1>0, <1>3 DEF TypeOK
  <2>4. Keeps
    BY <1>0, <1>3, <2>3 DEF Keeps
  <2>5. World
    BY <1>0, <2>2 DEF World, TypeOK
  <2>6. Control /\ PathOK'
    BY <1>0, <1>3, NextGood
  <2> QED BY <1>1, <2>4, <2>5, <2>6 DEF Good
<1>4. CASE Goto("putback") /\ UNCHANGED <<place, cleaning, budget>>
  <2>1. World /\ Keeps
    BY <1>0, <1>4, StillWorld
  <2>2. pc' = "putback" /\ "putback" \in Steps
    BY <1>4 DEF Goto, Steps
  <2>3. Control
    BY <1>0, <1>4, <2>2, SameControl
  <2> QED BY <1>1, <2>1, <2>2, <2>3, OffPath DEF Good
<1> QED BY <1>2, <1>3, <1>4 DEF Inspect

LEMMA PutBackGood == ASSUME IInv, PutBack, UNCHANGED fixed PROVE Good
<1>0. TypeOK /\ pc = "putback" /\ pc \notin Ended /\ step \in made
  BY DEF IInv, PutBack, Ended, TypeOK
<1>1. PICK o \in Obj :
        /\ Renamed(o, Slot(step))
        /\ \/ armed' = FALSE /\ NextParent(o # step) /\ UNCHANGED walk
           \/ armed' = FALSE /\ NextParent(TRUE) /\ UNCHANGED walk
           \/ v9fs /\ Occupant(Slot(step)) = {} /\ UNCHANGED <<place, pc, walk, cleaning>>
  <2>1. PICK o \in held :
          Rename(o, Slot(step), NextParent(o # step) /\ UNCHANGED walk, NextParent(TRUE) /\ UNCHANGED walk)
    BY DEF PutBack
  <2>2. o \in Obj
    BY <1>0 DEF TypeOK
  <2>3. Renamed(o, Slot(step))
    BY <2>1 DEF Rename, Renamed
  <2>4. \/ armed' = FALSE /\ NextParent(o # step) /\ UNCHANGED walk
        \/ armed' = FALSE /\ NextParent(TRUE) /\ UNCHANGED walk
        \/ v9fs /\ Occupant(Slot(step)) = {} /\ UNCHANGED <<place, pc, walk, cleaning>>
    BY <2>1 DEF Rename
  <2> QED BY <2>2, <2>3, <2>4
<1>2. Slot(step) \in Rec
  <2>1. PICK i \in Made : made = first..i
    BY <1>0 DEF TypeOK
  <2>2. step \in Made /\ step >= first
    BY <1>0, <2>1, RestoreConstants DEF TypeOK, Made
  <2> QED BY <1>0, <2>2, SlotType
<1>3. armed => Occupant(Slot(step)) \subseteq fresh
  BY <1>0 DEF IInv, ArmedOK
<1>4. World /\ Keeps
  BY <1>0, <1>1, <1>2, <1>3, RenameWorld, RenameKeeps
<1>5. CASE armed' = FALSE /\ (\E b \in BOOLEAN : NextParent(b)) /\ UNCHANGED walk
  <2>1. Control /\ PathOK'
    BY <1>0, <1>5, NextGood
  <2> QED BY <1>4, <1>5, <2>1, Disarmed DEF Good
<1>6. CASE v9fs /\ Occupant(Slot(step)) = {} /\ UNCHANGED <<place, pc, walk, cleaning>>
  <2>1. pc' = "putback" /\ "putback" \in Steps
    BY <1>0, <1>6 DEF Steps
  <2>2. Control
    BY <1>0, <1>6, <2>1, SameControl
  <2>3. v9fs' /\ Occupant(Slot(step))' = {}
    BY <1>6 DEF fixed, walk, cleaning, Occupant, Slot
  <2>4. ArmedOK'
    BY <2>1, <2>3 DEF ArmedOK
  <2> QED BY <1>4, <2>1, <2>2, <2>4, OffPath DEF Good
<1> QED BY <1>1, <1>5, <1>6

LEMMA KillGood == ASSUME IInv, Kill, UNCHANGED fixed PROVE Good
<1>0. TypeOK /\ UNCHANGED <<walk, cleaning, place, armed, fresh>> /\ pc' = "killed"
  BY DEF IInv, Kill, Goto
<1>1. World /\ Keeps
  BY <1>0, StillWorld
<1>2. pc' \in Ended /\ pc' \notin {"remove", "inspect", "putback"}
  BY <1>0 DEF Ended
<1>3. Control
  BY <1>0, <1>2, SameControl
<1>4. ArmedOK'
  BY <1>2 DEF ArmedOK
<1> QED BY <1>0, <1>1, <1>3, <1>4, OffPath DEF Good

LEMMA RestoreGood == IInv /\ Restore => Good /\ UNCHANGED fixed
BY OpenGood, StageGood, CheckGood, MoveGood, VerifyGood, PublishGood, AppendGood, ReturnGood,
   DiscardGood, ReclaimGood, InspectGood, PutBackGood, KillGood DEF Restore

-----------------------------------------------------------------------------
(* The user *)

\* What a step of the user does to the places and to the history.
UserPlaces ==
    \/ \E u \in User, slot \in Rec : place' = [place EXCEPT ![u] = slot] /\ fresh' = fresh \cup {u}
    \/ \E o \in Obj : place' = [place EXCEPT ![o] = At(Elsewhere, o)] /\ UNCHANGED fresh
    \/ \E o \in Obj : place' = [place EXCEPT ![o] = Gone] /\ UNCHANGED fresh

LEMMA UserStepPlaces == TypeOK /\ UserStep => UserPlaces
<1> SUFFICES ASSUME TypeOK, UserStep PROVE UserPlaces
  OBVIOUS
<1>1. CASE UserCreate
  <2>1. PICK u \in User, slot \in Free : place' = [place EXCEPT ![u] = slot] /\ fresh' = fresh \cup {u}
    BY <1>1 DEF UserCreate
  <2>2. PICK d \in Visible, name \in (1..depth) \cup {Leaf, Extra} : slot = At(d, name)
    BY DEF Free
  <2>3. d \in Nodes
    BY DEF Visible
  <2>4. name \in Names
    BY RestoreConstants DEF TypeOK, Names, Obj, Made
  <2>5. slot \in Rec
    BY <2>2, <2>3, <2>4, AtType
  <2> QED BY <2>1, <2>5 DEF UserPlaces
<1>2. CASE UserMovesAway
  BY <1>2 DEF UserMovesAway, Seen, UserPlaces
<1>3. CASE UserDelete
  BY <1>3 DEF UserDelete, Seen, UserPlaces
<1> QED BY <1>1, <1>2, <1>3 DEF UserStep

\* What the user adds under a name is new since the look, whatever the name.
LEMMA UserUnderName ==
  ASSUME TypeOK, UserPlaces, NEW slot \in Rec, slot.in # Elsewhere, Occupant(slot) \subseteq fresh
  PROVE  {o \in Obj : place'[o] = slot} \subseteq fresh'
<1> SUFFICES ASSUME NEW o \in Obj, place'[o] = slot PROVE o \in fresh'
  OBVIOUS
<1>1. CASE place[o] = slot
  <2>1. o \in fresh
    BY <1>1 DEF Occupant
  <2> QED BY <2>1 DEF UserPlaces
<1>2. CASE place[o] # slot
  <2>1. ASSUME NEW u \in User, NEW t \in Rec,
               place' = [place EXCEPT ![u] = t], fresh' = fresh \cup {u}
        PROVE  o \in fresh'
    <3>1. o = u
      BY <1>2, <2>1 DEF TypeOK
    <3> QED BY <2>1, <3>1
  <2>2. ASSUME NEW x \in Obj, place' = [place EXCEPT ![x] = At(Elsewhere, x)] PROVE FALSE
    <3>1. x = o /\ slot = At(Elsewhere, x)
      BY <1>2, <2>2 DEF TypeOK
    <3>2. slot.in = Elsewhere
      BY <3>1, AtType DEF Nodes, Names
    <3> QED BY <3>2
  <2>3. ASSUME NEW x \in Obj, place' = [place EXCEPT ![x] = Gone] PROVE FALSE
    <3>1. slot = Gone
      BY <1>2, <2>3 DEF TypeOK
    <3> QED BY <3>1, RecNotGone
  <2> QED BY <2>1, <2>2, <2>3 DEF UserPlaces
<1> QED BY <1>1, <1>2

LEMMA UserGood == IInv /\ UserStep => IInv'
<1> SUFFICES ASSUME IInv, UserStep PROVE IInv'
  OBVIOUS
<1>1. TypeOK /\ UserPlaces /\ UNCHANGED <<fixed, pc, walk, cleaning, armed>> /\ pc \notin Ended
  BY UserStepPlaces DEF IInv, UserStep
<1>2. TypeOK'
  <2>1. place' \in [Obj -> Places]
    <3>1. \A o \in Obj : At(Elsewhere, o) \in Places
      BY AtType, RecNotGone DEF Nodes, Names
    <3>2. \A slot \in Rec : slot \in Places
      BY RecNotGone
    <3>3. Gone \in Places
      BY DEF Places
    <3> QED BY <1>1, <3>1, <3>2, <3>3 DEF UserPlaces, TypeOK
  <2>2. fresh' \in SUBSET User
    BY <1>1 DEF UserPlaces, TypeOK
  <2> QED BY <1>1, <2>1, <2>2 DEF TypeOK, walk, cleaning, fixed
<1>3. ArmedOK'
  <2> SUFFICES ASSUME armed PROVE ArmedOK'
    BY <1>1 DEF ArmedOK
  <2>1. CASE pc = "move" /\ v9fs /\ Occupant(Target) \subseteq fresh
    <3>1. Target \in Rec /\ Target.in # Elsewhere
      BY <1>1, SlotType
    <3>2. {o \in Obj : place'[o] = Target} \subseteq fresh'
      BY <1>1, <2>1, <3>1, UserUnderName
    <3>3. Occupant(Target)' \subseteq fresh'
      BY <1>1, <3>2 DEF Occupant, Target, walk
    <3> QED BY <1>1, <2>1, <3>3 DEF ArmedOK, fixed
  <2>2. CASE pc = "publish" /\ v9fs /\ Occupant(Slot(first)) \subseteq fresh
    <3>1. PICK i \in Made : made = first..i
      BY <1>1, <2>2 DEF IInv, PathOK, TypeOK
    <3>2. first <= i
      BY <1>1, <2>2, <3>1, RestoreConstants DEF IInv, PathOK, TypeOK, Made
    <3>3. first \in Made /\ first >= first
      BY <1>1, <3>2, RestoreConstants DEF TypeOK, Made
    <3>4. Slot(first) \in Rec /\ Slot(first).in # Elsewhere
      BY <1>1, <3>3, SlotType
    <3>5. {o \in Obj : place'[o] = Slot(first)} \subseteq fresh'
      BY <1>1, <2>2, <3>4, UserUnderName
    <3>6. Occupant(Slot(first))' \subseteq fresh'
      BY <1>1, <3>5 DEF Occupant, Slot, walk
    <3> QED BY <1>1, <2>2, <3>6 DEF ArmedOK, fixed
  <2>3. CASE pc = "putback" /\ v9fs /\ Occupant(Slot(step)) \subseteq fresh
    <3>1. step \in made
      BY <1>1, <2>3 DEF TypeOK
    <3>2. PICK i \in Made : made = first..i
      BY <1>1, <3>1 DEF TypeOK
    <3>3. step \in Made /\ step >= first
      BY <1>1, <3>1, <3>2, RestoreConstants DEF TypeOK, Made
    <3>4. Slot(step) \in Rec /\ Slot(step).in # Elsewhere
      BY <1>1, <3>3, SlotType
    <3>5. {o \in Obj : place'[o] = Slot(step)} \subseteq fresh'
      BY <1>1, <2>3, <3>4, UserUnderName
    <3>6. Occupant(Slot(step))' \subseteq fresh'
      BY <1>1, <3>5 DEF Occupant, Slot, walk, cleaning
    <3> QED BY <1>1, <2>3, <3>6 DEF ArmedOK, fixed
  <2> QED BY <1>1, <2>1, <2>2, <2>3 DEF IInv, ArmedOK
<1>4. PathOK'
  BY <1>1 DEF IInv, PathOK, walk, fixed
<1> QED BY <1>2, <1>3, <1>4 DEF IInv

LEMMA StutterIInv == IInv /\ UNCHANGED vars => IInv'
<1> SUFFICES ASSUME IInv, UNCHANGED vars PROVE IInv'
  OBVIOUS
<1>1. TypeOK'
  BY DEF IInv, TypeOK, vars
<1>2. ArmedOK'
  BY DEF IInv, ArmedOK, Occupant, Target, Slot, vars
<1>3. PathOK'
  BY DEF IInv, PathOK, vars
<1> QED BY <1>1, <1>2, <1>3 DEF IInv

-----------------------------------------------------------------------------
(* The theorems *)

LEMMA StepIInv == IInv /\ [Next]_vars => IInv'
<1> SUFFICES ASSUME IInv, [Next]_vars PROVE IInv'
  OBVIOUS
<1>1. CASE Restore
  <2>1. Good /\ UNCHANGED fixed
    BY <1>1, RestoreGood
  <2> QED BY <2>1, TypeParts DEF IInv, Good
<1>2. CASE UserStep
  BY <1>2, UserGood
<1>3. CASE UNCHANGED vars
  BY <1>3, StutterIInv
<1> QED BY <1>1, <1>2, <1>3 DEF Next

\* The inductive invariant: the types, with the chain of created parents an
\* interval that starts at the first missing component; and the armed look of
\* a rename on v9fs, under which only newer things of the user's can be.
THEOREM RestoreInvariance == Spec => []IInv
BY InitIInv, StepIInv, PTL DEF Spec

\* Every variable of the restore has its type, for every depth and every user.
THEOREM TypeCorrect == Spec => []TypeOK
<1>1. IInv => TypeOK
  BY DEF IInv
<1> QED BY <1>1, RestoreInvariance, PTL

\* No rename, reclaim, removal or rollback of the restore destroys anything but
\* an empty directory it has made, or, on v9fs, what came under a name after
\* the look that found it free.
THEOREM NothingReplaced == Spec => NothingIsReplaced
<1> DEFINE Harmless == \A o \in Obj : ~Lost(o) /\ Lost(o)' /\ Restore =>
                           \/ o \in Made /\ Children(o) = {}
                           \/ v9fs /\ o \in fresh
<1>1. IInv /\ [Next]_vars => [Harmless]_vars
  <2> SUFFICES ASSUME IInv PROVE Harmless
    OBVIOUS
  <2> SUFFICES ASSUME NEW o \in Obj, ~Lost(o), Lost(o)', Restore
               PROVE  (o \in Made /\ Children(o) = {}) \/ (v9fs /\ o \in fresh)
    OBVIOUS
  <2>1. Keeps
    BY RestoreGood DEF Good
  <2> QED BY <2>1 DEF Keeps, Lost
<1> QED BY <1>1, RestoreInvariance, PTL DEF Spec, NothingIsReplaced

-----------------------------------------------------------------------------
(* What is reachable *)

\* Every set of numbers has a least element.
LEMMA LeastOf ==
  ASSUME NEW T \in SUBSET Nat, T # {}
  PROVE  \E m \in T : \A n \in T : m <= n
<1> DEFINE R == {ss \in Nat \X Nat : ss[1] < ss[2]}
<1>1. IsWellFoundedOn(R, Nat)
  BY NatLessThanWellFounded, Zenon DEF OpToRel
<1>2. \A x, y \in Nat : y < x => <<y, x>> \in R
  OBVIOUS
<1> HIDE DEF R
<1>3. PICK m \in T : \A n \in T : ~(<<n, m>> \in R)
  BY <1>1, WFMin, Zenon
<1>4. \A n \in T : n \in Nat /\ m \in Nat /\ ~(n < m)
  BY <1>2, <1>3
<1> QED BY <1>4

\* The recursion has a solution: the least set that contains the visible two
\* and whatever is in one of its members.
LEMMA ReachableIs ==
  TypeOK => Reachable = [d \in Nodes |-> d \in {Root, Elsewhere} \/ (d \in Obj /\ Exists(d) /\ Reachable[place[d].in])]
<1> SUFFICES ASSUME TypeOK
             PROVE  Reachable = [d \in Nodes |-> d \in {Root, Elsewhere} \/ (d \in Obj /\ Exists(d) /\ Reachable[place[d].in])]
  OBVIOUS
<1> DEFINE Above(S) == {d \in Nodes : d \in {Root, Elsewhere} \/ (d \in Obj /\ Exists(d) /\ place[d].in \in S)}
           L == {d \in Nodes : \A S \in SUBSET Nodes : Above(S) \subseteq S => d \in S}
           f == [d \in Nodes |-> d \in L]
<1>1. Above(L) = L
  <2>1. \A S, T \in SUBSET Nodes : S \subseteq T => Above(S) \subseteq Above(T)
    OBVIOUS
  <2>2. L \in SUBSET Nodes /\ Above(L) \in SUBSET Nodes
    OBVIOUS
  <2>3. Above(L) \subseteq L
    <3> SUFFICES ASSUME NEW d \in Above(L), NEW S \in SUBSET Nodes, Above(S) \subseteq S PROVE d \in S
      OBVIOUS
    <3>1. L \subseteq S
      OBVIOUS
    <3> HIDE DEF L
    <3>2. Above(L) \subseteq Above(S)
      BY <3>1
    <3> QED BY <3>2
  <2>4. L \subseteq Above(L)
    <3>1. Above(Above(L)) \subseteq Above(L)
      BY <2>1, <2>2, <2>3
    <3> QED BY <2>2, <3>1
  <2> QED BY <2>3, <2>4
<1> HIDE DEF L
<1>2. \A d \in Obj : Exists(d) => place[d].in \in Nodes
  BY DEF TypeOK, Places, Exists
<1>3. \A d \in Nodes : (d \in L) = (d \in {Root, Elsewhere} \/ (d \in Obj /\ Exists(d) /\ place[d].in \in L))
  BY <1>1
<1>4. f = [d \in Nodes |-> d \in {Root, Elsewhere} \/ (d \in Obj /\ Exists(d) /\ f[place[d].in])]
  <2>1. ASSUME NEW d \in Nodes
        PROVE (d \in L) = (d \in {Root, Elsewhere} \/ (d \in Obj /\ Exists(d) /\ f[place[d].in]))
    <3>1. d \in Obj /\ Exists(d) => f[place[d].in] = (place[d].in \in L)
      BY <1>2
    <3> HIDE DEF f
    <3> QED BY <1>3, <3>1
  <2> QED BY <2>1
<1> HIDE DEF f
<1> QED BY <1>4 DEF Reachable

\* What is reachable, without the recursion.
ReachOK ==
    /\ Reachable[Root] /\ Reachable[Elsewhere] /\ ~Reachable[Staging] /\ ~Reachable[Box]
    /\ \A o \in Obj : Reachable[o] <=> (Exists(o) /\ Reachable[place[o].in])

LEMMA ReachableFacts == TypeOK => ReachOK
<1>1. {Root, Elsewhere, Staging, Box} \subseteq Nodes /\ Obj \subseteq Nodes
  BY DEF Nodes
<1> SUFFICES ASSUME TypeOK PROVE ReachOK
  OBVIOUS
<1>2. ASSUME NEW d \in Nodes
      PROVE  Reachable[d] <=> d \in {Root, Elsewhere} \/ (d \in Obj /\ Exists(d) /\ Reachable[place[d].in])
  <2>1. Reachable[d] = (d \in {Root, Elsewhere} \/ (d \in Obj /\ Exists(d) /\ Reachable[place[d].in]))
    BY ReachableIs, Zenon
  <2> QED BY <2>1, Zenon
<1>3. \A o \in Obj : o # Root /\ o # Elsewhere
  BY RestoreConstants
<1>4. Staging \notin {Root, Elsewhere} \cup Obj /\ Box \notin {Root, Elsewhere} \cup Obj
  BY RestoreConstants
<1>5. Reachable[Root] /\ Reachable[Elsewhere]
  BY <1>1, <1>2, Zenon
<1>6. ~Reachable[Staging] /\ ~Reachable[Box]
  BY <1>1, <1>2, <1>4, Zenon
<1>7. \A o \in Obj : Reachable[o] <=> (Exists(o) /\ Reachable[place[o].in])
  BY <1>1, <1>2, <1>3, Zenon
<1> QED BY <1>5, <1>6, <1>7 DEF ReachOK

LEMMA ReachableNext == TypeOK' => ReachOK'
BY ReachableFacts, PTL

-----------------------------------------------------------------------------
(* The inductive invariant *)

Cleaning == {"remove", "inspect", "putback"}
Early    == {"open", "stage", "check", "move", "verify", "publish"}
Holding  == {"inspect", "putback"}
Alive(o) == place[o] \notin {Gone, Unborn}
Born     == \E u \in User : place[u] # Unborn

\* A directory of the restore is where it was made or where it belongs, unless
\* the user took it away; before the chain is published it is out of reach.
DirsOK ==
    /\ \A i \in Made \ made : place[i] = Unborn
    /\ \A i \in made : place[i] \in {Gone, Staged(i), Slot(i), At(Elsewhere, i)}
    /\ ~published => /\ \A i \in made : place[i] = Gone \/ place[i] = IF i = first THEN Staged(i) ELSE Slot(i)
                     /\ \A u \in User : Alive(u) => place[u].in \notin made
    /\ pc \in Early => ~published /\ \A i \in made : place[i] # Gone
    /\ made # {} => parent \in made /\ \A i \in made : i <= parent
    /\ anchor \in User => place[anchor] # Unborn

\* The payload is in the trash until it is moved, and again after a rollback.
PayloadOK ==
    /\ place[Payload] \in {At(Box, Leaf), Target, At(Elsewhere, Payload), Gone}
    /\ pc \in {"open", "stage", "check", "move"} => place[Payload] = At(Box, Leaf)
    /\ pc = "publish" => place[Payload] = Target
    /\ why = "rolled_back" => place[Payload] = At(Box, Leaf) /\ pc \in Cleaning \cup Ended
    /\ dirty => pc \in Cleaning \cup {"unclean", "killed"}
    /\ pc = "rolled_back" => why = "rolled_back" /\ ~dirty

\* The cleanup holds one object at a time, and after a rollback every directory
\* that it is done with is gone, or is in sight because of the user.
Done(i) == i \in made /\ ((pc \in Cleaning /\ i > step) \/ pc = "rolled_back")
Clean(i) == Lost(i) \/ (published /\ place[i] # Staged(i) /\ Born)
CleanOK ==
    /\ pc \in Holding => published /\ \E o \in User \cup {step} : held = {o} /\ place[o] = Staged(o)
    /\ (pc = "putback" /\ step \in held) => Children(step) # {}
    /\ (why = "rolled_back" /\ ~dirty) => \A i \in Made : Done(i) => Clean(i)

\* As long as nothing has to be reported every object of the user's is in a
\* directory that is there, except the one the cleanup holds; and there is an
\* order of the directories from the visible two downwards.
Excused == dirty \/ pc \in {"unclean", "rollback_failed", "killed"}
Homes   == {Root, Elsewhere} \cup {d \in UserDirs \cup Made : Alive(d)}
Housed(o) == Alive(o) =>
    \/ place[o].in \in Homes
    \/ place[o] = Staged(o) /\ ((o \in held /\ pc \in Holding) \/ (o \in made /\ ~published))
Ranked(r) ==
    /\ \A o \in Obj : r[Elsewhere] < r[o]
    /\ \A i \in made : r[Slot(i).in] < r[i]
    /\ \A u \in User : Alive(u) /\ place[u].in # Staging => r[place[u].in] < r[u]
    /\ pc \in Holding => \A o \in held : r[Slot(step).in] < r[o]
HomeOK == ~Excused => /\ \A o \in User \cup Made : Housed(o)
                      /\ \E r \in [Nodes -> Nat] : Ranked(r)

TreeOK == DirsOK /\ PayloadOK /\ CleanOK /\ HomeOK
TInv   == IInv /\ TreeOK

-----------------------------------------------------------------------------
(* Names and places *)

LEMMA Kinds ==
    /\ \A i \in Made : i \in Obj /\ i \notin User /\ i # Payload /\ i \in Names /\ i \in Nodes
                       /\ i \notin {Root, Elsewhere, Staging, Box, Leaf, Extra}
    /\ \A u \in User : u \in Obj /\ u # Payload /\ u \in Names /\ u \in Nodes
                       /\ u \notin {Root, Elsewhere, Staging, Box, Leaf, Extra}
    /\ Payload \in Obj /\ Payload \in Names /\ Payload \notin {Root, Elsewhere, Staging, Box, Leaf, Extra}
    /\ {Root, Elsewhere, Staging, Box} \subseteq Nodes /\ Leaf \in Names
    /\ Root # Elsewhere /\ Root # Staging /\ Root # Box /\ Elsewhere # Staging /\ Elsewhere # Box
    /\ Staging # Box
    /\ UserDirs \subseteq User /\ UserFiles \subseteq User
BY RestoreConstants DEF Obj, Nodes, Names, User

\* The chain of created directories, its slots, and who can be in them.
LEMMA Chain ==
  ASSUME TypeOK
  PROVE  /\ made \subseteq Made /\ first \in Nat /\ first >= 1 /\ made \subseteq Nat
         /\ \A i \in made : i >= first /\ i \in Names /\ i \in Nodes
         /\ \A i \in made : \A j \in first..i : j \in made
         /\ \A i \in made : first \in made /\ (i # first => i - 1 \in made)
         /\ anchor \in {Root} \cup UserDirs /\ anchor \in Nodes
<1>1. CASE made = {}
  BY <1>1, Kinds, RestoreConstants DEF TypeOK
<1>2. CASE made # {}
  <2>1. PICK i \in Made : i <= depth /\ made = first..i
    BY <1>2 DEF TypeOK
  <2>2. first \in Nat /\ first >= 1 /\ i \in Nat /\ i <= MaxDepth
    BY <2>1, RestoreConstants DEF TypeOK, Made
  <2>3. made \subseteq Made /\ made \subseteq Nat
    BY <2>1, <2>2, RestoreConstants DEF Made
  <2>4. \A j \in made : j >= first /\ first \in made /\ (j # first => j - 1 \in made)
    BY <1>2, <2>1, <2>2
  <2>5. \A j \in made : \A k \in first..j : k \in made
    BY <2>1, <2>2
  <2>6. anchor \in {Root} \cup UserDirs /\ anchor \in Nodes
    BY Kinds DEF TypeOK
  <2> QED BY <2>2, <2>3, <2>4, <2>5, <2>6, Kinds
<1> QED BY <1>1, <1>2

LEMMA Slots ==
  ASSUME TypeOK
  PROVE  /\ \A i \in made : /\ Slot(i) \in Rec /\ Slot(i).as = i
                            /\ Slot(i).in = IF i = first THEN anchor ELSE i - 1
                            /\ Slot(i).in \notin {Elsewhere, Staging, Box, Payload}
         /\ \A o \in Obj : /\ Staged(o) \in Rec /\ Staged(o).in = Staging /\ Staged(o).as = o
                           /\ At(Elsewhere, o) \in Rec /\ At(Elsewhere, o).in = Elsewhere /\ At(Elsewhere, o).as = o
         /\ Target \in Rec /\ Target.in = parent /\ Target.as = Leaf
         /\ parent \notin {Elsewhere, Staging, Box, Payload}
         /\ At(Box, Leaf) \in Rec /\ At(Box, Leaf).in = Box /\ At(Box, Leaf).as = Leaf
<1>1. ASSUME NEW i \in made
      PROVE  /\ Slot(i) \in Rec /\ Slot(i).as = i
             /\ Slot(i).in = IF i = first THEN anchor ELSE i - 1
             /\ Slot(i).in \notin {Elsewhere, Staging, Box, Payload}
  <2> DEFINE d == IF i = first THEN anchor ELSE i - 1
  <2>1. i \in Names /\ d \in Nodes /\ d \in {Root} \cup UserDirs \cup Made
    BY Chain
  <2>2. d \notin {Elsewhere, Staging, Box, Payload}
    BY <2>1, Kinds
  <2>3. Slot(i) = At(d, i)
    BY DEF Slot
  <2> HIDE DEF d
  <2> QED BY <2>1, <2>2, <2>3, AtType DEF d
<1>2. \A o \in Obj : /\ Staged(o) \in Rec /\ Staged(o).in = Staging /\ Staged(o).as = o
                     /\ At(Elsewhere, o) \in Rec /\ At(Elsewhere, o).in = Elsewhere /\ At(Elsewhere, o).as = o
  BY AtType DEF Staged, Nodes, Names
<1>3. parent \in Nodes /\ parent \notin {Elsewhere, Staging, Box, Payload}
  BY Kinds DEF TypeOK
<1>4. Target \in Rec /\ Target.in = parent /\ Target.as = Leaf
  BY <1>3, Kinds, AtType DEF Target
<1>5. At(Box, Leaf) \in Rec /\ At(Box, Leaf).in = Box /\ At(Box, Leaf).as = Leaf
  BY Kinds, AtType
<1> QED BY <1>1, <1>2, <1>3, <1>4, <1>5

LEMMA Named ==
  ASSUME TypeOK, DirsOK, PayloadOK
  PROVE  /\ \A i \in made : \A o \in Occupant(Slot(i)) : o \in User \cup {i}
         /\ \A o \in Occupant(Target) : o \in User \cup {Payload}
<1>1. \A o \in Made : place[o] \in {Unborn, Gone, Staged(o), At(Elsewhere, o)} \/ (o \in made /\ place[o] = Slot(o))
  BY DEF DirsOK
<1>2. \A x \in Rec : x # Unborn /\ x # Gone
  BY RecNotGone
<1>3. \A o \in Made : o \in Obj /\ o # Leaf
  BY Kinds
<1>4. ASSUME NEW i \in made, NEW o \in Occupant(Slot(i)) PROVE o \in User \cup {i}
  <2>1. Slot(i) \in Rec /\ Slot(i).as = i /\ place[o] = Slot(i) /\ o \in Obj /\ i \in Made
        /\ Slot(i).in # Box /\ Slot(i).in # Elsewhere
    BY Slots, Chain DEF Occupant
  <2>2. o \in Made => o = i
    BY <1>1, <1>2, <1>3, <2>1, Slots
  <2>3. o # Payload
    <3>1. i # Leaf
      BY <1>3, <2>1
    <3> QED BY <1>2, <2>1, <3>1, Slots, Kinds DEF PayloadOK
  <2> QED BY <2>1, <2>2, <2>3 DEF Obj
<1>5. ASSUME NEW o \in Occupant(Target) PROVE o \in User \cup {Payload}
  <2>1. Target \in Rec /\ Target.as = Leaf /\ place[o] = Target /\ o \in Obj
    BY Slots DEF Occupant
  <2>2. o \notin Made
    BY <1>1, <1>2, <1>3, <2>1, Slots
  <2> QED BY <2>1, <2>2 DEF Obj
<1> QED BY <1>4, <1>5

\* What the user cannot get at.
LEMMA Private ==
  ASSUME TypeOK, DirsOK, PayloadOK
  PROVE  /\ \A o \in Obj : Reachable[o] => Alive(o) /\ place[o] # Staged(o) /\ Reachable[place[o].in]
         /\ \A i \in Made : Reachable[i] => i \in made /\ published
         /\ place[Payload] = At(Box, Leaf) => ~Reachable[Payload]
<1>1. ReachOK
  BY ReachableFacts
<1>2. \A o \in Obj : Reachable[o] => Alive(o) /\ Reachable[place[o].in]
  BY <1>1 DEF ReachOK, Exists, Alive
<1>3. \A o \in Obj : place[o] = Staged(o) => ~Reachable[o]
  BY <1>1, <1>2, Slots DEF ReachOK
<1>4. place[Payload] = At(Box, Leaf) => ~Reachable[Payload]
  BY <1>1, <1>2, Slots, Kinds DEF ReachOK
<1>5. ASSUME ~published, NEW i \in made, Reachable[i] PROVE FALSE
  <2> DEFINE T == {j \in made : Reachable[j]}
  <2>1. T \in SUBSET Nat /\ T # {}
    BY <1>5, Chain
  <2>2. PICK j \in T : \A k \in T : j <= k
    BY <2>1, LeastOf
  <2>3. j \in made /\ Reachable[j] /\ j \in Obj /\ j \in Nat
    BY <2>1, <2>2, Chain, Kinds
  <2>4. CASE j = first
    <3>1. place[j] = Staged(j)
      BY <1>2, <1>5, <2>3, <2>4 DEF DirsOK, Alive
    <3> QED BY <1>3, <2>3, <3>1
  <2>5. CASE j # first
    <3>1. place[j] = Slot(j)
      BY <1>2, <1>5, <2>3, <2>5 DEF DirsOK, Alive
    <3>2. place[j].in = j - 1 /\ j - 1 \in made
      BY <2>3, <2>5, <3>1, Slots, Chain
    <3>3. Reachable[j - 1]
      BY <1>2, <2>3, <3>2
    <3>4. j - 1 \in T
      BY <3>2, <3>3
    <3>5. j <= j - 1
      BY <2>2, <3>4
    <3> QED BY <2>3, <3>5
  <2> QED BY <2>4, <2>5
<1>6. \A i \in Made : Reachable[i] => i \in made
  BY <1>2, Kinds DEF DirsOK, Alive
<1> QED BY <1>2, <1>3, <1>4, <1>5, <1>6

-----------------------------------------------------------------------------
(* The end of the restore *)

\* In a tree without anything to report the user's objects are in sight.
LEMMA TreeIsSeen ==
  ASSUME TypeOK, DirsOK, PayloadOK, HomeOK, ~Excused, pc \notin Holding,
         NEW u \in User, Alive(u)
  PROVE  u \in Seen
<1> DEFINE F == User \cup {i \in made : published}
           B == {o \in F : Alive(o) /\ ~Reachable[o]}
<1>1. ReachOK
  BY ReachableFacts
<1>2. \A o \in F : o \in Obj /\ o \in User \cup Made /\ o \in Nodes
  BY Kinds, Chain
<1>3. PICK r \in [Nodes -> Nat] : Ranked(r)
  BY DEF HomeOK
<1>4. \A o \in User \cup Made : Housed(o)
  BY DEF HomeOK
<1>5. ASSUME B # {} PROVE FALSE
  <2> DEFINE T == {r[o] : o \in B}
  <2>1. T \in SUBSET Nat /\ T # {}
    BY <1>2, <1>3, <1>5
  <2>2. PICK m \in T : \A n \in T : m <= n
    BY <2>1, LeastOf
  <2>3. PICK o \in B : m = r[o]
    OBVIOUS
  <2>4. o \in F /\ o \in Obj /\ Alive(o) /\ ~Reachable[o]
    BY <1>2
  <2>5. ~Reachable[place[o].in]
    BY <1>1, <2>4 DEF ReachOK, Exists, Alive
  <2>6. place[o].in \in Homes
    <3>1. Housed(o)
      BY <1>2, <1>4, <2>4
    <3>2. o \in made => published
      BY <2>4, Kinds, Chain
    <3> QED BY <2>4, <3>1, <3>2 DEF Housed
  <2>7. place[o].in \in UserDirs \cup Made /\ Alive(place[o].in)
    BY <1>1, <2>5, <2>6 DEF Homes, ReachOK
  <2>8. place[o].in \in F
    <3>1. CASE place[o].in \in UserDirs
      BY <3>1, Kinds
    <3>2. CASE place[o].in \in Made
      <4>1. place[o].in \in made
        BY <2>7, <3>2 DEF DirsOK, Alive
      <4>2. published
        BY <2>4, <4>1 DEF DirsOK
      <4> QED BY <4>1, <4>2
    <3> QED BY <2>7, <3>1, <3>2
  <2>9. r[place[o].in] \in T
    BY <2>5, <2>7, <2>8
  <2>10. r[place[o].in] < r[o]
    <3>1. CASE o \in User
      <4>1. place[o].in # Staging
        BY <2>7, Kinds
      <4> QED BY <1>3, <2>4, <3>1, <4>1 DEF Ranked
    <3>2. CASE o \in made
      <4>1. place[o] \in {Staged(o), Slot(o), At(Elsewhere, o)}
        BY <2>4, <3>2 DEF DirsOK, Alive
      <4>2. place[o].in # Staging /\ place[o].in # Elsewhere
        BY <2>7, Kinds
      <4>3. place[o] = Slot(o)
        BY <2>4, <4>1, <4>2, Slots
      <4> QED BY <1>3, <3>2, <4>3 DEF Ranked
    <3> QED BY <2>4, <3>1, <3>2
  <2>11. m <= r[place[o].in] /\ r[place[o].in] \in Nat /\ r[o] \in Nat
    BY <1>2, <1>3, <2>2, <2>4, <2>8, <2>9
  <2> QED BY <2>3, <2>10, <2>11
<1>6. Reachable[u]
  BY <1>5
<1> QED BY <1>6, Kinds DEF Seen

-----------------------------------------------------------------------------
(* The user *)

NoOrphans == \A d \in Obj : Alive(d) /\ ~Alive(d)' => Children(d) = {}

LEMMA HousedStays ==
  ASSUME NoOrphans, NEW x \in User \cup Made, Alive(x), place[x].in \in Homes, place'[x] = place[x]
  PROVE  Housed(x)'
<1>1. x \in Obj
  BY Kinds
<1>2. ASSUME place[x].in \in UserDirs \cup Made PROVE Alive(place[x].in)'
  <2>1. place[x].in \in Obj
    BY <1>2, Kinds
  <2>2. CASE Alive(place[x].in)
    <3>1. x \in Children(place[x].in)
      BY <1>1 DEF Children, Alive
    <3> QED BY <2>1, <2>2, <3>1 DEF NoOrphans
  <2>3. CASE ~Alive(place[x].in)
    BY <1>2, <2>3, Kinds DEF Homes
  <2> QED BY <2>2, <2>3
<1>3. place[x].in \in {Root, Elsewhere} \cup UserDirs \cup Made
  BY DEF Homes
<1> QED BY <1>2, <1>3 DEF Housed, Homes, Alive

\* What the user does, and that it is in sight.
Creates(u, slot) == place[u] = Unborn /\ place' = [place EXCEPT ![u] = slot]
                    /\ slot \in Rec /\ Reachable[slot.in] /\ slot.in \in Homes
Takes(o)   == Reachable[o] /\ place' = [place EXCEPT ![o] = At(Elsewhere, o)]
Deletes(o) == Reachable[o] /\ Children(o) = {} /\ place' = [place EXCEPT ![o] = Gone]

LEMMA UserEffect ==
  ASSUME TInv, UserStep
  PROVE  \/ \E u \in User, slot \in Rec : Creates(u, slot)
         \/ \E o \in Obj : Takes(o) \/ Deletes(o)
<1>1. TypeOK /\ DirsOK /\ PayloadOK
  BY DEF TInv, IInv, TreeOK
<1>2. CASE UserCreate
  <2>1. PICK u \in User, slot \in Free : place[u] = Unborn /\ place' = [place EXCEPT ![u] = slot]
    BY <1>2 DEF UserCreate
  <2>2. PICK d \in Visible, name \in (1..depth) \cup {Leaf, Extra} : slot = At(d, name)
    BY DEF Free
  <2>3. d \in Nodes /\ IsDir(d) /\ Reachable[d]
    BY DEF Visible
  <2>4. name \in Names
    BY <1>1, RestoreConstants DEF TypeOK, Names, Obj, Made
  <2>5. slot \in Rec /\ slot.in = d
    BY <2>2, <2>3, <2>4, AtType
  <2>6. d \in Homes
    <3>1. ReachOK
      BY <1>1, ReachableFacts
    <3>2. d # Staging /\ d # Box
      BY <2>3, <3>1 DEF ReachOK
    <3>3. d \in Made \cup UserDirs => Alive(d)
      BY <1>1, <2>3, Private, Kinds
    <3> QED BY <2>3, <3>2, <3>3 DEF IsDir, Homes
  <2> QED BY <2>1, <2>3, <2>5, <2>6 DEF Creates
<1>3. CASE UserMovesAway
  BY <1>3 DEF UserMovesAway, Seen, Takes
<1>4. CASE UserDelete
  BY <1>4 DEF UserDelete, Seen, Deletes
<1> QED BY <1>2, <1>3, <1>4 DEF UserStep

\* What is out of sight does not change, and nothing is unborn again.
LEMMA UserQuiet ==
  ASSUME TInv, UserStep
  PROVE  /\ \A o \in Obj : Alive(o) /\ ~Reachable[o] => place'[o] = place[o]
         /\ \A o \in Obj : place[o] = Gone => place'[o] = Gone
         /\ \A o \in Obj : place[o] # Unborn => place'[o] # Unborn
         /\ \A o \in Obj \ User : place'[o] # place[o] => Reachable[o] /\ place'[o] \in {At(Elsewhere, o), Gone}
         /\ \A u \in User : Alive(u)' => place'[u] = place[u] \/ Reachable[place'[u].in]
         /\ NoOrphans
<1>1. TypeOK /\ DirsOK /\ PayloadOK /\ Gone # Unborn
  BY RestoreConstants DEF TInv, IInv, TreeOK
<1>2. \A x \in Rec : x # Gone /\ x # Unborn
  BY RecNotGone
<1>3. \A o \in Obj : Reachable[o] => Alive(o)
  BY <1>1, Private
<1>4. CASE \E u \in User, slot \in Rec : Creates(u, slot)
  <2>1. PICK u \in User, slot \in Rec : Creates(u, slot)
    BY <1>4
  <2>2. \A o \in Obj : o # u => place'[o] = place[o]
    BY <1>1, <2>1 DEF Creates, TypeOK
  <2>3. place[u] = Unborn /\ place'[u] = slot /\ ~Alive(u) /\ Reachable[slot.in] /\ u \in Obj
    BY <1>1, <2>1, Kinds DEF Creates, TypeOK, Alive
  <2>4. NoOrphans
    BY <2>2, <2>3 DEF NoOrphans, Alive
  <2>5. \A o \in Obj : place[o] = Gone => place'[o] = Gone
    BY <1>1, <2>2, <2>3
  <2>6. \A o \in Obj : place[o] # Unborn => place'[o] # Unborn
    BY <2>2, <2>3
  <2>7. \A o \in Obj : Alive(o) => place'[o] = place[o]
    BY <2>2, <2>3
  <2>8. \A x \in User : place'[x] = place[x] \/ Reachable[place'[x].in]
    BY <2>2, <2>3, Kinds
  <2> QED BY <2>2, <2>3, <2>4, <2>5, <2>6, <2>7, <2>8
<1>5. CASE \E o \in Obj : Takes(o)
  <2>1. PICK o \in Obj : Takes(o)
    BY <1>5
  <2>2. \A x \in Obj : x # o => place'[x] = place[x]
    BY <1>1, <2>1 DEF Takes, TypeOK
  <2>3. Reachable[o] /\ place'[o] = At(Elsewhere, o) /\ Alive(o)
    BY <1>1, <1>3, <2>1 DEF Takes, TypeOK
  <2>4. At(Elsewhere, o) \in Rec /\ At(Elsewhere, o).in = Elsewhere
    BY <1>1, Slots
  <2>5. Reachable[Elsewhere]
    BY <1>1, ReachableFacts DEF ReachOK
  <2> QED BY <1>1, <1>2, <2>2, <2>3, <2>4, <2>5, Kinds DEF NoOrphans, Alive
<1>6. CASE \E o \in Obj : Deletes(o)
  <2>1. PICK o \in Obj : Deletes(o)
    BY <1>6
  <2>2. \A x \in Obj : x # o => place'[x] = place[x]
    BY <1>1, <2>1 DEF Deletes, TypeOK
  <2>3. Reachable[o] /\ place'[o] = Gone /\ Alive(o) /\ Children(o) = {}
    BY <1>1, <1>3, <2>1 DEF Deletes, TypeOK
  <2> QED BY <1>1, <1>2, <2>2, <2>3, Kinds DEF NoOrphans, Alive
<1> QED BY <1>4, <1>5, <1>6, UserEffect

LEMMA UserDirsOK == ASSUME TInv, UserStep PROVE DirsOK'
<1>1. TypeOK /\ DirsOK /\ PayloadOK /\ Gone # Unborn
  BY RestoreConstants DEF TInv, IInv, TreeOK
<1>2. UNCHANGED <<fixed, pc, parent, anchor, first, made, published>>
  BY DEF UserStep, walk
<1>3. \A i \in Made : place'[i] # place[i] =>
          i \in made /\ published /\ place'[i] \in {At(Elsewhere, i), Gone}
  BY <1>1, UserQuiet, Private, Kinds
<1>4. \A i \in Made : Slot(i)' = Slot(i) /\ Staged(i)' = Staged(i)
  BY <1>2 DEF Slot, Staged
<1>5. made \subseteq Made
  BY <1>1, Chain
<1>6. /\ \A i \in Made \ made : place'[i] = Unborn
      /\ \A i \in made : place'[i] \in {Gone, Staged(i), Slot(i), At(Elsewhere, i)}
  BY <1>1, <1>3, <1>5 DEF DirsOK
<1>7. ~published => \A i \in made : place'[i] = Gone \/ place'[i] = IF i = first THEN Staged(i) ELSE Slot(i)
  BY <1>1, <1>3, <1>5 DEF DirsOK
<1>8. ASSUME ~published, NEW u \in User, Alive(u)' PROVE place'[u].in \notin made
  <2>1. CASE place'[u] = place[u]
    BY <1>1, <1>8, <2>1 DEF DirsOK, Alive
  <2>2. CASE Reachable[place'[u].in]
    BY <1>1, <1>5, <1>8, <2>2, Private
  <2> QED BY <1>8, <2>1, <2>2, UserQuiet
<1>9. pc \in Early => ~published /\ \A i \in made : place'[i] # Gone
  BY <1>1, <1>3, <1>5 DEF DirsOK
<1>10. anchor \in User => place'[anchor] # Unborn
  BY <1>1, UserQuiet, Kinds DEF DirsOK
<1> QED BY <1>1, <1>2, <1>4, <1>5, <1>6, <1>7, <1>8, <1>9, <1>10 DEF DirsOK, Alive, Early

LEMMA UserPayloadOK == ASSUME TInv, UserStep PROVE PayloadOK'
<1>1. TypeOK /\ DirsOK /\ PayloadOK
  BY DEF TInv, IInv, TreeOK
<1>2. UNCHANGED <<pc, why, dirty, parent>> /\ Target' = Target
  BY DEF UserStep, walk, cleaning, Target
<1>3. place'[Payload] # place[Payload] =>
          Reachable[Payload] /\ place'[Payload] \in {At(Elsewhere, Payload), Gone}
  BY UserQuiet, Kinds
<1>4. pc = "publish" => ~Reachable[Payload]
  <2> SUFFICES ASSUME pc = "publish", Reachable[Payload] PROVE FALSE
    OBVIOUS
  <2>1. made # {}
    BY DEF TInv, IInv, PathOK
  <2>2. parent \in made /\ ~published
    BY <1>1, <2>1 DEF DirsOK, Early
  <2>3. Reachable[parent]
    BY <1>1, Private, Slots, Kinds DEF PayloadOK
  <2> QED BY <1>1, <2>2, <2>3, Private, Chain
<1>5. place[Payload] = At(Box, Leaf) => place'[Payload] = At(Box, Leaf)
  BY <1>1, <1>3, Private
<1> QED BY <1>1, <1>2, <1>3, <1>4, <1>5 DEF PayloadOK

LEMMA UserCleanOK == ASSUME TInv, UserStep PROVE CleanOK'
<1>1. TypeOK /\ DirsOK /\ PayloadOK /\ CleanOK
  BY DEF TInv, IInv, TreeOK
<1>2. UNCHANGED <<pc, step, held, why, dirty, made, published>>
  BY DEF UserStep, walk, cleaning
<1>3. ASSUME pc \in Holding
      PROVE  published /\ \E o \in User \cup {step} : held = {o} /\ place'[o] = Staged(o)
  <2>1. PICK o \in User \cup {step} : held = {o} /\ place[o] = Staged(o)
    BY <1>1, <1>3 DEF CleanOK
  <2>2. o \in Obj
    BY <2>1, <1>1 DEF TypeOK
  <2>3. ~Reachable[o] /\ Alive(o)
    BY <1>1, <2>1, <2>2, Private, Slots, RecNotGone DEF Alive
  <2>4. place'[o] = place[o]
    BY <2>2, <2>3, UserQuiet
  <2> QED BY <1>1, <1>3, <2>1, <2>4 DEF CleanOK
<1>4. ASSUME pc = "putback", step \in held PROVE Children(step)' # {}
  <2>1. PICK c \in Children(step) : TRUE
    BY <1>1, <1>4 DEF CleanOK
  <2>2. c \in Obj /\ Alive(c) /\ place[c].in = step
    BY DEF Children, Alive
  <2>3. place[step] = Staged(step) /\ step \in Obj
    <3>1. PICK o \in User \cup {step} : held = {o} /\ place[o] = Staged(o)
      BY <1>1, <1>4 DEF CleanOK, Holding
    <3> QED BY <1>1, <1>4, <3>1 DEF TypeOK
  <2>4. ~Reachable[step]
    BY <1>1, <2>3, Private
  <2>5. place'[c] = place[c]
    BY <1>1, <2>2, <2>4, Private, UserQuiet
  <2>6. c \in Children(step)'
    BY <1>2, <2>2, <2>5 DEF Children, Alive
  <2> QED BY <2>6
<1>5. ASSUME why = "rolled_back", ~dirty, NEW i \in Made, Done(i) PROVE Clean(i)'
  <2>1. Clean(i) /\ i \in Obj
    BY <1>1, <1>5, Kinds DEF CleanOK
  <2>2. CASE Lost(i)
    BY <2>1, <2>2, UserQuiet DEF Lost, Clean
  <2>3. CASE published /\ place[i] # Staged(i) /\ Born
    <3>1. Born'
      BY <2>3, UserQuiet, Kinds DEF Born
    <3>2. place'[i] # Staged(i) \/ place'[i] = Gone
      BY <1>1, <2>1, <2>3, UserQuiet, Kinds, Slots
    <3> QED BY <1>2, <2>3, <3>1, <3>2 DEF Clean, Lost, Staged
  <2> QED BY <2>1, <2>2, <2>3 DEF Clean
<1>6. \A i \in Made : Done(i)' => Done(i)
  BY <1>2 DEF Done
<1> QED BY <1>2, <1>3, <1>4, <1>5, <1>6 DEF CleanOK, Staged, Holding

\* A new object comes below the directory it is created in.
LEMMA RankedBelow ==
  ASSUME TypeOK, DirsOK, CleanOK, NEW r \in [Nodes -> Nat], Ranked(r),
         NEW u \in User, place[u] = Unborn, NEW slot \in Rec, slot.in \in Homes,
         \A o \in User \cup Made : Housed(o),
         place' = [place EXCEPT ![u] = slot],
         UNCHANGED <<pc, anchor, first, made, step, held>>
  PROVE  \E q \in [Nodes -> Nat] : Ranked(q)'
<1> DEFINE q == [r EXCEPT ![u] = r[slot.in] + r[Elsewhere] + 1]
<1>1. u \in Nodes /\ u \in Obj /\ Elsewhere \in Nodes /\ u # Elsewhere /\ ~Alive(u) /\ Staging # u
  BY Kinds DEF Alive
<1>2. slot.in \in Nodes /\ slot.in # u
  BY <1>1, Kinds DEF Rec, Homes
<1>3. r[slot.in] \in Nat /\ r[Elsewhere] \in Nat
  BY <1>1, <1>2
<1>4. q \in [Nodes -> Nat] /\ q[u] = r[slot.in] + r[Elsewhere] + 1
  BY <1>1, <1>3
<1>5. \A d \in Nodes : d # u => q[d] = r[d]
  BY <1>1
<1>6. \A i \in made : Slot(i).in # u /\ Slot(i).in \in Nodes
  <2>1. \A i \in made : Slot(i).in \in {anchor, i - 1}  /\ (Slot(i).in = anchor \/ i - 1 \in made) /\ Slot(i) \in Rec
    BY Slots, Chain
  <2>2. anchor # u
    BY DEF DirsOK
  <2>3. \A i \in made : i # u
    BY Chain, Kinds
  <2>4. \A i \in made : Slot(i).in # u
    BY <2>1, <2>2, <2>3, Slots, Chain
  <2> QED BY <2>1, <2>4 DEF Rec
<1>7. \A i \in made : Slot(i)' = Slot(i)
  BY DEF Slot
<1> HIDE DEF q
<1>8. \A o \in Obj : q[Elsewhere] < q[o]
  <2> SUFFICES ASSUME NEW o \in Obj PROVE q[Elsewhere] < q[o]
    OBVIOUS
  <2>1. o \in Nodes /\ q[Elsewhere] = r[Elsewhere] /\ r[Elsewhere] < r[o]
    BY <1>1, <1>5 DEF Nodes, Ranked
  <2>2. CASE o = u
    BY <1>3, <1>4, <2>1, <2>2
  <2>3. CASE o # u
    BY <1>5, <2>1, <2>3
  <2> QED BY <2>2, <2>3
<1>9. \A i \in made : q[Slot(i).in] < q[i]
  <2> SUFFICES ASSUME NEW i \in made PROVE q[Slot(i).in] < q[i]
    OBVIOUS
  <2>1. i \in Nodes /\ i # u
    BY Chain, Kinds
  <2> QED BY <1>5, <1>6, <2>1 DEF Ranked
<1>10. ASSUME NEW v \in User, Alive(v)', place'[v].in # Staging PROVE q[place'[v].in] < q[v]
  <2>1. CASE v = u
    <3>1. place'[v] = slot
      BY <2>1, <1>1 DEF TypeOK
    <3> QED BY <1>2, <1>3, <1>4, <1>5, <2>1, <3>1
  <2>2. CASE v # u
    <3>1. place'[v] = place[v] /\ Alive(v) /\ v \in Nodes
      BY <1>10, <2>2, Kinds DEF TypeOK, Alive
    <3>2. Housed(v) /\ place[v] # Staged(v)
      BY <1>10, <3>1, Slots, Kinds
    <3>3. place[v].in \in Homes
      BY <3>1, <3>2 DEF Housed
    <3>4. place[v].in \in Nodes /\ place[v].in # u
      BY <1>1, <3>3, Kinds DEF Homes
    <3>5. r[place[v].in] < r[v]
      BY <1>10, <3>1 DEF Ranked
    <3> QED BY <1>5, <2>2, <3>1, <3>4, <3>5
  <2> QED BY <2>1, <2>2
<1>11. ASSUME pc \in Holding, NEW o \in held PROVE q[Slot(step).in] < q[o]
  <2>1. step \in made /\ step \in Made /\ step \in Obj
    BY <1>11, Chain, Kinds DEF TypeOK, Holding
  <2>2. o \in Obj /\ place[o] = Staged(o)
    BY <1>11, <2>1, Kinds DEF CleanOK
  <2>3. o # u /\ o \in Nodes
    BY <2>2, Slots, RecNotGone, Kinds DEF Nodes
  <2>4. r[Slot(step).in] < r[o]
    BY <1>11 DEF Ranked
  <2> QED BY <1>5, <1>6, <2>1, <2>3, <2>4
<1>12. pc' \in Holding => \A o \in held' : q[Slot(step)'.in] < q[o]
  <2> SUFFICES ASSUME pc' \in Holding PROVE \A o \in held' : q[Slot(step)'.in] < q[o]
    OBVIOUS
  <2>1. step \in made
    BY DEF TypeOK, Holding
  <2> QED BY <1>7, <1>11, <2>1
<1>13. Ranked(q)'
  BY <1>7, <1>8, <1>9, <1>10, <1>12 DEF Ranked, Alive, Slot
<1> QED BY <1>4, <1>13

LEMMA UserHomeOK == ASSUME TInv, UserStep PROVE HomeOK'
<1>1. TypeOK /\ DirsOK /\ PayloadOK /\ CleanOK /\ HomeOK
  BY DEF TInv, IInv, TreeOK
<1>2. UNCHANGED <<pc, anchor, first, made, published, step, held, dirty>>
  BY DEF UserStep, walk, cleaning
<1> SUFFICES ASSUME ~Excused'
             PROVE  (\A o \in User \cup Made : Housed(o)') /\ \E r \in [Nodes -> Nat] : Ranked(r)'
  BY DEF HomeOK
<1>3. ~Excused
  BY <1>2 DEF Excused
<1>4. (\A o \in User \cup Made : Housed(o)) /\ \E r \in [Nodes -> Nat] : Ranked(r)
  BY <1>1, <1>3 DEF HomeOK
<1>5. NoOrphans /\ \A o \in Obj : place[o] # Unborn => place'[o] # Unborn
  BY UserQuiet
<1>6. ASSUME NEW x \in User \cup Made, place'[x] = place[x] PROVE Housed(x)'
  <2>1. CASE ~Alive(x)
    BY <1>6, <2>1 DEF Housed, Alive
  <2>2. CASE Alive(x) /\ place[x].in \in Homes
    BY <1>5, <1>6, <2>2, HousedStays
  <2>3. CASE Alive(x) /\ place[x].in \notin Homes
    <3>1. place[x] = Staged(x) /\ ((x \in held /\ pc \in Holding) \/ (x \in made /\ ~published))
      BY <1>4, <2>3 DEF Housed
    <3> QED BY <1>2, <1>6, <3>1 DEF Housed, Staged
  <2> QED BY <2>1, <2>2, <2>3
<1>7. CASE \E u \in User, slot \in Rec : Creates(u, slot)
  <2>1. PICK u \in User, slot \in Rec : Creates(u, slot)
    BY <1>7
  <2>2. place[u] = Unborn /\ place' = [place EXCEPT ![u] = slot] /\ slot.in \in Homes
    BY <2>1 DEF Creates
  <2>3. \A x \in Obj : x # u => place'[x] = place[x]
    BY <1>1, <2>2 DEF TypeOK
  <2>4. place'[u] = slot
    BY <1>1, <2>2, Kinds DEF TypeOK
  <2>5. slot.in \in Homes'
    <3>1. ASSUME slot.in \in UserDirs \cup Made PROVE Alive(slot.in)'
      <4>1. Alive(slot.in) /\ slot.in \in Obj
        BY <2>2, <3>1, Kinds DEF Homes
      <4>2. slot.in # u
        BY <2>2, <4>1 DEF Alive
      <4> QED BY <2>3, <4>1, <4>2 DEF Alive
    <3>2. slot.in \in {Root, Elsewhere} \cup UserDirs \cup Made
      BY <2>2 DEF Homes
    <3> QED BY <3>1, <3>2 DEF Homes
  <2>6. Housed(u)'
    BY <2>4, <2>5 DEF Housed
  <2>7. \A x \in User \cup Made : Housed(x)'
    BY <1>6, <2>3, <2>6, Kinds
  <2>8. \E q \in [Nodes -> Nat] : Ranked(q)'
    BY <1>1, <1>2, <1>4, <2>2, RankedBelow
  <2> QED BY <2>7, <2>8
<1>8. CASE \E o \in Obj : Takes(o) \/ Deletes(o)
  <2>0. PICK o \in Obj : \E where \in {At(Elsewhere, o), Gone} : place' = [place EXCEPT ![o] = where]
    BY <1>8 DEF Takes, Deletes
  <2>1. PICK where \in {At(Elsewhere, o), Gone} : place' = [place EXCEPT ![o] = where]
    BY <2>0
  <2>2. place'[o] = where /\ \A x \in Obj : x # o => place'[x] = place[x]
    BY <1>1, <2>1 DEF TypeOK
  <2>3. o \in User \cup Made => Housed(o)'
    <3>1. where = Gone \/ where.in = Elsewhere
      BY <1>1, Slots
    <3> QED BY <2>2, <3>1 DEF Housed, Alive, Homes
  <2>4. \A x \in User \cup Made : Housed(x)'
    BY <1>6, <2>2, <2>3, Kinds
  <2>5. PICK r \in [Nodes -> Nat] : Ranked(r)
    BY <1>4
  <2>6. ASSUME NEW v \in User, Alive(v)', place'[v].in # Staging PROVE r[place'[v].in] < r[v]
    <3>1. CASE v = o
      <4>1. place'[v].in = Elsewhere /\ v \in Obj
        BY <1>1, <2>2, <2>6, <3>1, Slots DEF Alive
      <4> QED BY <2>5, <4>1 DEF Ranked
    <3>2. CASE v # o
      <4>1. place'[v] = place[v] /\ Alive(v)
        BY <2>2, <2>6, <3>2, Kinds DEF Alive
      <4> QED BY <2>5, <2>6, <4>1 DEF Ranked
    <3> QED BY <3>1, <3>2
  <2>7. Ranked(r)'
    BY <1>2, <2>5, <2>6 DEF Ranked, Slot, Alive, Holding
  <2> QED BY <2>4, <2>5, <2>7
<1> QED BY <1>7, <1>8, UserEffect

-----------------------------------------------------------------------------
(* Pieces of the steps of the restore *)

LEMMA AllHoused ==
  ASSUME NoOrphans, \A x \in User \cup Made : Housed(x),
         \A x \in User \cup Made : place'[x] # place[x] => Housed(x)',
         \A x \in User \cup Made : place'[x] = place[x] /\ Alive(x) /\ place[x] = Staged(x) => Housed(x)'
  PROVE  \A x \in User \cup Made : Housed(x)'
<1> SUFFICES ASSUME NEW x \in User \cup Made, place'[x] = place[x], Alive(x) PROVE Housed(x)'
  BY DEF Housed, Alive
<1>1. place[x].in \in Homes \/ place[x] = Staged(x)
  BY DEF Housed
<1> QED BY <1>1, HousedStays

LEMMA RankedOn ==
  ASSUME TypeOK, DirsOK, NEW r \in [Nodes -> Nat], Ranked(r), UNCHANGED <<anchor, first, made>>,
         \A u \in User : place'[u] # place[u] => place'[u] \in {Gone, Staged(u)},
         pc' \in Holding =>
             \/ pc \in Holding /\ UNCHANGED <<step, held>>
             \/ step' = step /\ step \in made /\ \A o \in held' : o \in User \cup {step} /\ place[o] = Slot(step)
  PROVE  Ranked(r)'
<1>1. \A i : Slot(i)' = Slot(i)
  BY DEF Slot
<1>2. ASSUME NEW u \in User, Alive(u)', place'[u].in # Staging PROVE r[place'[u].in] < r[u]
  <2>1. place'[u] = place[u]
    BY <1>2, Slots, Kinds DEF Alive
  <2> QED BY <1>2, <2>1 DEF Ranked, Alive
<1>3. ASSUME pc' \in Holding, NEW o \in held' PROVE r[Slot(step)'.in] < r[o]
  <2>1. CASE pc \in Holding /\ UNCHANGED <<step, held>>
    BY <1>1, <1>3, <2>1 DEF Ranked
  <2>2. CASE step' = step /\ step \in made /\ o \in User \cup {step} /\ place[o] = Slot(step)
    <3>1. Slot(step) \in Rec /\ Slot(step).in # Staging
      BY <2>2, Slots
    <3>2. Alive(o) /\ place[o].in # Staging
      BY <2>2, <3>1, RecNotGone DEF Alive
    <3>3. r[Slot(step).in] < r[o]
      BY <2>2, <3>2 DEF Ranked
    <3> QED BY <1>1, <2>2, <3>3
  <2> QED BY <1>3, <2>1, <2>2
<1> QED BY <1>1, <1>2, <1>3 DEF Ranked, Alive

\* What a step that keeps the walk has to show about the homes.
LEMMA HomeOn ==
  ASSUME TInv, NoOrphans, UNCHANGED <<anchor, first, made>>,
         ~Excused' => ~Excused,
         ~Excused' => \A x \in User \cup Made : place'[x] # place[x] => Housed(x)',
         ~Excused' => \A x \in User \cup Made :
                          place'[x] = place[x] /\ Alive(x) /\ place[x] = Staged(x) => Housed(x)',
         ~Excused' => \A u \in User : place'[u] # place[u] => place'[u] \in {Gone, Staged(u)},
         ~Excused' /\ pc' \in Holding =>
             \/ pc \in Holding /\ UNCHANGED <<step, held>>
             \/ step' = step /\ step \in made /\ \A o \in held' : o \in User \cup {step} /\ place[o] = Slot(step)
  PROVE  HomeOK'
<1> SUFFICES ASSUME ~Excused'
             PROVE  (\A o \in User \cup Made : Housed(o)') /\ \E r \in [Nodes -> Nat] : Ranked(r)'
  BY DEF HomeOK
<1>1. (\A o \in User \cup Made : Housed(o)) /\ \E r \in [Nodes -> Nat] : Ranked(r)
  BY DEF TInv, TreeOK, HomeOK
<1>2. \A o \in User \cup Made : Housed(o)'
  BY <1>1, AllHoused
<1>3. PICK r \in [Nodes -> Nat] : Ranked(r)
  BY <1>1
<1>4. Ranked(r)'
  BY <1>3, RankedOn DEF TInv, IInv, TreeOK
<1> QED BY <1>2, <1>3, <1>4

\* Before the cleanup nothing has to be reported, and nothing is held.
LEMMA BeforeCleaning ==
  ASSUME TInv, pc \in Steps \ Cleaning
  PROVE  /\ ~Excused /\ ~dirty /\ why # "rolled_back" /\ pc \notin Holding /\ pc \notin Ended
         /\ \A x \in User \cup Made : Alive(x) /\ place[x] = Staged(x) => x \in made /\ ~published
<1>1. pc \notin Cleaning /\ pc \notin Ended /\ pc \notin Holding
  BY DEF Steps, Cleaning, Ended, Holding
<1>2. ~dirty /\ why # "rolled_back"
  BY <1>1 DEF TInv, TreeOK, PayloadOK, Ended
<1>3. ~Excused
  BY <1>1, <1>2 DEF Excused, Ended
<1>4. \A x \in User \cup Made : Housed(x)
  BY <1>3 DEF TInv, TreeOK, HomeOK
<1>5. Staging \notin Homes
  BY Kinds DEF Homes
<1>6. ASSUME NEW x \in User \cup Made, Alive(x), place[x] = Staged(x) PROVE x \in made /\ ~published
  <2>1. place[x].in = Staging
    BY <1>6, Slots, Kinds DEF TInv, IInv
  <2> QED BY <1>1, <1>4, <1>5, <1>6, <2>1 DEF Housed
<1> QED BY <1>1, <1>2, <1>3, <1>6

LEMMA HomeStill ==
  ASSUME TInv, pc \in Steps \ Cleaning, pc' \notin Holding, UNCHANGED <<place, walk>>
  PROVE  HomeOK'
<1>1. ~Excused /\ \A x \in User \cup Made : Alive(x) /\ place[x] = Staged(x) => x \in made /\ ~published
  BY BeforeCleaning
<1>2. NoOrphans
  BY DEF NoOrphans, Alive
<1>3. UNCHANGED <<anchor, first, made, published>>
  BY DEF walk
<1>4. \A x \in User \cup Made : Alive(x) /\ place[x] = Staged(x) => Housed(x)'
  BY <1>1, <1>3 DEF Housed, Staged
<1> QED BY <1>1, <1>2, <1>3, <1>4, HomeOn

LEMMA DirsStill ==
  ASSUME DirsOK, UNCHANGED <<place, walk>>, pc' \in Early => pc \in Early
  PROVE  DirsOK'
<1>1. \A i : Slot(i)' = Slot(i) /\ Staged(i)' = Staged(i)
  BY DEF Slot, Staged, walk
<1> QED BY <1>1 DEF DirsOK, walk, Alive

\* The cleanup begins with the deepest directory, and has done nothing yet.
LEMMA CleanUpStarts ==
  ASSUME TypeOK, UNCHANGED walk, NEW why1 \in {"refused", "unverified", "rolled_back"}, CleanUp(why1)
  PROVE  /\ pc' \in {why1, "remove"} /\ held' = {} /\ dirty' = FALSE /\ why' = why1
         /\ pc' \notin Holding /\ pc' \notin Early /\ pc' \in Cleaning \cup Ended
         /\ CleanOK'
<1>1. pc' \in {why1, "remove"} /\ held' = {} /\ dirty' = FALSE /\ why' = why1
  BY DEF CleanUp, Goto
<1>2. pc' \notin Holding /\ pc' \notin Early /\ pc' \in Cleaning \cup Ended /\ pc' # "putback"
  BY <1>1 DEF Holding, Early, Cleaning, Ended
<1>3. \A i \in Made : ~Done(i)'
  <2>1. CASE made = {}
    BY <2>1 DEF Done, walk
  <2>2. CASE made # {}
    <3>1. pc' = "remove" /\ step' = Deepest
      BY <2>2 DEF CleanUp, Goto
    <3>2. Deepest \in Nat /\ made = first..Deepest /\ first \in Nat
      BY <2>2, DeepestFact, Chain
    <3>3. \A i \in made : ~(i > step')
      BY <3>1, <3>2
    <3> QED BY <3>1, <3>3 DEF Done, walk
  <2> QED BY <2>1, <2>2
<1>4. CleanOK'
  BY <1>2, <1>3 DEF CleanOK
<1> QED BY <1>1, <1>2, <1>4

\* Nothing is done yet at any step before the cleanup, nor by a kill.
LEMMA NotCleaning ==
  ASSUME pc' \notin Cleaning, pc' # "rolled_back"
  PROVE  CleanOK'
BY DEF CleanOK, Done, Cleaning, Holding

\* A failure before the payload has moved back.
LEMMA GiveUp ==
  ASSUME TInv, pc \in Steps \ Cleaning, UNCHANGED <<place, walk>>,
         NEW why1 \in {"refused", "unverified"}, CleanUp(why1)
  PROVE  TreeOK'
<1>1. TypeOK /\ DirsOK /\ PayloadOK
  BY DEF TInv, IInv, TreeOK
<1>2. /\ pc' \in {why1, "remove"} /\ dirty' = FALSE /\ why' = why1
      /\ pc' \notin Holding /\ pc' \notin Early /\ CleanOK'
  BY <1>1, CleanUpStarts
<1>3. DirsOK'
  BY <1>1, <1>2, DirsStill
<1>4. PayloadOK'
  <2>1. Target' = Target
    BY DEF Target, walk
  <2>2. pc' \notin {"open", "stage", "check", "move", "publish", "rolled_back"}
    BY <1>2
  <2> QED BY <1>1, <1>2, <2>1, <2>2 DEF PayloadOK
<1>5. HomeOK'
  BY <1>2, HomeStill
<1> QED BY <1>2, <1>3, <1>4, <1>5 DEF TreeOK

\* A step that only goes on.
LEMMA GoOn ==
  ASSUME TInv, pc \in Steps \ Cleaning, UNCHANGED <<place, walk, cleaning>>,
         pc' \in {"move", "append", "publish", "restored", "recheck", "return", "rollback_failed"},
         pc' = "move" => pc = "check",
         pc' = "publish" => pc = "verify" /\ place[Payload] = Target
  PROVE  TreeOK'
<1>1. TypeOK /\ DirsOK /\ PayloadOK
  BY DEF TInv, IInv, TreeOK
<1>2. ~dirty /\ why # "rolled_back" /\ UNCHANGED <<dirty, why>>
  BY BeforeCleaning DEF cleaning
<1>3. pc' \notin Holding /\ pc' \notin Cleaning /\ pc' # "rolled_back"
  BY DEF Holding, Cleaning
<1>4. DirsOK'
  BY <1>1, DirsStill DEF Early
<1>5. PayloadOK'
  <2>1. Target' = Target
    BY DEF Target, walk
  <2>2. pc' \notin {"open", "stage", "check"}
    OBVIOUS
  <2> QED BY <1>1, <1>2, <1>3, <2>1, <2>2 DEF PayloadOK
<1> QED BY <1>3, <1>4, <1>5, NotCleaning, HomeStill DEF TreeOK
\* A change of nothing that the tree depends on.
LEMMA TreeStutter == TreeOK /\ UNCHANGED <<place, pc, walk, cleaning>> => TreeOK'
<1> SUFFICES ASSUME TreeOK, UNCHANGED <<place, pc, walk, cleaning>> PROVE TreeOK'
  OBVIOUS
<1>1. DirsOK' /\ PayloadOK'
  BY DEF TreeOK, DirsOK, PayloadOK, Staged, Slot, Target, Alive, walk, cleaning
<1>2. CleanOK'
  BY DEF TreeOK, CleanOK, Done, Clean, Lost, Born, Staged, Children, walk, cleaning
<1>3. HomeOK'
  BY DEF TreeOK, HomeOK, Excused, Housed, Homes, Ranked, Alive, Staged, Slot, walk, cleaning
<1> QED BY <1>1, <1>2, <1>3 DEF TreeOK

LEMMA InitTreeOK == Init => TreeOK
<1> SUFFICES ASSUME Init PROVE TreeOK
  OBVIOUS
<1>1. /\ pc = "open" /\ made = {} /\ published = FALSE /\ dirty = FALSE /\ why = "refused" /\ anchor = Root
      /\ held = {}
  BY DEF Init
<1>2. \A o \in Obj : place[o] = IF o = Payload THEN At(Box, Leaf) ELSE Unborn
  BY DEF Init
<1>3. \A o \in User \cup Made : place[o] = Unborn /\ ~Alive(o)
  BY <1>2, Kinds DEF Alive
<1>4. DirsOK
  BY <1>1, <1>3, Kinds DEF DirsOK
<1>5. PayloadOK
  BY <1>1, <1>2, Kinds DEF PayloadOK
<1>6. CleanOK
  BY <1>1 DEF CleanOK, Done, Cleaning, Holding
<1>7. HomeOK
  <2> DEFINE r == [d \in Nodes |-> IF d \in Obj THEN 1 ELSE 0]
  <2>0. Elsewhere \in Nodes /\ Elsewhere \notin Obj /\ Obj \subseteq Nodes
    BY RestoreConstants DEF Nodes
  <2>1. r \in [Nodes -> Nat] /\ \A o \in Obj : r[Elsewhere] < r[o]
    BY <2>0
  <2> HIDE DEF r
  <2>2. Ranked(r)
    BY <1>1, <1>3, <2>1 DEF Ranked
  <2> QED BY <1>3, <2>1, <2>2 DEF HomeOK, Housed
<1> QED BY <1>4, <1>5, <1>6, <1>7 DEF TreeOK

\* What is hidden in staging without being reported.
LEMMA InStaging ==
  ASSUME TInv, ~Excused, NEW x \in User \cup Made, Alive(x), place[x] = Staged(x)
  PROVE  (x \in held /\ pc \in Holding) \/ (x \in made /\ ~published)
<1>1. Housed(x)
  BY DEF TInv, TreeOK, HomeOK
<1>2. Staging \notin Homes
  BY Kinds DEF Homes
<1>3. place[x].in = Staging
  BY Slots, Kinds DEF TInv, IInv
<1> QED BY <1>1, <1>2, <1>3 DEF Housed

\* A rename that took place: into a directory that is there, or over what is
\* in it, and nothing that had something in it is replaced.
Moves(o, slot) ==
    \/ Occupant(slot) = {} /\ Exists(slot.in) /\ place' = [place EXCEPT ![o] = slot]
    \/ \E x \in Occupant(slot) : CanReplace(o, x) /\ place' = [place EXCEPT ![o] = slot, ![x] = Gone]

LEMMA Landing ==
  ASSUME TypeOK, NEW o \in Obj, NEW slot \in Rec, place[o] # slot, Moves(o, slot)
  PROVE  /\ place'[o] = slot /\ NoOrphans
         /\ \A x \in Obj : x # o => place'[x] = place[x] \/ (place'[x] = Gone /\ x \in Occupant(slot))
         /\ slot.in \in Obj /\ Alive(slot.in) => Alive(slot.in)'
         /\ Exists(slot.in) \/ \E x \in Occupant(slot) : x \in Obj
<1>1. CASE Occupant(slot) = {} /\ Exists(slot.in) /\ place' = [place EXCEPT ![o] = slot]
  <2>1. place'[o] = slot /\ \A x \in Obj : x # o => place'[x] = place[x]
    BY <1>1 DEF TypeOK
  <2> QED BY <1>1, <2>1, RecNotGone DEF NoOrphans, Alive
<1>2. ASSUME NEW x \in Occupant(slot), CanReplace(o, x), place' = [place EXCEPT ![o] = slot, ![x] = Gone]
      PROVE  /\ place'[o] = slot /\ NoOrphans
             /\ \A y \in Obj : y # o => place'[y] = place[y] \/ (place'[y] = Gone /\ y \in Occupant(slot))
             /\ slot.in \in Obj /\ Alive(slot.in) => Alive(slot.in)'
             /\ \E y \in Occupant(slot) : y \in Obj
  <2>1. x \in Obj /\ place[x] = slot /\ x # o /\ Children(x) = {}
    BY <1>2 DEF Occupant, CanReplace
  <2>2. place'[o] = slot /\ place'[x] = Gone /\ \A y \in Obj : y \notin {o, x} => place'[y] = place[y]
    BY <1>2, <2>1 DEF TypeOK
  <2>3. NoOrphans
    BY <2>1, <2>2, RecNotGone DEF NoOrphans, Alive
  <2>4. slot.in # x
    BY <2>1, RecNotGone DEF Children
  <2>5. slot.in \in Obj /\ Alive(slot.in) => Alive(slot.in)'
    BY <2>2, <2>4, RecNotGone DEF Alive
  <2> QED BY <2>1, <2>2, <2>3, <2>5
<1> QED BY <1>1, <1>2 DEF Moves

\* The directory it lands in is a home.
LEMMA LandsAtHome ==
  ASSUME TypeOK, NEW o \in Obj, NEW slot \in Rec, place[o] # slot, Moves(o, slot),
         slot.in \in {Root} \cup UserDirs \cup Made, Occupant(slot) \subseteq User \cup Made,
         \A x \in User \cup Made : Housed(x)
  PROVE  slot.in \in Homes'
<1>1. slot.in \in Obj => Alive(slot.in)
  <2>1. CASE Exists(slot.in)
    BY <2>1 DEF Exists, Alive
  <2>2. CASE \E x \in Occupant(slot) : x \in Obj
    <3>1. PICK x \in Occupant(slot) : x \in Obj
      BY <2>2
    <3>2. place[x] = slot /\ Alive(x) /\ Housed(x)
      BY <3>1, RecNotGone DEF Occupant, Alive
    <3>3. slot.in # Staging
      BY Kinds
    <3>4. slot.in \in Homes
      BY <3>1, <3>2, <3>3, Slots DEF Housed
    <3>5. Root \notin Obj /\ Elsewhere \notin Obj
      BY RestoreConstants
    <3> QED BY <3>4, <3>5 DEF Homes
  <2> QED BY <2>1, <2>2, Landing
<1>2. slot.in \in Obj => Alive(slot.in)'
  BY <1>1, Landing
<1>3. slot.in \in UserDirs \cup Made => slot.in \in Obj
  BY Kinds
<1> QED BY <1>2, <1>3 DEF Homes, Alive

-----------------------------------------------------------------------------
(* The way up to the publication *)

LEMMA OpenTree == ASSUME TInv, Open PROVE TreeOK'
<1>1. TypeOK /\ DirsOK /\ PayloadOK /\ HomeOK /\ made = {} /\ pc = "open"
  BY DEF TInv, IInv, PathOK, TreeOK, Open
<1>2. PICK d \in SUBSET UserDirs, k \in 1..(depth + 1) :
         /\ d \subseteq Seen
         /\ \E here \in (IF k - 1 = 0 THEN {Root} ELSE {x \in d : place[x].as = k - 1}) :
              /\ anchor' = here
              /\ Goto("check") \/ Goto("stage") \/ Goto("refused")
  BY DEF Open
<1>3. anchor' = Root \/ (anchor' \in UserDirs /\ anchor' \in Seen)
  BY <1>2
<1>4. pc' \in {"check", "stage", "refused"}
  BY <1>2 DEF Goto
<1>5. made' = {} /\ UNCHANGED <<place, published, step, held, dirty, why>>
  BY <1>1 DEF Open, Still, cleaning
<1>6. ~published /\ ~Excused /\ ~dirty /\ why # "rolled_back" /\ pc \notin Holding
  BY <1>1, BeforeCleaning DEF DirsOK, Early, Steps, Cleaning
<1>7. pc' \notin Holding /\ pc' \notin Cleaning /\ pc' # "rolled_back"
  BY <1>4 DEF Holding, Cleaning
<1>8. DirsOK'
  <2>1. anchor' \in User => place[anchor'] # Unborn
    <3>1. \A o \in Seen : Alive(o)
      BY <1>1, Private DEF Seen
    <3>2. Root \notin User
      BY Kinds
    <3> QED BY <1>3, <3>1, <3>2 DEF Alive
  <2> QED BY <1>1, <1>5, <1>6, <2>1 DEF DirsOK
<1>9. PayloadOK'
  BY <1>1, <1>4, <1>5, <1>6 DEF PayloadOK
<1>10. CleanOK'
  BY <1>7, NotCleaning
<1>11. HomeOK'
  <2>1. (\A o \in User \cup Made : Housed(o)) /\ \E r \in [Nodes -> Nat] : Ranked(r)
    BY <1>1, <1>6 DEF HomeOK
  <2>2. \A o \in User \cup Made : Housed(o)'
    BY <1>1, <1>5, <1>6, <2>1 DEF Housed, Homes, Alive, Staged
  <2>3. PICK r \in [Nodes -> Nat] : Ranked(r)
    BY <2>1
  <2>4. Ranked(r)'
    BY <1>5, <1>7, <2>3 DEF Ranked, Alive
  <2> QED BY <2>2, <2>4 DEF HomeOK
<1> QED BY <1>8, <1>9, <1>10, <1>11 DEF TreeOK

\* A new directory comes below the one made before it.
LEMMA StageRanked ==
  ASSUME TypeOK, DirsOK, NEW r \in [Nodes -> Nat], Ranked(r), NEW i \in Made, i \notin made,
         NEW d \in Nodes, d # i, d = IF i = first THEN anchor ELSE i - 1,
         \A j \in made : j # first => j - 1 # i,
         \A u \in User : Alive(u) => place[u].in # i,
         NEW slot, place' = [place EXCEPT ![i] = slot], made' = made \cup {i},
         UNCHANGED <<anchor, first>>, pc' \notin Holding
  PROVE  \E q \in [Nodes -> Nat] : Ranked(q)'
<1> DEFINE q == [r EXCEPT ![i] = r[d] + r[Elsewhere] + 1]
<1>1. i \in Nodes /\ i \in Obj /\ i \notin User /\ Elsewhere \in Nodes /\ Elsewhere # i /\ anchor # i
  BY Kinds DEF TypeOK
<1>2. r[d] \in Nat /\ r[Elsewhere] \in Nat
  BY <1>1
<1>3. q \in [Nodes -> Nat] /\ q[i] = r[d] + r[Elsewhere] + 1
  BY <1>1, <1>2
<1>4. \A n \in Nodes : n # i => q[n] = r[n]
  BY <1>1
<1> HIDE DEF q
<1>5. \A o \in Obj : q[Elsewhere] < q[o]
  <2> SUFFICES ASSUME NEW o \in Obj PROVE q[Elsewhere] < q[o]
    OBVIOUS
  <2>1. o \in Nodes /\ q[Elsewhere] = r[Elsewhere] /\ r[Elsewhere] < r[o]
    BY <1>1, <1>4 DEF Nodes, Ranked
  <2>2. CASE o = i
    BY <1>2, <1>3, <2>1, <2>2
  <2>3. CASE o # i
    BY <1>4, <2>1, <2>3
  <2> QED BY <2>2, <2>3
<1>6. \A j : Slot(j)' = Slot(j)
  BY DEF Slot
<1>7. Slot(i).in = d
  BY DEF Slot, At
<1>8. ASSUME NEW j \in made PROVE q[Slot(j).in] < q[j]
  <2>1. j \in Nodes /\ j # i
    BY Chain
  <2>2. Slot(j) \in Rec /\ Slot(j).in = IF j = first THEN anchor ELSE j - 1
    BY Slots
  <2>3. Slot(j).in \in Nodes /\ Slot(j).in # i
    BY <1>1, <2>2 DEF Rec
  <2>4. r[Slot(j).in] < r[j]
    BY DEF Ranked
  <2> QED BY <1>4, <2>1, <2>3, <2>4
<1>9. q[Slot(i).in] < q[i]
  BY <1>2, <1>3, <1>4, <1>7
<1>10. ASSUME NEW u \in User, Alive(u)', place'[u].in # Staging PROVE q[place'[u].in] < q[u]
  <2>1. u \in Obj /\ u \in Nodes /\ u # i
    BY <1>1, Kinds
  <2>2. place'[u] = place[u] /\ Alive(u)
    BY <1>10, <2>1 DEF TypeOK, Alive
  <2>3. place[u].in # i /\ place[u].in \in Nodes
    BY <2>1, <2>2 DEF TypeOK, Places, Alive
  <2>4. r[place[u].in] < r[u]
    BY <1>10, <2>2 DEF Ranked
  <2> QED BY <1>4, <2>1, <2>2, <2>3, <2>4
<1>11. Ranked(q)'
  <2>1. \A j \in made' : q[Slot(j)'.in] < q[j]
    BY <1>6, <1>8, <1>9
  <2> QED BY <1>5, <1>10, <2>1 DEF Ranked
<1> QED BY <1>3, <1>11

LEMMA StageTree == ASSUME TInv, Stage PROVE TreeOK'
<1>1. TypeOK /\ DirsOK /\ PayloadOK /\ HomeOK /\ pc = "stage" /\ pc \in Steps \ Cleaning
  BY DEF TInv, IInv, TreeOK, Stage, Steps, Cleaning
<1>2. PICK b \in 0..MaxDepth : b >= first - 1 /\ b < depth /\ made = first..b
  BY <1>1 DEF TInv, IInv, PathOK
<1>3. b \in Nat /\ depth \in Nat /\ depth <= MaxDepth /\ MaxDepth \in Nat /\ first \in Nat /\ first >= 1
  BY <1>1, <1>2, RestoreConstants DEF TypeOK
<1>4. (IF made = {} THEN first ELSE 1 + Deepest) = b + 1
  <2>1. CASE made = {}
    <3>1. ~(b >= first)
      BY <1>2, <1>3, <2>1
    <3> QED BY <1>2, <1>3, <2>1, <3>1
  <2>2. CASE made # {}
    <3>1. first <= b
      BY <1>2, <1>3, <2>2
    <3>2. Deepest = b
      BY <1>2, <1>3, <3>1, MadeInterval DEF Deepest
    <3> QED BY <1>3, <2>2, <3>2
  <2> QED BY <2>1, <2>2
<1>5. PICK i \in Made : i = b + 1
  BY <1>2, <1>3 DEF Made
<1>9. i \in Nat /\ i >= first /\ made \cup {i} = first..i /\ i = IF made = {} THEN first ELSE 1 + Deepest
  BY <1>2, <1>3, <1>4, <1>5
<1>10. i \notin made /\ (i # first => i - 1 \in made) /\ (\A j \in made : j < i)
  BY <1>2, <1>3, <1>5
<1>11. made \subseteq Made /\ made \subseteq Nat
  BY <1>1, Chain
<1>6. ~published /\ (\A j \in made : place[j] # Gone) /\ ~Excused /\ ~dirty /\ why # "rolled_back"
  BY <1>1, BeforeCleaning DEF DirsOK, Early
<1>7. CASE Spend("faults") /\ CleanUp("refused") /\ UNCHANGED <<place, walk, armed, fresh>>
  BY <1>1, <1>7, GiveUp
<1>8. ASSUME /\ place' = [place EXCEPT ![i] = IF i = first THEN Staged(i) ELSE At(i - 1, i)]
             /\ made' = made \cup {i} /\ parent' = i
             /\ Goto(IF i = depth THEN "check" ELSE "stage")
             /\ UNCHANGED <<anchor, first, published, cleaning, armed, fresh, budget>>
      PROVE  TreeOK'
  <2>1. pc' \in {"check", "stage"} /\ UNCHANGED <<step, held, dirty, why>>
    BY <1>8 DEF Goto, cleaning
  <2>2. pc' \notin Holding /\ pc' \notin Cleaning /\ pc' # "rolled_back" /\ pc' \in Early
    BY <2>1 DEF Holding, Cleaning, Early
  <2>3. place'[i] = (IF i = first THEN Staged(i) ELSE Slot(i)) /\ \A o \in Obj : o # i => place'[o] = place[o]
    BY <1>1, <1>5, <1>9, <1>10, <1>11, <1>8, Kinds DEF TypeOK, Slot
  <2>4. i \in Obj /\ place[i] = Unborn /\ i \notin User /\ i # Payload
    BY <1>1, <1>5, <1>9, <1>10, <1>11, Kinds DEF DirsOK
  <2>5. \A j : Slot(j)' = Slot(j) /\ Staged(j)' = Staged(j)
    BY <1>8 DEF Slot, Staged
  <2>6. \A o \in User \cup Made : Housed(o)
    BY <1>1, <1>6 DEF HomeOK
  <2>7. ~Alive(i)
    BY <2>4 DEF Alive
  <2>8. \A u \in User : Alive(u) => place[u].in # i
    <3>1. i \notin Homes
      BY <1>5, <1>9, <1>10, <1>11, <2>7, Kinds DEF Homes
    <3>2. \A u \in User : Staged(u).in # i
      BY <1>1, <1>5, <1>9, <1>10, <1>11, Slots, Kinds
    <3> QED BY <2>6, <3>1, <3>2 DEF Housed
  <2>9. DirsOK'
    <3>1. \A j \in Made \ made' : place'[j] = Unborn
      BY <1>1, <1>8, <2>3, Kinds DEF DirsOK
    <3>2. \A j \in made' : place'[j] \in {Gone, Staged(j), Slot(j), At(Elsewhere, j)}
      BY <1>1, <1>5, <1>9, <1>10, <1>11, <1>8, <2>3, Kinds DEF DirsOK
    <3>3. \A j \in made' : place'[j] = Gone \/ place'[j] = IF j = first THEN Staged(j) ELSE Slot(j)
      BY <1>1, <1>5, <1>9, <1>10, <1>11, <1>6, <1>8, <2>3, Kinds DEF DirsOK
    <3>4. \A u \in User : Alive(u)' => place'[u].in \notin made'
      BY <1>1, <1>6, <1>8, <2>3, <2>4, <2>8, Kinds DEF DirsOK, Alive
    <3>5. \A j \in made' : place'[j] # Gone
      <4>1. place'[i] # Gone
        <5>1. Staged(i) \in Rec /\ Staged(i) # Gone
          BY <1>1, <2>4, Slots, RecNotGone
        <5>2. i \in Names /\ (i # first => i - 1 \in Nodes)
          BY <1>5, <1>9, <1>10, <1>11, Kinds
        <5>3. i # first => Slot(i) \in Rec
          BY <5>2, AtType DEF Slot
        <5> QED BY <2>3, <5>1, <5>3, RecNotGone
      <4> QED BY <1>5, <1>9, <1>10, <1>11, <1>6, <1>8, <2>3, <4>1, Kinds
    <3>6. parent' \in made' /\ \A j \in made' : j <= parent'
      BY <1>5, <1>9, <1>10, <1>11, <1>8
    <3>7. anchor' \in User => place'[anchor'] # Unborn
      BY <1>1, <1>8, <2>3, <2>4, Kinds DEF DirsOK
    <3> QED BY <1>6, <1>8, <2>5, <3>1, <3>2, <3>3, <3>4, <3>5, <3>6, <3>7 DEF DirsOK
  <2>10. PayloadOK'
    <3>1. place'[Payload] = At(Box, Leaf)
      BY <1>1, <2>3, <2>4, Kinds DEF PayloadOK
    <3> QED BY <1>6, <2>1, <3>1 DEF PayloadOK
  <2>11. CleanOK'
    BY <2>2, NotCleaning
  <2>12. HomeOK'
    <3>1. NoOrphans
      <4>1. \A o \in Obj : Alive(o) => Alive(o)'
        BY <2>3, <2>7 DEF Alive
      <4> QED BY <4>1 DEF NoOrphans
    <3>2. Housed(i)'
      <4>1. CASE i = first
        BY <1>6, <1>8, <2>3, <4>1 DEF Housed, Staged
      <4>2. CASE i # first
        <5>1. i - 1 \in made /\ i - 1 \in Made /\ i - 1 \in Obj /\ i - 1 # i
          BY <1>5, <1>9, <1>10, <1>11, <4>2, Kinds
        <5>2. Alive(i - 1)
          <6>1. place[i - 1] \in {Staged(i - 1), Slot(i - 1), At(Elsewhere, i - 1)}
            BY <1>1, <1>6, <5>1 DEF DirsOK
          <6> QED BY <1>1, <5>1, <6>1, Slots, RecNotGone DEF Alive
        <5>3. Alive(i - 1)'
          BY <2>3, <5>1, <5>2 DEF Alive
        <5>4. place'[i].in = i - 1
          BY <2>3, <4>2 DEF Slot, At
        <5> QED BY <5>1, <5>3, <5>4 DEF Housed, Homes, Alive
      <4> QED BY <4>1, <4>2
    <3>3. \A x \in User \cup Made : place'[x] # place[x] => Housed(x)'
      BY <2>3, <3>2, Kinds
    <3>4. ASSUME NEW x \in User \cup Made, place'[x] = place[x], Alive(x), place[x] = Staged(x) PROVE Housed(x)'
      <4>1. x \in made
        BY <1>1, <3>4, BeforeCleaning
      <4> QED BY <1>6, <1>8, <3>4, <4>1 DEF Housed, Staged
    <3>5. \A x \in User \cup Made : Housed(x)'
      BY <2>6, <3>1, <3>3, <3>4, AllHoused
    <3>6. PICK r \in [Nodes -> Nat] : Ranked(r)
      BY <1>1, <1>6 DEF HomeOK
    <3> DEFINE d == IF i = first THEN anchor ELSE i - 1
    <3>7. d \in Nodes /\ d # i
      BY <1>1, <1>5, <1>9, <1>10, <1>11, Chain, Kinds
    <3>8. \A j \in made : j # first => j - 1 # i
      BY <1>5, <1>9, <1>10, <1>11
    <3>9. \E q \in [Nodes -> Nat] : Ranked(q)'
      BY <1>1, <1>5, <1>9, <1>10, <1>11, <1>8, <2>2, <2>8, <3>6, <3>7, <3>8, StageRanked
    <3> QED BY <3>5, <3>9 DEF HomeOK
  <2> QED BY <2>9, <2>10, <2>11, <2>12 DEF TreeOK
<1> QED BY <1>7, <1>8, <1>9 DEF Stage

LEMMA CheckTree == ASSUME TInv, CheckDestination PROVE TreeOK'
<1>1. pc = "check" /\ pc \in Steps \ Cleaning /\ UNCHANGED <<place, walk>>
  BY DEF CheckDestination, Still, Steps, Cleaning
<1>2. CASE Goto("move") /\ UNCHANGED cleaning
  BY <1>1, <1>2, GoOn DEF Goto
<1>3. CASE CleanUp("refused")
  BY <1>1, <1>3, GiveUp
<1> QED BY <1>2, <1>3 DEF CheckDestination

LEMMA VerifyTree == ASSUME TInv, Verify PROVE TreeOK'
<1>1. pc = "verify" /\ pc \in Steps \ Cleaning /\ UNCHANGED <<place, walk>>
  BY DEF Verify, Steps, Cleaning
<1>2. CASE Occupant(Target) = {Payload} /\ Goto(IF made = {} THEN "append" ELSE "publish") /\ UNCHANGED cleaning
  <2>1. place[Payload] = Target /\ pc' \in {"append", "publish"}
    BY <1>2 DEF Occupant, Goto
  <2> QED BY <1>1, <1>2, <2>1, GoOn
<1>3. CASE CleanUp("unverified")
  BY <1>1, <1>3, GiveUp
<1> QED BY <1>2, <1>3 DEF Verify

LEMMA AppendTree == ASSUME TInv, AppendRecord \/ Recheck PROVE TreeOK'
<1>1. pc \in Steps \ Cleaning /\ UNCHANGED <<place, walk, cleaning>>
  BY DEF AppendRecord, Recheck, Still, Steps, Cleaning
<1>2. pc' \in {"restored", "recheck", "return", "rollback_failed"}
  BY DEF AppendRecord, Recheck, Goto
<1> QED BY <1>1, <1>2, GoOn

\* A rename of the model either moves, or looks, or fails; what follows it is
\* in the lemmas of its callers.
LEMMA MoveTree == ASSUME TInv, MovePayload PROVE TreeOK'
<1>1. TypeOK /\ DirsOK /\ PayloadOK /\ HomeOK /\ pc = "move" /\ pc \in Steps \ Cleaning
  BY DEF TInv, IInv, TreeOK, MovePayload, Steps, Cleaning
<1>2. CASE Moves(Payload, Target) /\ Goto("verify") /\ UNCHANGED <<walk, cleaning>>
  <2>1. pc' = "verify" /\ UNCHANGED <<parent, anchor, first, made, published, step, held, dirty, why>>
    BY <1>2 DEF Goto, walk, cleaning
  <2>2. Payload \in Obj /\ Target \in Rec /\ place[Payload] # Target
    BY <1>1, Kinds, Slots DEF PayloadOK
  <2>3. /\ place'[Payload] = Target /\ NoOrphans
        /\ \A x \in Obj : x # Payload => place'[x] = place[x] \/ (place'[x] = Gone /\ x \in Occupant(Target))
    BY <1>1, <1>2, <2>2, Landing
  <2>4. \A x \in Made : place'[x] = place[x]
    BY <1>1, <2>3, Named, Kinds
  <2>5. \A x \in User : place'[x] = place[x] \/ (place'[x] = Gone /\ place[x] # Unborn)
    BY <2>2, <2>3, Kinds, RecNotGone DEF Occupant
  <2>6. ~published /\ ~Excused /\ ~dirty /\ why # "rolled_back" /\ (\A i \in made : place[i] # Gone)
    BY <1>1, BeforeCleaning DEF DirsOK, Early
  <2>7. made \subseteq Made /\ (\A i : Slot(i)' = Slot(i) /\ Staged(i)' = Staged(i)) /\ Target' = Target
    BY <1>1, <2>1, Chain DEF Slot, Staged, Target
  <2>8. DirsOK'
    <3>1. \A u \in User : Alive(u)' => place'[u].in \notin made
      BY <1>1, <2>5, <2>6 DEF DirsOK, Alive
    <3>2. anchor \in User => place'[anchor] # Unborn
      BY <1>1, <2>5, RestoreConstants DEF DirsOK
    <3> QED BY <1>1, <2>1, <2>4, <2>6, <2>7, <3>1, <3>2 DEF DirsOK
  <2>9. PayloadOK'
    BY <2>1, <2>3, <2>6, <2>7 DEF PayloadOK
  <2>10. CleanOK'
    BY <2>1, NotCleaning DEF Cleaning
  <2>11. HomeOK'
    <3>1. \A x \in User \cup Made : place'[x] # place[x] => place'[x] = Gone /\ Housed(x)'
      BY <2>4, <2>5 DEF Housed, Alive
    <3>2. ASSUME NEW x \in User \cup Made, place'[x] = place[x], Alive(x), place[x] = Staged(x) PROVE Housed(x)'
      BY <1>1, <2>1, <3>2, BeforeCleaning DEF Housed, Staged
    <3>3. pc' \notin Holding
      BY <2>1 DEF Holding
    <3> QED BY <2>1, <2>3, <2>6, <3>1, <3>2, <3>3, HomeOn
  <2> QED BY <2>8, <2>9, <2>10, <2>11 DEF TreeOK
<1>3. CASE UNCHANGED <<place, pc, walk, cleaning>>
  BY <1>3, TreeStutter DEF TInv
<1>4. CASE CleanUp("refused") /\ UNCHANGED <<place, walk>>
  BY <1>1, <1>4, GiveUp
<1> QED BY <1>2, <1>3, <1>4 DEF MovePayload, Rename, Moves

\* The chain becomes visible in one step, with the payload in it.
LEMMA PublishTree == ASSUME TInv, Publish PROVE TreeOK'
<1>1. TypeOK /\ DirsOK /\ PayloadOK /\ HomeOK /\ pc = "publish" /\ pc \in Steps \ Cleaning
  BY DEF TInv, IInv, TreeOK, Publish, Steps, Cleaning
<1>2. made # {} /\ first \in made /\ first \in Made /\ first \in Obj /\ made \subseteq Made
  BY <1>1, Chain, Kinds DEF TInv, IInv, PathOK
<1>3. CASE /\ Moves(first, Slot(first)) /\ Goto("append") /\ published' = TRUE
           /\ UNCHANGED <<parent, anchor, first, made, cleaning>>
  <2>1. pc' = "append" /\ UNCHANGED <<parent, anchor, first, made, step, held, dirty, why>> /\ published'
    BY <1>3 DEF Goto, cleaning
  <2>2. ~published /\ ~Excused /\ ~dirty /\ why # "rolled_back" /\ (\A i \in made : place[i] # Gone)
    BY <1>1, BeforeCleaning DEF DirsOK, Early
  <2>3. Slot(first) \in Rec /\ place[first] = Staged(first) /\ place[first] # Slot(first) /\ Slot(first).in = anchor
    BY <1>1, <1>2, <2>2, Slots DEF DirsOK
  <2>4. /\ place'[first] = Slot(first) /\ NoOrphans
        /\ \A x \in Obj : x # first => place'[x] = place[x] \/ (place'[x] = Gone /\ x \in Occupant(Slot(first)))
    BY <1>1, <1>2, <1>3, <2>3, Landing
  <2>5. Occupant(Slot(first)) \subseteq User
    BY <1>1, <1>2, <2>3, Named DEF Occupant
  <2>6. \A x \in Made : x # first => place'[x] = place[x]
    BY <2>4, <2>5, Kinds
  <2>7. \A x \in User : place'[x] = place[x] \/ (place'[x] = Gone /\ place[x] # Unborn)
    BY <1>2, <2>3, <2>4, Kinds, RecNotGone DEF Occupant
  <2>8. (\A i : Slot(i)' = Slot(i) /\ Staged(i)' = Staged(i)) /\ Target' = Target
    BY <2>1 DEF Slot, Staged, Target
  <2>9. place'[Payload] = place[Payload]
    BY <1>2, <2>4, <2>5, Kinds
  <2>10. DirsOK'
    <3>1. anchor \in User => place'[anchor] # Unborn
      BY <1>1, <2>7, RestoreConstants DEF DirsOK
    <3>2. \A i \in Made \ made : place'[i] = Unborn
      BY <1>1, <1>2, <2>6 DEF DirsOK
    <3>3. \A i \in made : place'[i] \in {Gone, Staged(i), Slot(i), At(Elsewhere, i)}
      BY <1>1, <1>2, <2>4, <2>6 DEF DirsOK
    <3> QED BY <1>1, <2>1, <2>8, <3>1, <3>2, <3>3 DEF DirsOK, Early
  <2>11. PayloadOK'
    BY <1>1, <2>1, <2>2, <2>8, <2>9 DEF PayloadOK
  <2>12. CleanOK'
    BY <2>1, NotCleaning DEF Cleaning
  <2>13. HomeOK'
    <3>1. \A x \in User \cup Made : Housed(x)
      BY <1>1, <2>2 DEF HomeOK
    <3>2. anchor \in Homes'
      BY <1>1, <1>2, <1>3, <2>3, <2>5, <3>1, LandsAtHome DEF TypeOK
    <3>3. \A x \in Made : x = first => Housed(x)'
      BY <2>3, <2>4, <3>2 DEF Housed
    <3>4. \A x \in User \cup Made : place'[x] # place[x] => Housed(x)'
      BY <2>6, <2>7, <3>3 DEF Housed, Alive
    <3>5. \A x \in User \cup Made : place'[x] = place[x] /\ Alive(x) /\ place[x] = Staged(x) => FALSE
      <4> SUFFICES ASSUME NEW x \in User \cup Made, place'[x] = place[x], Alive(x), place[x] = Staged(x) PROVE FALSE
        OBVIOUS
      <4>1. x \in made
        BY <1>1, BeforeCleaning
      <4>2. x # first
        BY <2>3, <2>4
      <4>4. x \in Obj /\ Staged(x).in = Staging
        BY <1>1, <4>1, Chain, Kinds, Slots
      <4>3. place[x] = Slot(x) /\ x \in Obj
        BY <1>1, <2>2, <4>1, <4>2, Chain, Kinds DEF DirsOK
      <4>5. Slot(x).in # Staging
        BY <1>1, <4>1, Slots
      <4> QED BY <4>3, <4>4, <4>5
    <3>6. \A u \in User : place'[u] # place[u] => place'[u] \in {Gone, Staged(u)}
      BY <2>7
    <3>7. pc' \notin Holding
      BY <2>1 DEF Holding
    <3> QED BY <2>1, <2>2, <2>4, <3>4, <3>5, <3>6, <3>7, HomeOn
  <2> QED BY <2>10, <2>11, <2>12, <2>13 DEF TreeOK
<1>4. CASE UNCHANGED <<place, pc, walk, cleaning>>
  BY <1>4, TreeStutter DEF TInv
<1>5. CASE Goto("recheck") /\ UNCHANGED <<place, walk, cleaning>>
  BY <1>1, <1>5, GoOn DEF Goto
<1> QED BY <1>3, <1>4, <1>5 DEF Publish, Rename, Moves

LEMMA ReturnTree == ASSUME TInv, Return PROVE TreeOK'
<1>1. TypeOK /\ DirsOK /\ PayloadOK /\ HomeOK /\ pc = "return" /\ pc \in Steps \ Cleaning /\ UNCHANGED walk
  BY DEF TInv, IInv, TreeOK, Return, Steps, Cleaning
<1>2. UNCHANGED <<parent, anchor, first, made, published>> /\ Target' = Target
      /\ \A i : Slot(i)' = Slot(i) /\ Staged(i)' = Staged(i)
  BY <1>1 DEF walk, Target, Slot, Staged
<1>3. CASE Goto("rollback_failed") /\ UNCHANGED <<place, cleaning>>
  BY <1>1, <1>3, GoOn DEF Goto
<1>4. ASSUME NEW o \in Occupant(Target), place' = [place EXCEPT ![o] = At(Box, Leaf)],
             IF o = Payload THEN CleanUp("rolled_back") ELSE Goto("rollback_failed") /\ UNCHANGED cleaning
      PROVE  TreeOK'
  <2>1. o \in Obj /\ o \in User \cup {Payload} /\ place[o] = Target
    BY <1>1, Named DEF Occupant
  <2>2. place'[o] = At(Box, Leaf) /\ \A x \in Obj : x # o => place'[x] = place[x]
    BY <1>1, <1>4, <2>1 DEF TypeOK
  <2>3. At(Box, Leaf) # Gone /\ At(Box, Leaf) # Unborn /\ At(Box, Leaf).in = Box
    BY <1>1, Slots, RecNotGone
  <2>4. made \subseteq Made /\ \A i \in Made : place'[i] = place[i]
    BY <1>1, <2>1, <2>2, Chain, Kinds
  <2>5. pc' \notin Early => DirsOK'
    <3>1. \A u \in User : Alive(u)' => (Alive(u) /\ place'[u].in = place[u].in) \/ place'[u].in = Box
      BY <2>2, <2>3, Kinds DEF Alive
    <3>2. Box \notin made
      BY <2>4, Kinds
    <3>3. anchor \in User => place'[anchor] # Unborn
      BY <1>1, <2>2, <2>3, Kinds DEF DirsOK
    <3>4. ~published => \A u \in User : Alive(u)' => place'[u].in \notin made
      BY <1>1, <3>1, <3>2 DEF DirsOK
    <3> QED BY <1>1, <1>2, <2>4, <3>3, <3>4 DEF DirsOK
  <2>6. CASE o = Payload
    <3>1. CleanUp("rolled_back")
      BY <1>4, <2>6
    <3>2. /\ pc' \in {"rolled_back", "remove"} /\ held' = {} /\ dirty' = FALSE /\ why' = "rolled_back"
          /\ pc' \notin Holding /\ pc' \notin Early /\ pc' \in Cleaning \cup Ended
          /\ CleanOK'
      BY <1>1, <3>1, CleanUpStarts
    <3>3. PayloadOK'
      BY <2>2, <2>6, <3>2 DEF PayloadOK
    <3>4. HomeOK'
      <4>1. ~Excused
        BY <1>1, BeforeCleaning
      <4>2. NoOrphans
        BY <2>2, <2>3 DEF NoOrphans, Alive
      <4>3. \A x \in User \cup Made : place'[x] = place[x]
        BY <2>2, <2>6, Kinds
      <4>4. \A x \in User \cup Made : Alive(x) /\ place[x] = Staged(x) => Housed(x)'
        <5> SUFFICES ASSUME NEW x \in User \cup Made, Alive(x), place[x] = Staged(x) PROVE Housed(x)'
          OBVIOUS
        <5>1. x \in made /\ ~published
          BY <1>1, BeforeCleaning
        <5> QED BY <1>2, <4>3, <5>1 DEF Housed
      <4> QED BY <1>2, <3>2, <4>1, <4>2, <4>3, <4>4, HomeOn
    <3> QED BY <2>5, <3>2, <3>3, <3>4 DEF TreeOK
  <2>7. CASE o # Payload
    <3>1. pc' = "rollback_failed" /\ UNCHANGED <<dirty, why>>
      BY <1>4, <2>7 DEF Goto, cleaning
    <3>2. ~dirty /\ why # "rolled_back"
      BY <1>1, BeforeCleaning
    <3>3. PayloadOK'
      BY <1>1, <1>2, <2>2, <2>7, <3>1, <3>2, Kinds DEF PayloadOK
    <3> QED BY <2>5, <3>1, <3>3, NotCleaning DEF TreeOK, HomeOK, Excused, Early, Cleaning
  <2> QED BY <2>6, <2>7
<1> QED BY <1>3, <1>4 DEF Return

LEMMA KillTree == ASSUME TInv, Kill PROVE TreeOK'
<1>1. DirsOK /\ PayloadOK /\ pc' = "killed" /\ UNCHANGED <<walk, cleaning, place>>
  BY DEF TInv, TreeOK, Kill, Goto
<1>2. DirsOK'
  BY <1>1, DirsStill DEF Early
<1>3. PayloadOK'
  BY <1>1 DEF PayloadOK, Target, walk, cleaning, Ended
<1> QED BY <1>1, <1>2, <1>3, NotCleaning DEF TreeOK, HomeOK, Excused, Cleaning

-----------------------------------------------------------------------------
(* The cleanup *)

\* To the next component, or to the end.
LEMMA NextOne ==
  ASSUME TypeOK, pc \in Cleaning, UNCHANGED walk, NEW b \in BOOLEAN, NextParent(b)
  PROVE  /\ held' = {} /\ (dirty' <=> dirty \/ b) /\ why' = why
         /\ pc' \notin Holding /\ pc' \notin Early /\ pc' \in Cleaning \cup Ended
         /\ pc' = "rolled_back" => why = "rolled_back" /\ ~dirty'
         /\ dirty' => pc' \in Cleaning \cup {"unclean"}
         /\ \A i \in Made : Done(i)' => i = step \/ Done(i)
         /\ ~Excused' => ~b /\ ~Excused
<1>1. held' = {} /\ (dirty' <=> dirty \/ b) /\ why' = why
  BY DEF NextParent, TypeOK
<1>2. step \in made /\ step \in Nat /\ first \in Nat /\ made \subseteq Nat /\ (\A i \in made : i >= first) /\ made' = made
  BY Chain DEF TypeOK, Cleaning, walk
<1>3. why \in Ended /\ pc \notin Ended
  BY DEF TypeOK, Cleaning, Ended
<1>4. CASE step = first
  <2>1. pc' = IF dirty \/ b THEN "unclean" ELSE why
    BY <1>4 DEF NextParent, Goto
  <2>2. pc' \in Ended
    BY <1>3, <2>1 DEF Ended
  <2>3. pc' \notin Holding /\ pc' \notin Early
    BY <2>2 DEF Ended, Holding, Early
  <2>4. \A i \in Made : Done(i)' => i = step \/ Done(i)
    BY <1>2, <1>4 DEF Done
  <2> QED BY <1>1, <1>3, <2>1, <2>2, <2>3, <2>4 DEF Excused, Ended, Cleaning
<1>5. CASE step # first
  <2>1. pc' = "remove" /\ step' = step - 1
    BY <1>5 DEF NextParent, Goto
  <2>2. \A i \in Made : Done(i)' => i = step \/ Done(i)
    <3> SUFFICES ASSUME NEW i \in Made, i \in made, i > step - 1 PROVE i = step \/ Done(i)
      BY <1>2, <2>1 DEF Done
    <3>1. i \in Nat
      BY <1>2
    <3>2. i = step \/ i > step
      BY <1>2, <3>1
    <3> QED BY <3>2 DEF Done
  <2> QED BY <1>1, <2>1, <2>2 DEF Excused, Ended, Cleaning, Holding, Early
<1> QED BY <1>4, <1>5

\* What a step to the next component keeps of the payload's whereabouts.
LEMMA NextPayload ==
  ASSUME TInv, pc \in Cleaning, UNCHANGED walk, NEW b \in BOOLEAN, NextParent(b), place'[Payload] = place[Payload]
  PROVE  PayloadOK'
<1>1. TypeOK /\ PayloadOK
  BY DEF TInv, IInv, TreeOK
<1>2. /\ (dirty' <=> dirty \/ b) /\ why' = why /\ pc' \notin Early /\ pc' \in Cleaning \cup Ended
      /\ pc' = "rolled_back" => why = "rolled_back" /\ ~dirty'
      /\ dirty' => pc' \in Cleaning \cup {"unclean"}
  BY <1>1, NextOne
<1>3. Target' = Target
  BY DEF Target, walk
<1> QED BY <1>1, <1>2, <1>3 DEF PayloadOK, Early

\* A problem is remembered to the end.
LEMMA Reported ==
  ASSUME TInv, pc \in Cleaning, UNCHANGED walk, UNCHANGED place, NextParent(TRUE)
  PROVE  TreeOK'
<1>1. TypeOK /\ DirsOK
  BY DEF TInv, IInv, TreeOK
<1>2. dirty' /\ pc' \notin Holding /\ pc' \notin Early
  BY <1>1, NextOne
<1>3. DirsOK'
  BY <1>1, <1>2, DirsStill
<1>4. PayloadOK'
  BY NextPayload
<1>5. CleanOK'
  BY <1>2 DEF CleanOK, Holding
<1>6. HomeOK'
  BY <1>2 DEF HomeOK, Excused
<1> QED BY <1>3, <1>4, <1>5, <1>6 DEF TreeOK

LEMMA DiscardTree == ASSUME TInv, Discard PROVE TreeOK'
<1>1. TypeOK /\ DirsOK /\ PayloadOK /\ CleanOK /\ HomeOK /\ pc = "remove" /\ pc \in Cleaning /\ pc \notin Holding
      /\ ~published /\ UNCHANGED walk
  BY DEF TInv, IInv, TreeOK, Discard, Cleaning, Holding
<1>2. UNCHANGED <<parent, anchor, first, made, published>>
      /\ \A i : Slot(i)' = Slot(i) /\ Staged(i)' = Staged(i)
  BY <1>1 DEF walk, Slot, Staged
<1>3. step \in made /\ step \in Made /\ step \in Obj /\ made \subseteq Made /\ made \subseteq Nat /\ step \in Nat
  BY <1>1, Chain, Kinds DEF TypeOK
<1>4. CASE NextParent(TRUE) /\ UNCHANGED place
  BY <1>1, <1>4, Reported
<1>5. CASE /\ place' = [place EXCEPT ![step] = IF Children(step) = {} THEN Gone ELSE @]
           /\ NextParent(FALSE)
  <2>1. /\ (dirty' <=> dirty) /\ why' = why /\ pc' \notin Holding /\ pc' \notin Early
        /\ \A i \in Made : Done(i)' => i = step \/ Done(i)
        /\ ~Excused' => ~Excused
    BY <1>1, <1>5, NextOne
  <2>2. /\ \A x \in Obj : x # step => place'[x] = place[x]
        /\ place'[step] = place[step] \/ (place'[step] = Gone /\ Children(step) = {})
        /\ Children(step) = {} => place'[step] = Gone
    BY <1>1, <1>3, <1>5 DEF TypeOK
  <2>3. \A x \in User \cup {Payload} : place'[x] = place[x]
    BY <1>3, <2>2, Kinds
  <2>4. DirsOK'
    <3>1. \A i \in Made \ made : place'[i] = Unborn
      BY <1>1, <1>3, <2>2, Kinds DEF DirsOK
    <3>2. \A i \in made : place'[i] \in {Gone, Staged(i), Slot(i), At(Elsewhere, i)}
      BY <1>1, <1>3, <2>2, Kinds DEF DirsOK
    <3>3. \A i \in made : place'[i] = Gone \/ place'[i] = IF i = first THEN Staged(i) ELSE Slot(i)
      BY <1>1, <1>3, <2>2, Kinds DEF DirsOK
    <3>4. \A u \in User : Alive(u)' => place'[u].in \notin made
      BY <1>1, <2>3 DEF DirsOK, Alive
    <3> QED BY <1>1, <1>2, <2>1, <2>3, <3>1, <3>2, <3>3, <3>4 DEF DirsOK
  <2>5. PayloadOK'
    BY <1>1, <1>5, <2>3, NextPayload
  <2>6. CleanOK'
    <3>1. ASSUME why = "rolled_back", ~dirty PROVE Children(step) = {}
      <4> SUFFICES ASSUME NEW c \in Children(step) PROVE FALSE
        OBVIOUS
      <4>1. c \in Obj /\ Alive(c) /\ place[c].in = step
        BY DEF Children, Alive
      <4>2. c # Payload
        BY <1>1, <1>3, <3>1, <4>1, Slots, Kinds DEF PayloadOK
      <4>3. c \notin User
        BY <1>1, <1>3, <4>1 DEF DirsOK
      <4>4. c \in made
        BY <1>1, <4>1, <4>2, <4>3 DEF Obj, DirsOK, Alive
      <4>5. place[c] = IF c = first THEN Staged(c) ELSE Slot(c)
        BY <1>1, <4>1, <4>4 DEF DirsOK, Alive
      <4>6. c # first
        BY <1>1, <1>3, <4>1, <4>5, Slots, Kinds
      <4>7. c - 1 = step
        BY <1>1, <4>1, <4>4, <4>5, <4>6, Slots
      <4>8. c \in Nat /\ c \in Made /\ c > step
        BY <1>3, <4>4, <4>7
      <4>9. Clean(c)
        BY <1>1, <3>1, <4>4, <4>8 DEF CleanOK, Done
      <4> QED BY <1>1, <4>1, <4>9 DEF Clean, Lost, Alive
    <3>2. ASSUME why = "rolled_back", ~dirty, NEW i \in Made, Done(i)' PROVE place'[i] = Gone
      <4>1. CASE i = step
        BY <2>2, <3>1, <3>2, <4>1
      <4>2. CASE i # step
        <5>1. Clean(i) /\ i \in Obj
          BY <1>1, <2>1, <3>2, <4>2, Kinds DEF CleanOK
        <5> QED BY <1>1, <2>2, <4>2, <5>1 DEF Clean, Lost
      <4> QED BY <4>1, <4>2
    <3> QED BY <2>1, <3>2 DEF CleanOK, Clean, Lost, Holding
  <2>7. HomeOK'
    <3>1. NoOrphans
      BY <2>2 DEF NoOrphans, Alive
    <3>2. \A x \in User \cup Made : place'[x] # place[x] => place'[x] = Gone /\ Housed(x)'
      BY <2>2, Kinds DEF Housed, Alive
    <3>3. ASSUME ~Excused', NEW x \in User \cup Made, place'[x] = place[x], Alive(x), place[x] = Staged(x)
          PROVE  Housed(x)'
      <4>1. x \in made
        BY <1>1, <2>1, <3>3, InStaging
      <4> QED BY <1>1, <1>2, <3>3, <4>1 DEF Housed
    <3>4. \A u \in User : place'[u] = place[u]
      BY <2>3
    <3> QED BY <1>2, <2>1, <3>1, <3>2, <3>3, <3>4, HomeOn
  <2> QED BY <2>4, <2>5, <2>6, <2>7 DEF TreeOK
<1> QED BY <1>4, <1>5 DEF Discard

LEMMA ReclaimTree == ASSUME TInv, Reclaim PROVE TreeOK'
<1>1. TypeOK /\ DirsOK /\ PayloadOK /\ CleanOK /\ HomeOK /\ pc = "remove" /\ pc \in Cleaning /\ pc \notin Holding
      /\ published /\ UNCHANGED walk
  BY DEF TInv, IInv, TreeOK, Reclaim, Cleaning, Holding
<1>2. UNCHANGED <<parent, anchor, first, made, published>> /\ Target' = Target
      /\ \A i : Slot(i)' = Slot(i) /\ Staged(i)' = Staged(i)
  BY <1>1 DEF walk, Slot, Staged, Target
<1>3. step \in made /\ step \in Made /\ step \in Obj /\ made \subseteq Made /\ made \subseteq Nat /\ step \in Nat
  BY <1>1, Chain, Kinds DEF TypeOK
<1>4. CASE NextParent(TRUE) /\ UNCHANGED place
  BY <1>1, <1>4, Reported
<1>5. ASSUME NEW o \in Occupant(Slot(step)), place' = [place EXCEPT ![o] = Staged(o)],
             held' = {o}, Goto("inspect"), UNCHANGED <<step, dirty, why>>
      PROVE  TreeOK'
  <2>1. pc' = "inspect" /\ pc' \in Holding /\ pc' \in Cleaning
    BY <1>5 DEF Goto, Holding, Cleaning
  <2>2. o \in Obj /\ o \in User \cup {step} /\ place[o] = Slot(step)
    BY <1>1, <1>3, <1>5, Named DEF Occupant
  <2>3. place'[o] = Staged(o) /\ \A x \in Obj : x # o => place'[x] = place[x]
    BY <1>1, <1>5, <2>2 DEF TypeOK
  <2>4. Staged(o) \in Rec /\ Staged(o) # Gone /\ Staged(o) # Unborn
    BY <1>1, <2>2, Slots, RecNotGone
  <2>5. place'[Payload] = place[Payload] /\ \A i \in Made : i # step => place'[i] = place[i]
    BY <1>3, <2>2, <2>3, Kinds
  <2>6. place'[step] \in {place[step], Staged(step)} /\ \A u \in User : place'[u] \in {place[u], Staged(u)}
    BY <1>3, <2>3, Kinds
  <2>7. DirsOK'
    <3>1. \A i \in Made \ made : place'[i] = Unborn
      BY <1>1, <1>3, <2>5 DEF DirsOK
    <3>2. \A i \in made : place'[i] \in {Gone, Staged(i), Slot(i), At(Elsewhere, i)}
      BY <1>1, <1>3, <2>5, <2>6 DEF DirsOK
    <3>3. anchor \in User => place'[anchor] # Unborn
      BY <1>1, <2>3, <2>4, Kinds DEF DirsOK
    <3> QED BY <1>1, <1>2, <2>1, <3>1, <3>2, <3>3 DEF DirsOK, Early
  <2>8. PayloadOK'
    BY <1>1, <1>2, <1>5, <2>1, <2>5 DEF PayloadOK
  <2>9. CleanOK'
    <3>1. \E x \in User \cup {step} : held' = {x} /\ place'[x] = Staged(x)
      BY <1>5, <2>2, <2>3
    <3>2. Born => Born'
      BY <2>3, <2>4, Kinds DEF Born
    <3>3. ASSUME why = "rolled_back", ~dirty, NEW i \in Made, Done(i)' PROVE Clean(i)'
      <4>1. i \in made /\ i > step
        BY <1>2, <1>5, <2>1, <3>3 DEF Done
      <4>2. Clean(i) /\ i # step
        BY <1>1, <1>3, <3>3, <4>1 DEF CleanOK, Done
      <4> QED BY <1>2, <2>5, <3>2, <4>2 DEF Clean, Lost
    <3> QED BY <1>1, <1>2, <1>5, <2>1, <3>1, <3>3 DEF CleanOK
  <2>10. HomeOK'
    <3>1. NoOrphans
      BY <2>3, <2>4 DEF NoOrphans, Alive
    <3>2. Excused' <=> Excused
      BY <1>1, <1>5, <2>1 DEF Excused
    <3>3. ASSUME NEW x \in User \cup Made, place'[x] # place[x] PROVE Housed(x)' /\ x = o
      <4>1. x = o
        BY <2>3, <3>3, Kinds
      <4> QED BY <1>5, <2>1, <2>3, <4>1 DEF Housed, Staged
    <3>4. ASSUME ~Excused, NEW x \in User \cup Made, Alive(x), place[x] = Staged(x) PROVE FALSE
      BY <1>1, <3>4, InStaging
    <3>5. \A u \in User : place'[u] # place[u] => place'[u] \in {Gone, Staged(u)}
      BY <2>6
    <3>6. step' = step /\ step \in made /\ \A x \in held' : x \in User \cup {step} /\ place[x] = Slot(step)
      BY <1>3, <1>5, <2>2
    <3> QED BY <1>2, <3>1, <3>2, <3>3, <3>4, <3>5, <3>6, HomeOn
  <2> QED BY <2>7, <2>8, <2>9, <2>10 DEF TreeOK
<1> QED BY <1>4, <1>5 DEF Reclaim

\* What the cleanup holds.
LEMMA TheHeld ==
  ASSUME TInv, pc \in Holding, NEW o \in held
  PROVE  /\ held = {o} /\ o \in Obj /\ o \in User \cup {step} /\ place[o] = Staged(o) /\ published
         /\ step \in made /\ step \in Made /\ step \in Obj /\ made \subseteq Made /\ made \subseteq Nat /\ step \in Nat
         /\ pc \in Cleaning /\ o # Payload
<1>1. TypeOK /\ CleanOK
  BY DEF TInv, IInv, TreeOK
<1>2. step \in made /\ step \in Made /\ step \in Obj /\ made \subseteq Made /\ made \subseteq Nat /\ step \in Nat
  BY <1>1, Chain, Kinds DEF TypeOK, Holding
<1>3. held = {o} /\ o \in User \cup {step} /\ place[o] = Staged(o) /\ published
  BY <1>1 DEF CleanOK
<1> QED BY <1>2, <1>3, Kinds DEF Holding, Cleaning

LEMMA InspectTree == ASSUME TInv, Inspect PROVE TreeOK'
<1>1. TypeOK /\ DirsOK /\ PayloadOK /\ CleanOK /\ HomeOK /\ pc = "inspect" /\ pc \in Cleaning /\ pc \in Holding
      /\ UNCHANGED walk
  BY DEF TInv, IInv, TreeOK, Inspect, Cleaning, Holding
<1>2. UNCHANGED <<parent, anchor, first, made, published>> /\ Target' = Target
      /\ \A i : Slot(i)' = Slot(i) /\ Staged(i)' = Staged(i)
  BY <1>1 DEF walk, Slot, Staged, Target
<1>3. CASE NextParent(TRUE) /\ UNCHANGED place
  BY <1>1, <1>3, Reported
<1>4. ASSUME NEW o \in held, o = step, Children(o) = {}, place' = [place EXCEPT ![o] = Gone], NextParent(FALSE)
      PROVE  TreeOK'
  <2>1. held = {o} /\ published /\ step \in made /\ step \in Made /\ step \in Obj /\ made \subseteq Made
    BY <1>1, TheHeld
  <2>2. /\ (dirty' <=> dirty) /\ why' = why /\ pc' \notin Holding /\ pc' \notin Early
        /\ \A i \in Made : Done(i)' => i = step \/ Done(i)
        /\ ~Excused' => ~Excused
    BY <1>1, <1>4, NextOne
  <2>3. place'[step] = Gone /\ \A x \in Obj : x # step => place'[x] = place[x]
    BY <1>1, <1>4, <2>1 DEF TypeOK
  <2>4. \A x \in User \cup {Payload} : place'[x] = place[x]
    BY <2>1, <2>3, Kinds
  <2>5. DirsOK'
    <3>1. \A i \in Made \ made : place'[i] = Unborn
      BY <1>1, <2>1, <2>3, Kinds DEF DirsOK
    <3>2. \A i \in made : place'[i] \in {Gone, Staged(i), Slot(i), At(Elsewhere, i)}
      BY <1>1, <2>1, <2>3, Kinds DEF DirsOK
    <3> QED BY <1>1, <1>2, <2>1, <2>2, <2>4, <3>1, <3>2 DEF DirsOK
  <2>6. PayloadOK'
    BY <1>1, <1>4, <2>4, NextPayload
  <2>7. CleanOK'
    <3>1. Born => Born'
      BY <2>4 DEF Born
    <3>2. ASSUME why = "rolled_back", ~dirty, NEW i \in Made, Done(i)' PROVE Clean(i)'
      <4>1. CASE i = step
        BY <2>3, <4>1 DEF Clean, Lost
      <4>2. CASE i # step
        <5>1. Clean(i) /\ i \in Obj
          BY <1>1, <2>2, <3>2, <4>2, Kinds DEF CleanOK
        <5> QED BY <1>2, <2>3, <3>1, <4>2, <5>1 DEF Clean, Lost
      <4> QED BY <4>1, <4>2
    <3> QED BY <2>2, <3>2 DEF CleanOK, Holding
  <2>8. HomeOK'
    <3>1. NoOrphans
      BY <1>4, <2>3 DEF NoOrphans, Alive
    <3>2. \A x \in User \cup Made : place'[x] # place[x] => place'[x] = Gone /\ Housed(x)'
      BY <2>3, Kinds DEF Housed, Alive
    <3>3. ASSUME ~Excused', NEW x \in User \cup Made, place'[x] = place[x], Alive(x), place[x] = Staged(x)
          PROVE  FALSE
      <4>1. x = step
        BY <1>4, <2>1, <2>2, <3>3, InStaging
      <4> QED BY <2>3, <3>3, <4>1 DEF Alive
    <3>4. \A u \in User : place'[u] = place[u]
      BY <2>4
    <3> QED BY <1>2, <2>2, <3>1, <3>2, <3>3, <3>4, HomeOn
  <2> QED BY <2>5, <2>6, <2>7, <2>8 DEF TreeOK
<1>5. ASSUME NEW o \in held, o # step \/ Children(o) # {}, Goto("putback"), UNCHANGED <<place, cleaning>>
      PROVE  TreeOK'
  <2>1. held = {o} /\ place[o] = Staged(o) /\ o \in User \cup {step} /\ published
    BY <1>1, TheHeld
  <2>2. pc' = "putback" /\ pc' \in Holding /\ pc' \in Cleaning /\ pc' \notin Early
        /\ UNCHANGED <<step, held, dirty, why>>
    BY <1>5 DEF Goto, Holding, Cleaning, Early, cleaning
  <2>3. DirsOK'
    BY <1>1, <1>5, <2>2, DirsStill
  <2>4. PayloadOK'
    BY <1>1, <1>2, <1>5, <2>2 DEF PayloadOK
  <2>5. CleanOK'
    <3>1. step \in held => Children(step)' # {}
      BY <1>5, <2>1, <2>2 DEF Children
    <3>2. \A i \in Made : Done(i)' = Done(i) /\ Clean(i)' = Clean(i)
      BY <1>1, <1>2, <1>5, <2>2 DEF Done, Clean, Lost, Born
    <3> QED BY <1>1, <1>2, <1>5, <2>1, <2>2, <3>1, <3>2 DEF CleanOK
  <2>6. HomeOK'
    <3>1. NoOrphans
      BY <1>5 DEF NoOrphans, Alive
    <3>2. Excused' => Excused
      BY <2>2 DEF Excused
    <3>3. Excused <=> dirty
      BY <1>1 DEF Excused
    <3>4. ASSUME ~Excused', NEW x \in User \cup Made, Alive(x), place[x] = Staged(x) PROVE Housed(x)'
      <4>1. x \in held
        BY <2>1, <2>2, <3>3, <3>4, InStaging DEF Excused
      <4> QED BY <1>2, <1>5, <2>2, <3>4, <4>1 DEF Housed
    <3>5. ~Excused' => ~Excused
      BY <2>2, <3>3 DEF Excused
    <3> QED BY <1>1, <1>2, <1>5, <2>2, <3>1, <3>4, <3>5, HomeOn
  <2> QED BY <2>3, <2>4, <2>5, <2>6 DEF TreeOK
<1> QED BY <1>3, <1>4, <1>5 DEF Inspect

LEMMA PutBackTree == ASSUME TInv, PutBack PROVE TreeOK'
<1>1. TypeOK /\ DirsOK /\ PayloadOK /\ CleanOK /\ HomeOK /\ pc = "putback" /\ pc \in Cleaning /\ pc \in Holding
  BY DEF TInv, IInv, TreeOK, PutBack, Cleaning, Holding
<1>2. PICK o \in held : Rename(o, Slot(step), NextParent(o # step) /\ UNCHANGED walk,
                                              NextParent(TRUE) /\ UNCHANGED walk)
  BY DEF PutBack
<1>3. /\ held = {o} /\ o \in Obj /\ o \in User \cup {step} /\ place[o] = Staged(o) /\ published
      /\ step \in made /\ step \in Made /\ step \in Obj /\ made \subseteq Made /\ made \subseteq Nat /\ step \in Nat
      /\ o # Payload
  BY <1>1, TheHeld
<1>4. CASE UNCHANGED <<place, pc, walk, cleaning>>
  BY <1>4, TreeStutter DEF TInv
<1>5. CASE UNCHANGED place /\ NextParent(TRUE) /\ UNCHANGED walk
  BY <1>1, <1>5, Reported
<1>6. CASE Moves(o, Slot(step)) /\ NextParent(o # step) /\ UNCHANGED walk
  <2>1. UNCHANGED <<parent, anchor, first, made, published>> /\ Target' = Target
        /\ \A i : Slot(i)' = Slot(i) /\ Staged(i)' = Staged(i)
    BY <1>6 DEF walk, Slot, Staged, Target
  <2>2. /\ (dirty' <=> dirty \/ o # step) /\ why' = why /\ pc' \notin Holding /\ pc' \notin Early
        /\ \A i \in Made : Done(i)' => i = step \/ Done(i)
        /\ ~Excused' => o = step /\ ~Excused
    BY <1>1, <1>6, NextOne
  <2>3. /\ Slot(step) \in Rec /\ Slot(step) # Gone /\ Slot(step) # Unborn /\ Slot(step).in # Staging
        /\ Staged(o).in = Staging /\ Staged(step).in = Staging
        /\ Slot(step).in \in {Root} \cup UserDirs \cup Made
    BY <1>1, <1>3, Slots, Chain, RecNotGone
  <2>4. /\ place'[o] = Slot(step) /\ NoOrphans
        /\ \A x \in Obj : x # o => place'[x] = place[x] \/ (place'[x] = Gone /\ x \in Occupant(Slot(step)))
    BY <1>1, <1>3, <1>6, <2>3, Landing
  <2>5. Occupant(Slot(step)) \subseteq User \cup {step} /\ \A x \in Occupant(Slot(step)) : place[x] # Unborn
    BY <1>1, <1>3, <2>3, Named DEF Occupant
  <2>6. place'[Payload] = place[Payload] /\ \A i \in Made : i # step => place'[i] = place[i]
    BY <1>3, <2>4, <2>5, Kinds
  <2>7. place'[step] \in {place[step], Gone, Slot(step)}
        /\ \A u \in User : place'[u] = place[u] \/ place'[u] = Gone \/ u = o
    BY <1>3, <2>4, Kinds
  <2>8. \A u \in User : place[u] # Unborn => place'[u] # Unborn
    BY <2>3, <2>4, <2>7, RestoreConstants
  <2>9. DirsOK'
    <3>1. \A i \in Made \ made : place'[i] = Unborn
      BY <1>1, <1>3, <2>6 DEF DirsOK
    <3>2. \A i \in made : place'[i] \in {Gone, Staged(i), Slot(i), At(Elsewhere, i)}
      BY <1>1, <1>3, <2>6, <2>7 DEF DirsOK
    <3>3. anchor \in User => place'[anchor] # Unborn
      BY <1>1, <2>8 DEF DirsOK
    <3> QED BY <1>1, <1>3, <2>1, <2>2, <3>1, <3>2, <3>3 DEF DirsOK
  <2>10. PayloadOK'
    BY <1>1, <1>6, <2>6, NextPayload
  <2>11. CleanOK'
    <3>1. Born => Born'
      BY <2>8 DEF Born
    <3>2. ASSUME why = "rolled_back", ~dirty', NEW i \in Made, Done(i)' PROVE Clean(i)'
      <4>1. o = step /\ ~dirty
        BY <2>2, <3>2
      <4>2. CASE i = step
        <5>1. PICK c \in Children(step) : TRUE
          BY <1>1, <1>3, <4>1 DEF CleanOK
        <5>2. c \in Obj /\ Alive(c) /\ place[c].in = step
          BY DEF Children, Alive
        <5>3. c # Payload
          BY <1>1, <1>3, <3>2, <5>2, Slots, Kinds DEF PayloadOK
        <5>4. CASE c \in User
          <6>1. Born
            BY <5>2, <5>4 DEF Born, Alive
          <6> QED BY <1>3, <2>1, <2>3, <2>4, <3>1, <4>1, <4>2, <6>1 DEF Clean
        <5>5. CASE c \in Made
          <6>1. c \in made /\ place[c] \in {Staged(c), Slot(c), At(Elsewhere, c)}
            BY <1>1, <5>2, <5>5 DEF DirsOK, Alive
          <6>2. Staged(c).in = Staging /\ At(Elsewhere, c).in = Elsewhere /\ step # Staging /\ step # Elsewhere
            BY <1>1, <1>3, <5>2, Slots, Kinds
          <6>3. place[c] = Slot(c)
            BY <5>2, <6>1, <6>2
          <6>4. c = first \/ c - 1 = step
            BY <1>1, <5>2, <6>1, <6>3, Slots
          <6>5. anchor # step
            BY <1>1, <1>3, Kinds DEF TypeOK
          <6>6. c - 1 = step
            BY <1>1, <5>2, <6>1, <6>3, <6>4, <6>5, Slots
          <6>7. c \in Nat /\ c > step
            BY <1>3, <6>1, <6>6
          <6>8. Clean(c)
            BY <1>1, <3>2, <4>1, <5>5, <6>1, <6>7 DEF CleanOK, Done
          <6>9. Born
            BY <5>2, <6>8 DEF Clean, Lost, Alive
          <6> QED BY <1>3, <2>1, <2>3, <2>4, <3>1, <4>1, <4>2, <6>9 DEF Clean
        <5> QED BY <5>2, <5>3, <5>4, <5>5 DEF Obj
      <4>3. CASE i # step
        <5>1. Clean(i)
          BY <1>1, <2>2, <3>2, <4>1, <4>3 DEF CleanOK
        <5> QED BY <2>1, <2>6, <3>1, <4>3, <5>1 DEF Clean, Lost
      <4> QED BY <4>2, <4>3
    <3> QED BY <2>2, <3>2 DEF CleanOK, Holding
  <2>12. HomeOK'
    <3> SUFFICES ASSUME ~Excused' PROVE HomeOK'
      BY DEF HomeOK
    <3>1. o = step /\ ~Excused /\ \A x \in User \cup Made : Housed(x)
      BY <1>1, <2>2 DEF HomeOK
    <3>2. Slot(step).in \in Homes'
      BY <1>1, <1>3, <1>6, <2>3, <2>5, <3>1, LandsAtHome
    <3>3. \A x \in Made : x = step => Housed(x)'
      BY <2>4, <3>1, <3>2 DEF Housed
    <3>4. \A u \in User : place'[u] # place[u] => place'[u] = Gone
      BY <1>3, <2>7, <3>1, Kinds
    <3>5. \A x \in User \cup Made : place'[x] # place[x] => Housed(x)'
      BY <2>6, <3>3, <3>4 DEF Housed, Alive
    <3>6. ASSUME NEW x \in User \cup Made, place'[x] = place[x], Alive(x), place[x] = Staged(x) PROVE FALSE
      <4>1. x = o
        BY <1>3, <3>1, <3>6, InStaging
      <4> QED BY <1>3, <2>3, <2>4, <3>6, <4>1
    <3> QED BY <2>1, <2>2, <2>4, <3>1, <3>4, <3>5, <3>6, HomeOn
  <2> QED BY <2>9, <2>10, <2>11, <2>12 DEF TreeOK
<1> QED BY <1>2, <1>4, <1>5, <1>6 DEF Rename, Moves

LEMMA StepTree == TInv /\ [Next]_vars => TreeOK'
<1> SUFFICES ASSUME TInv, [Next]_vars PROVE TreeOK'
  OBVIOUS
<1>1. CASE Restore
  BY <1>1, OpenTree, StageTree, CheckTree, MoveTree, VerifyTree, PublishTree, AppendTree, ReturnTree,
     DiscardTree, ReclaimTree, InspectTree, PutBackTree, KillTree DEF Restore
<1>2. CASE UserStep
  BY <1>2, UserDirsOK, UserPayloadOK, UserCleanOK, UserHomeOK DEF TreeOK
<1>3. CASE UNCHANGED vars
  <2>1. UNCHANGED <<place, pc, walk, cleaning>>
    BY <1>3 DEF vars, walk, cleaning
  <2>2. TreeOK
    BY DEF TInv
  <2> QED BY <2>1, <2>2, TreeStutter
<1> QED BY <1>1, <1>2, <1>3 DEF Next

-----------------------------------------------------------------------------
(* The theorems about the tree *)

LEMMA TreeInvariance == Spec => []TInv
<1>1. Init => TInv
  BY InitIInv, InitTreeOK DEF TInv
<1>2. TInv /\ [Next]_vars => TInv'
  <2> SUFFICES ASSUME TInv, [Next]_vars PROVE IInv' /\ TreeOK'
    BY DEF TInv
  <2>1. IInv'
    BY StepIInv DEF TInv
  <2> QED BY <2>1, StepTree
<1> QED BY <1>1, <1>2, PTL DEF Spec

\* A rollback that ends without a report has brought the payload back to the
\* trash, and of the directories it made none is left but what the user has
\* put something below, in the visible tree: never in staging.
THEOREM RolledBackIsClean == Spec => []CleanMeansClean
<1>1. TInv => CleanMeansClean
  <2> SUFFICES ASSUME TInv, pc = "rolled_back"
               PROVE  /\ place[Payload] = At(Box, Leaf)
                      /\ \A i \in made : Lost(i) \/ (published /\ place[i].in # Staging /\ \E u \in User : place[u] # Unborn)
    BY DEF CleanMeansClean
  <2>1. TypeOK /\ DirsOK /\ PayloadOK /\ CleanOK
    BY DEF TInv, IInv, TreeOK
  <2>2. why = "rolled_back" /\ ~dirty /\ place[Payload] = At(Box, Leaf)
    BY <2>1 DEF PayloadOK
  <2>3. ASSUME NEW i \in made PROVE Lost(i) \/ (published /\ place[i].in # Staging /\ Born)
    <3>1. i \in Made /\ i \in Obj
      BY <2>1, Chain, Kinds
    <3>2. Clean(i)
      BY <2>1, <2>2, <3>1 DEF CleanOK, Done
    <3>3. place[i] \in {Gone, Staged(i), Slot(i), At(Elsewhere, i)}
      BY <2>1 DEF DirsOK
    <3>4. Slot(i).in # Staging /\ At(Elsewhere, i).in # Staging
      BY <2>1, <3>1, Slots, Kinds
    <3> QED BY <3>2, <3>3, <3>4 DEF Clean, Lost
  <2> QED BY <2>2, <2>3 DEF Born
<1> QED BY <1>1, TreeInvariance, PTL

\* At the end of a restore everything of the user's that there is can be
\* reached from the visible directories, unless the end itself says that the
\* rollback or the cleanup failed, or the process was killed.
THEOREM CaptureIsVisible == Spec => []CaptureIsReported
<1>1. TInv => CaptureIsReported
  <2> SUFFICES ASSUME TInv, pc \in Ended, pc \notin {"unclean", "rollback_failed", "killed"}, NEW u \in Hidden
               PROVE  FALSE
    BY DEF CaptureIsReported
  <2>1. TypeOK /\ DirsOK /\ PayloadOK /\ HomeOK
    BY DEF TInv, IInv, TreeOK
  <2>2. u \in User /\ Alive(u) /\ u \notin Seen
    BY DEF Hidden, Alive
  <2>3. pc \notin Holding
    BY DEF Ended, Holding
  <2>4. CASE ~dirty
    <3>1. ~Excused
      BY <2>4 DEF Excused
    <3> QED BY <2>1, <2>2, <2>3, <3>1, TreeIsSeen
  <2>5. CASE dirty
    BY <2>1, <2>5 DEF PayloadOK, Cleaning, Ended
  <2> QED BY <2>4, <2>5
<1> QED BY <1>1, TreeInvariance, PTL

\* What the next state puts in sight.
SealedOK ==
    /\ \A o \in Obj : Reachable[o] => Alive(o) /\ place[o] # Staged(o)
    /\ \A i \in Made : Reachable[i] => i \in made /\ published

LEMMA Sealed == TInv => SealedOK
<1> SUFFICES ASSUME TInv PROVE SealedOK
  OBVIOUS
<1>1. TypeOK /\ DirsOK /\ PayloadOK
  BY DEF TInv, IInv, TreeOK
<1> QED BY <1>1, Private DEF SealedOK

LEMMA SealedNext == TInv' => SealedOK'
BY Sealed, PTL

\* Once the first directory is in sight the whole chain is, and the payload.
LEMMA ChainInSight ==
  ASSUME TInv, ReachOK', made # {}, UNCHANGED <<anchor, first, made>>, Reachable'[first],
         \A j \in made : place'[j] = Slot(j), place'[Payload] = Target
  PROVE  Reachable'[Payload]
<1>1. TypeOK /\ DirsOK
  BY DEF TInv, IInv, TreeOK
<1>2. parent \in made /\ made \subseteq Nat /\ made \subseteq Obj
  BY <1>1, Chain, Kinds DEF DirsOK
<1>3. \A j \in made : Slot(j) \in Rec /\ Slot(j) # Gone /\ Slot(j) # Unborn
  BY <1>1, Slots, RecNotGone
<1>4. \A j \in made : Exists(j)' /\ (Reachable'[j] <=> Reachable'[Slot(j).in])
  <2> SUFFICES ASSUME NEW j \in made PROVE Exists(j)' /\ (Reachable'[j] <=> Reachable'[Slot(j).in])
    OBVIOUS
  <2>1. j \in Obj /\ place'[j] = Slot(j)
    BY <1>2
  <2>2. Exists(j)'
    BY <1>3, <2>1 DEF Exists
  <2>3. Reachable'[j] <=> (Exists(j)' /\ Reachable'[place'[j].in])
    BY <2>1, Zenon DEF ReachOK
  <2> QED BY <2>1, <2>2, <2>3, Zenon
<1>5. \A j \in made : Reachable'[j]
  <2> SUFFICES ASSUME NEW j0 \in made, ~Reachable'[j0] PROVE FALSE
    OBVIOUS
  <2> DEFINE T == {j \in made : ~Reachable'[j]}
  <2>1. T \in SUBSET Nat /\ T # {}
    BY <1>2
  <2>2. PICK j \in T : \A k \in T : j <= k
    BY <2>1, LeastOf
  <2>3. j \in made /\ j \in Nat /\ j # first
    BY <1>2, <2>1, <2>2
  <2>4. Slot(j).in = j - 1 /\ j - 1 \in made /\ j - 1 \in Nat
    BY <1>1, <1>2, <2>3, Slots, Chain
  <2>5. ~Reachable'[j - 1]
    BY <1>4, <2>2, <2>3, <2>4
  <2>6. j <= j - 1
    BY <2>2, <2>4, <2>5
  <2> QED BY <2>3, <2>4, <2>6
<1>6. Target \in Rec /\ Target.in = parent /\ Payload \in Obj /\ Target # Gone /\ Target # Unborn
  BY <1>1, Slots, Kinds, RecNotGone
<1>7. Reachable'[Payload] <=> (Exists(Payload)' /\ Reachable'[place'[Payload].in])
  BY <1>6, Zenon DEF ReachOK
<1>8. Exists(Payload)'
  BY <1>6 DEF Exists
<1> QED BY <1>2, <1>5, <1>6, <1>7, <1>8

\* A directory of the restore comes into sight with the payload in it, or
\* because the cleanup puts back one that is not empty.
NotBare(i) == Payload \in Seen' \/ (pc = "putback" /\ Children(i)' # {})

LEMMA PublishNotBare ==
  ASSUME TInv, TInv', Publish, NEW i \in Made, ~Reachable[i], Reachable'[i], place'[i] # place[i]
  PROVE  Reachable'[Payload]
<1>1. TypeOK /\ DirsOK /\ PayloadOK /\ pc = "publish" /\ ReachOK'
  BY ReachableNext DEF TInv, IInv, TreeOK, Publish
<1>2. made # {} /\ first \in made /\ first \in Obj /\ made \subseteq Made /\ ~published
  BY <1>1, Chain, Kinds DEF TInv, IInv, PathOK, DirsOK, Early
<1>3. CASE Moves(first, Slot(first)) /\ UNCHANGED <<parent, anchor, first, made, cleaning>>
  <2>1. Slot(first) \in Rec /\ place[first] = Staged(first) /\ place[first] # Slot(first)
    BY <1>1, <1>2, Slots DEF DirsOK, Early
  <2>2. /\ place'[first] = Slot(first)
        /\ \A x \in Obj : x # first => place'[x] = place[x] \/ (place'[x] = Gone /\ x \in Occupant(Slot(first)))
    BY <1>1, <1>2, <1>3, <2>1, Landing
  <2>3. Occupant(Slot(first)) \subseteq User
    BY <1>1, <1>2, <2>1, Named DEF Occupant
  <2>4. (\A x \in Made : x # first => place'[x] = place[x]) /\ place'[Payload] = place[Payload]
    BY <1>2, <2>2, <2>3, Kinds
  <2>5. \A j \in made : place'[j] = Slot(j)
    BY <1>1, <1>2, <2>2, <2>4 DEF DirsOK, Early
  <2>6. place'[Payload] = Target
    BY <1>1, <2>4 DEF PayloadOK
  <2>7. i = first
    BY <2>4
  <2> QED BY <1>1, <1>2, <1>3, <2>5, <2>6, <2>7, ChainInSight
<1>4. CASE UNCHANGED place
  BY <1>4
<1> QED BY <1>3, <1>4 DEF Publish, Rename, Moves

LEMMA PutBackNotBare ==
  ASSUME TInv, TInv', PutBack, NEW i \in Made, Reachable'[i], place'[i] # place[i]
  PROVE  Children(i)' # {}
<1>1. TypeOK /\ DirsOK /\ PayloadOK /\ CleanOK /\ pc = "putback" /\ pc \in Holding
  BY DEF TInv, IInv, TreeOK, PutBack, Holding
<1>2. PICK o \in held : Rename(o, Slot(step), NextParent(o # step) /\ UNCHANGED walk,
                                              NextParent(TRUE) /\ UNCHANGED walk)
  BY DEF PutBack
<1>3. /\ held = {o} /\ o \in Obj /\ o \in User \cup {step} /\ place[o] = Staged(o)
      /\ step \in made /\ step \in Made /\ step \in Obj /\ step \in Nat
  BY <1>1, TheHeld
<1>4. Moves(o, Slot(step))
  BY <1>2 DEF Rename, Moves
<1>5. Slot(step) \in Rec /\ Slot(step).in # Staging /\ Staged(o).in = Staging /\ Slot(step).in # step
  <2>1. Slot(step) \in Rec /\ Slot(step).in # Staging /\ Staged(o).in = Staging
        /\ Slot(step).in = IF step = first THEN anchor ELSE step - 1
    BY <1>1, <1>3, Slots
  <2>2. anchor # step /\ step - 1 # step
    BY <1>1, <1>3, Kinds DEF TypeOK
  <2> QED BY <2>1, <2>2
<1>6. \A x \in Obj : x # o => place'[x] = place[x] \/ (place'[x] = Gone /\ x \in Occupant(Slot(step)))
  BY <1>1, <1>3, <1>4, <1>5, Landing
<1>7. Alive(i)' /\ i \in Obj
  BY SealedNext, Kinds DEF SealedOK
<1>8. i = o /\ o = step
  BY <1>3, <1>6, <1>7, Kinds DEF Alive
<1>9. PICK c \in Children(step) : TRUE
  BY <1>1, <1>3, <1>8 DEF CleanOK
<1>10. c \in Obj /\ Alive(c) /\ place[c].in = step
  BY DEF Children, Alive
<1>11. c # o /\ c \notin Occupant(Slot(step))
  BY <1>3, <1>5, <1>10, Kinds DEF Occupant
<1>12. place'[c] = place[c]
  BY <1>6, <1>10, <1>11
<1> QED BY <1>8, <1>10, <1>12 DEF Children, Alive

LEMMA NeverBare ==
  ASSUME TInv, TInv', [Next]_vars, NEW i \in Made, i \notin Seen, i \in Seen', place'[i] # place[i]
  PROVE  NotBare(i)
<1>1. TypeOK /\ DirsOK /\ PayloadOK /\ TypeOK' /\ SealedOK' /\ made \subseteq Made
  BY SealedNext, Chain DEF TInv, IInv, TreeOK
<1>2. i \in Obj /\ i # Payload /\ i \notin User /\ ~Reachable[i] /\ Reachable'[i]
  BY Kinds DEF Seen
<1>3. Alive(i)' /\ published' /\ place'[i] # Staged(i)'
  BY <1>1, <1>2 DEF SealedOK
<1>4. CASE Open \/ CheckDestination \/ Verify \/ AppendRecord \/ Recheck \/ Kill
  BY <1>4 DEF Open, CheckDestination, Still, Verify, AppendRecord, Recheck, Kill
<1>5. CASE Stage
  <2>1. ~published /\ published' = published
    BY <1>1, <1>5 DEF DirsOK, Early, Stage, walk
  <2> QED BY <1>3, <2>1
<1>6. CASE MovePayload
  <2>1. ~published /\ published' = published
    BY <1>1, <1>6 DEF DirsOK, Early, MovePayload, Rename, walk
  <2> QED BY <1>3, <2>1
<1>7. CASE Publish
  BY <1>2, <1>7, PublishNotBare, Kinds DEF NotBare, Seen
<1>8. CASE Return
  <2>1. PICK o \in Occupant(Target) : place' = [place EXCEPT ![o] = At(Box, Leaf)]
    BY <1>8 DEF Return
  <2>2. o \in Obj /\ o # i
    BY <1>1, <1>2, Named DEF Occupant
  <2> QED BY <1>1, <1>2, <2>1, <2>2 DEF TypeOK
<1>9. CASE Discard
  <2>1. step \in Obj
    BY <1>1, <1>9, Kinds DEF Discard, TypeOK
  <2>2. place' = [place EXCEPT ![step] = IF Children(step) = {} THEN Gone ELSE @]
    BY <1>9 DEF Discard
  <2>3. place'[i] = Gone
    BY <1>1, <1>2, <2>1, <2>2 DEF TypeOK
  <2> QED BY <1>3, <2>3 DEF Alive
<1>10. CASE Reclaim
  <2>1. PICK o \in Occupant(Slot(step)) : place' = [place EXCEPT ![o] = Staged(o)]
    BY <1>10 DEF Reclaim
  <2>2. i = o /\ place'[i] = Staged(i)
    BY <1>1, <1>2, <2>1 DEF TypeOK, Occupant
  <2> QED BY <1>3, <2>2 DEF Staged
<1>11. CASE Inspect
  <2>1. PICK o \in held : place' = [place EXCEPT ![o] = Gone]
    BY <1>11 DEF Inspect
  <2>2. place'[i] = Gone
    BY <1>1, <1>2, <2>1 DEF TypeOK
  <2> QED BY <1>3, <2>2 DEF Alive
<1>12. CASE PutBack
  <2>1. pc = "putback"
    BY <1>12 DEF PutBack
  <2> QED BY <1>2, <1>12, <2>1, PutBackNotBare DEF NotBare
<1>13. CASE UserStep
  BY <1>2, <1>13, UserQuiet
<1>14. CASE UNCHANGED vars
  BY <1>14 DEF vars
<1> QED BY <1>4, <1>5, <1>6, <1>7, <1>8, <1>9, <1>10, <1>11, <1>12, <1>13, <1>14 DEF Next, Restore

\* No step of a restore, whatever the user does meanwhile, puts a directory it
\* has made in sight unless the payload is in sight with it, or the cleanup
\* gives back a directory in which somebody else has put something.
THEOREM NoBareParentSeen == Spec => NoBareParent
<1> DEFINE Covered(d) == \A i \in d : i \notin Seen /\ i \in Seen' /\ place'[i] # place[i] =>
                             \/ Payload \in Seen'
                             \/ pc = "putback" /\ Children(i)' # {}
<1>1. TInv /\ TInv' /\ [Next]_vars => [Covered(Made)]_vars
  BY NeverBare DEF NotBare
<1> QED BY <1>1, TreeInvariance, PTL DEF Spec, NoBareParent
=============================================================================
