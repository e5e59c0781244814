-------------------------- MODULE StorageInitProofs --------------------------
(***************************************************************************)
(* Theorems about StorageInit, for any set of processes and any bounds.    *)
(*                                                                         *)
(* The invariant says how far each running initialisation has come: all    *)
(* names before its place in Order are there.  It is kept by the others    *)
(* because nothing but a power failure, which ends them all, takes names.  *)
(***************************************************************************)
EXTENDS StorageInit, TLAPS

\* What is at a name is what belongs there, or the user's.
KindsOK == \A x \in Name : kind[x] \in {"none", Right(x), "foreign"}

\* The names before the place of a process are there.
Past(p) == \A i \in 1..7 : i < at[p] => Accepted(Order[i])

PlaceOK ==
  \A p \in Proc :
    /\ pc[p] \in {"look", "make"} => at[p] \in 1..7
    /\ pc[p] = "flush" => at[p] > 7
    /\ pc[p] \in Running => Past(p)

DoneOK == (\E p \in Proc : pc[p] = "done") => Whole

IInv == TypeOK /\ KindsOK /\ PlaceOK /\ DoneOK /\ FailsForAReason

-----------------------------------------------------------------------------
\* The order lists every name once, a parent before what is in it.
LEMMA OrderFacts ==
  /\ Len(Order) = 7
  /\ Order[1] = "above" /\ Order[2] = "root" /\ Order[3] = "locks" /\ Order[4] = "trash"
  /\ Order[5] = "objects" /\ Order[6] = "ledger" /\ Order[7] = "lock"
BY DEF Order

LEMMA OrderNames == \A i \in 1..7 : Order[i] \in Name
<1> SUFFICES ASSUME NEW i \in 1..7 PROVE Order[i] \in Name
  OBVIOUS
<1>1. i = 1 \/ i = 2 \/ i = 3 \/ i = 4 \/ i = 5 \/ i = 6 \/ i = 7
  OBVIOUS
<1> QED BY <1>1, OrderFacts DEF Name

\* Whoever stands at a name has all that is above it before its place.
LEMMA ParentIsEarlier ==
  \A i \in 2..7 : \E j \in 1..7 : j < i /\ Order[j] = Parent[Order[i]] /\ Order[i] # "above"
<1> SUFFICES ASSUME NEW i \in 2..7
             PROVE \E j \in 1..7 : j < i /\ Order[j] = Parent[Order[i]] /\ Order[i] # "above"
  OBVIOUS
<1>1. /\ Parent["root"] = "above" /\ Parent["locks"] = "root" /\ Parent["trash"] = "root"
      /\ Parent["objects"] = "trash" /\ Parent["ledger"] = "root" /\ Parent["lock"] = "locks"
  BY DEF Parent
<1>2. i = 2 \/ i = 3 \/ i = 4 \/ i = 5 \/ i = 6 \/ i = 7
  OBVIOUS
<1>3. 1 \in 1..7 /\ 2 \in 1..7 /\ 3 \in 1..7 /\ 4 \in 1..7
  OBVIOUS
<1> QED BY <1>1, <1>2, <1>3, OrderFacts

LEMMA ParentFacts ==
  /\ \A x \in Name \ {"above"} : Parent[x] \in Name /\ Right(Parent[x]) = "dir"
  /\ \A x \in Name \ {"above"} : Parent[x] \in Above[x] /\ Above[Parent[x]] \subseteq Above[x]
BY DEF Name, Parent, Right, Dirs, Above

LEMMA RightFacts == \A x \in Name : Right(x) \in {"dir", "file"} /\ (x \in Dirs => Right(x) = "dir")
BY DEF Right, Name, Dirs

\* All seven accepted names make up a whole layout, as the root is in a directory.
LEMMA AllAccepted ==
  ASSUME TypeOK, \A i \in 1..7 : Accepted(Order[i])
  PROVE  Whole
<1>1. \A x \in Name : Accepted(x)
  BY OrderFacts DEF Name
<1>2. "root" \in Name \ {"above"} /\ Parent["root"] = "above" /\ Right("above") = "dir"
  BY DEF Name, Parent, Right, Dirs
<1>3. kind["root"] = Right("root") /\ Right("root") = "dir"
  BY <1>1, <1>2 DEF Accepted, Right, Dirs
<1>4. kind["above"] = "dir"
  BY <1>2, <1>3 DEF TypeOK
<1> QED BY <1>1, <1>2, <1>4 DEF Accepted, Whole

-----------------------------------------------------------------------------
LEMMA InitIInv == Init => IInv
<1> SUFFICES ASSUME Init PROVE IInv
  OBVIOUS
<1>1. TypeOK
  <2>1. \A x \in Name : kind[x] \in {"none", "dir"} /\ (x # "above" => kind[x] = "none")
    BY DEF Init
  <2>2. kind \in [Name -> {"none", "dir", "file", "foreign"}]
    BY DEF Init
  <2>3. durable \subseteq {x \in Name : kind[x] # "none"}
    BY DEF Init, Name
  <2> QED BY <2>1, <2>2, <2>3, StorageInitConstants DEF Init, TypeOK, Running
<1>2. KindsOK
  BY DEF Init, KindsOK, Right, Dirs
<1>3. PlaceOK /\ DoneOK /\ FailsForAReason
  BY DEF Init, PlaceOK, DoneOK, FailsForAReason, Running
<1> QED BY <1>1, <1>2, <1>3 DEF IInv

-----------------------------------------------------------------------------
(* What every step but a power failure has in common *)

Keeps == \A x \in Name : kind[x] # "none" => kind'[x] = kind[x]

LEMMA AcceptedStays ==
  ASSUME Keeps, NEW x \in Name, Accepted(x)
  PROVE  Accepted(x)'
BY RightFacts DEF Keeps, Accepted

LEMMA WholeStays == Keeps /\ Whole => Whole'
BY RightFacts DEF Keeps, Whole

LEMMA PastStays ==
  ASSUME Keeps, NEW p \in Proc, Past(p), at'[p] = at[p]
  PROVE  Past(p)'
BY AcceptedStays, OrderNames DEF Past

\* The others are not disturbed by a step of p: what is left is p itself.
LEMMA Frame ==
  ASSUME IInv, NEW p \in Proc, Keeps, TypeOK', KindsOK',
         \A q \in Proc \ {p} : pc'[q] = pc[q] /\ at'[q] = at[q] /\ excuse'[q] = excuse[q],
         pc'[p] \in {"look", "make"} => at'[p] \in 1..7,
         pc'[p] = "flush" => at'[p] > 7,
         pc'[p] \in Running => Past(p)',
         pc'[p] = "done" => Whole',
         pc'[p] = "failed" => excuse'[p] \/ \E x \in Name : kind'[x] = "foreign"
  PROVE  IInv'
<1>1. PlaceOK'
  <2> SUFFICES ASSUME NEW q \in Proc
               PROVE /\ pc'[q] \in {"look", "make"} => at'[q] \in 1..7
                     /\ pc'[q] = "flush" => at'[q] > 7
                     /\ pc'[q] \in Running => Past(q)'
    BY DEF PlaceOK, Running
  <2>1. CASE q = p
    BY <2>1
  <2>2. CASE q # p
    <3>1. pc'[q] \in Running => Past(q)
      BY <2>2 DEF IInv, PlaceOK
    <3>2. pc'[q] \in Running => Past(q)'
      BY <2>2, <3>1, PastStays
    <3> QED BY <2>2, <3>2 DEF IInv, PlaceOK
  <2> QED BY <2>1, <2>2
<1>2. DoneOK'
  <2> SUFFICES ASSUME NEW q \in Proc, pc'[q] = "done" PROVE Whole'
    BY DEF DoneOK
  <2>1. CASE q = p
    BY <2>1
  <2>2. CASE q # p
    BY <2>2, WholeStays DEF IInv, DoneOK
  <2> QED BY <2>1, <2>2
<1>3. FailsForAReason'
  <2> SUFFICES ASSUME NEW q \in Proc, pc'[q] = "failed"
               PROVE excuse'[q] \/ \E x \in Name : kind'[x] = "foreign"
    BY DEF FailsForAReason
  <2>1. CASE q = p
    BY <2>1
  <2>2. CASE q # p
    BY <2>2 DEF IInv, FailsForAReason, Keeps
  <2> QED BY <2>1, <2>2
<1> QED BY <1>1, <1>2, <1>3 DEF IInv

\* A process that advances past a name that is there keeps its invariant.
LEMMA AdvanceKeeps ==
  ASSUME IInv, NEW p \in Proc, Keeps, Advance(p),
         pc[p] \in {"look", "make"},
         NEW x \in Name, x = Order[at[p]], Accepted(x)'
  PROVE  /\ at' \in [Proc -> Nat \ {0}] /\ pc' \in [Proc -> Running \cup {"idle", "failed", "done"}]
         /\ \A q \in Proc \ {p} : pc'[q] = pc[q] /\ at'[q] = at[q]
         /\ pc'[p] \in {"look", "make"} => at'[p] \in 1..7
         /\ pc'[p] = "flush" => at'[p] > 7
         /\ Past(p)'
         /\ pc'[p] \notin {"done", "failed"}
<1>1. at[p] \in 1..7 /\ Past(p)
  BY DEF IInv, PlaceOK, Running
<1>2. at \in [Proc -> Nat \ {0}] /\ pc \in [Proc -> Running \cup {"idle", "failed", "done"}]
  BY DEF IInv, TypeOK
<1>3. at'[p] = at[p] + 1 /\ \A q \in Proc \ {p} : at'[q] = at[q]
  BY <1>1, <1>2 DEF Advance
<1>4. pc'[p] = IF at[p] = 7 THEN "flush" ELSE IF at[p] = 1 THEN "make" ELSE "look"
  BY <1>2, OrderFacts DEF Advance, Goto
<1>5. \A q \in Proc \ {p} : pc'[q] = pc[q]
  BY <1>2 DEF Advance, Goto
<1>6. at' \in [Proc -> Nat \ {0}]
  BY <1>1, <1>2 DEF Advance
<1>7. pc' \in [Proc -> Running \cup {"idle", "failed", "done"}]
  BY <1>2 DEF Advance, Goto, Running
<1>8. Past(p)'
  <2> SUFFICES ASSUME NEW i \in 1..7, i < at'[p] PROVE Accepted(Order[i])'
    BY DEF Past
  <2>1. CASE i < at[p]
    BY <1>1, <2>1, AcceptedStays, OrderNames DEF Past
  <2>2. CASE i = at[p]
    <3>1. Order[i] = x
      BY <2>2
    <3> QED BY <3>1
  <2> QED BY <1>1, <1>3, <2>1, <2>2
<1> QED BY <1>1, <1>3, <1>4, <1>5, <1>6, <1>7, <1>8

\* A process that stops has nothing left to keep.
LEMMA StopKeeps ==
  ASSUME IInv, NEW p \in Proc, NEW e \in {"idle", "failed", "done"}, Stop(p, e)
  PROVE  /\ at' \in [Proc -> Nat \ {0}] /\ pc' \in [Proc -> Running \cup {"idle", "failed", "done"}]
         /\ made' \in [Proc -> SUBSET Name]
         /\ \A q \in Proc \ {p} : pc'[q] = pc[q] /\ at'[q] = at[q]
         /\ pc'[p] = e /\ pc'[p] \notin Running /\ pc'[p] \notin {"look", "make", "flush"}
BY DEF IInv, TypeOK, Stop, Goto, Running

-----------------------------------------------------------------------------
(* The steps *)

LEMMA SameKind ==
  ASSUME IInv, UNCHANGED kind
  PROVE  Keeps /\ KindsOK'
BY DEF IInv, Keeps, KindsOK

LEMMA StartStep == ASSUME IInv, NEW p \in Proc, Start(p) PROVE IInv'
<1> USE DEF Start
<1>1. Keeps /\ KindsOK'
  BY SameKind DEF disk
<1>2. TypeOK'
  BY DEF IInv, TypeOK, disk, Goto, Running
<1>3. \A q \in Proc \ {p} : pc'[q] = pc[q] /\ at'[q] = at[q] /\ excuse'[q] = excuse[q]
  BY DEF IInv, TypeOK, Goto
<1>4. CASE kind["root"] = "none" /\ Goto(p, "look") /\ at' = [at EXCEPT ![p] = 1]
  <2>1. pc'[p] = "look" /\ at'[p] = 1
    BY <1>4 DEF IInv, TypeOK, Goto
  <2>2. Past(p)'
    BY <2>1 DEF Past
  <2>3. at'[p] \in 1..7
    BY <2>1
  <2> QED BY <1>1, <1>2, <1>3, <2>1, <2>2, <2>3, Frame
<1>5. CASE kind["root"] = "dir" /\ Goto(p, "look") /\ at' = [at EXCEPT ![p] = 3]
  <2>1. pc'[p] = "look" /\ at'[p] = 3
    BY <1>5 DEF IInv, TypeOK, Goto
  <2>2. kind["above"] = "dir"
    BY <1>5, "root" \in Name \ {"above"}, Parent["root"] = "above"
    DEF IInv, TypeOK, Name, Parent
  <2>3. Accepted("above") /\ Accepted("root")
    BY <1>5, <2>2 DEF Accepted, Right, Dirs
  <2>4. Accepted("above")' /\ Accepted("root")'
    BY <1>1, <2>3, AcceptedStays DEF Name
  <2>5. Past(p)'
    <3> SUFFICES ASSUME NEW i \in 1..7, i < 3 PROVE Accepted(Order[i])'
      BY <2>1 DEF Past
    <3>1. i = 1 \/ i = 2
      OBVIOUS
    <3> QED BY <2>4, <3>1, OrderFacts
  <2>6. at'[p] \in 1..7
    BY <2>1
  <2> QED BY <1>1, <1>2, <1>3, <2>1, <2>5, <2>6, Frame
<1>6. CASE kind["root"] = "foreign" /\ Goto(p, "failed") /\ UNCHANGED at
  <2>1. pc'[p] = "failed"
    BY <1>6 DEF IInv, TypeOK, Goto
  <2>2. \E x \in Name : kind'[x] = "foreign"
    BY <1>6 DEF Name, disk
  <2> QED BY <1>1, <1>2, <1>3, <2>1, <2>2, Frame DEF Running
<1> QED BY <1>4, <1>5, <1>6

LEMMA LookStep == ASSUME IInv, NEW p \in Proc, Look(p) PROVE IInv'
<1>1. Keeps /\ KindsOK'
  BY SameKind DEF Look, disk
<1>2. pc[p] = "look" /\ at[p] \in 1..7 /\ Past(p)
  BY DEF Look, IInv, PlaceOK, Running
<1>3. UNCHANGED <<kind, durable, lines, excuse, vouched>>
  BY DEF Look, disk
<1>4. PICK x \in Name : x = Order[at[p]]
  BY <1>2, OrderNames
<1>5. CASE kind[x] = "none" /\ Goto(p, "make") /\ UNCHANGED <<at, made>>
  <2>1. TypeOK'
    BY <1>3, <1>5 DEF IInv, TypeOK, Goto, Running
  <2>2. pc'[p] = "make" /\ at'[p] = at[p]
    BY <1>5 DEF IInv, TypeOK, Goto
  <2>3. \A q \in Proc \ {p} : pc'[q] = pc[q] /\ at'[q] = at[q] /\ excuse'[q] = excuse[q]
    BY <1>3, <1>5 DEF IInv, TypeOK, Goto
  <2>4. Past(p)' /\ at'[p] \in 1..7
    BY <1>1, <1>2, <2>2, PastStays
  <2> QED BY <1>1, <1>2, <2>1, <2>2, <2>3, <2>4, Frame
<1>6. CASE Accepted(x) /\ Advance(p) /\ UNCHANGED made
  <2>1. Accepted(x)'
    BY <1>1, <1>6, AcceptedStays
  <2>2. /\ at' \in [Proc -> Nat \ {0}] /\ pc' \in [Proc -> Running \cup {"idle", "failed", "done"}]
        /\ \A q \in Proc \ {p} : pc'[q] = pc[q] /\ at'[q] = at[q]
        /\ pc'[p] \in {"look", "make"} => at'[p] \in 1..7
        /\ pc'[p] = "flush" => at'[p] > 7
        /\ Past(p)'
        /\ pc'[p] \notin {"done", "failed"}
    BY <1>1, <1>2, <1>4, <1>6, <2>1, AdvanceKeeps
  <2>3. TypeOK'
    BY <1>3, <1>6, <2>2 DEF IInv, TypeOK
  <2>4. \A q \in Proc : excuse'[q] = excuse[q]
    BY <1>3
  <2> QED BY <1>1, <2>2, <2>3, <2>4, Frame
<1>7. CASE kind[x] # "none" /\ ~Accepted(x) /\ Stop(p, "failed")
  <2>1. kind[x] = "foreign"
    BY <1>7 DEF IInv, KindsOK, Accepted
  <2>2. \E y \in Name : kind'[y] = "foreign"
    BY <1>3, <2>1
  <2>3. /\ at' \in [Proc -> Nat \ {0}] /\ pc' \in [Proc -> Running \cup {"idle", "failed", "done"}]
        /\ made' \in [Proc -> SUBSET Name]
        /\ \A q \in Proc \ {p} : pc'[q] = pc[q] /\ at'[q] = at[q]
        /\ pc'[p] = "failed" /\ pc'[p] \notin Running /\ pc'[p] \notin {"look", "make", "flush"}
    BY <1>7, StopKeeps
  <2>4. TypeOK'
    BY <1>3, <2>3 DEF IInv, TypeOK
  <2>5. \A q \in Proc : excuse'[q] = excuse[q]
    BY <1>3
  <2> QED BY <1>1, <2>2, <2>3, <2>4, <2>5, Frame
<1> QED BY <1>4, <1>5, <1>6, <1>7 DEF Look

\* A new object in a directory that exists.
Shape == /\ kind \in [Name -> {"none", "dir", "file", "foreign"}]
         /\ \A y \in Name \ {"above"} : kind[y] # "none" => kind[Parent[y]] = "dir"

LEMMA Create ==
  ASSUME IInv, NEW x \in Name, NEW k \in {Right(x), "foreign"}, kind[x] = "none",
         x # "above" => kind[Parent[x]] = "dir", kind' = [kind EXCEPT ![x] = k]
  PROVE  /\ Keeps /\ KindsOK' /\ Shape' /\ kind'[x] = k
         /\ durable \subseteq {y \in Name : kind'[y] # "none"}
<1>1. k \in {"dir", "file", "foreign"}
  BY RightFacts
<1>2. /\ kind \in [Name -> {"none", "dir", "file", "foreign"}]
      /\ durable \subseteq {y \in Name : kind[y] # "none"}
      /\ \A y \in Name \ {"above"} : kind[y] # "none" => kind[Parent[y]] = "dir"
  BY DEF IInv, TypeOK
<1>3. kind'[x] = k /\ \A y \in Name \ {x} : kind'[y] = kind[y]
  BY <1>2
<1>4. kind' \in [Name -> {"none", "dir", "file", "foreign"}]
  BY <1>1, <1>2
<1>5. \A y \in Name \ {"above"} : kind'[y] # "none" => kind'[Parent[y]] = "dir"
  <2> SUFFICES ASSUME NEW y \in Name \ {"above"}, kind'[y] # "none"
               PROVE kind'[Parent[y]] = "dir"
    OBVIOUS
  <2>1. kind[Parent[y]] = "dir"
    BY <1>2, <1>3
  <2>2. Parent[y] # x /\ Parent[y] \in Name
    BY <2>1, ParentFacts
  <2> QED BY <1>3, <2>1, <2>2
<1>6. Keeps
  BY <1>3 DEF Keeps
<1>7. KindsOK'
  BY <1>3 DEF IInv, KindsOK
<1>8. durable \subseteq {y \in Name : kind'[y] # "none"}
  BY <1>1, <1>2, <1>3
<1> QED BY <1>3, <1>4, <1>5, <1>6, <1>7, <1>8 DEF Shape

LEMMA MakeStep == ASSUME IInv, NEW p \in Proc, Make(p) PROVE IInv'
<1>1. pc[p] = "make" /\ at[p] \in 1..7 /\ Past(p)
  BY DEF Make, IInv, PlaceOK, Running
<1>2. UNCHANGED <<durable, lines, excuse, vouched>>
  BY DEF Make
<1>3. PICK x \in Name : x = Order[at[p]]
  BY <1>1, OrderNames
<1>4. CASE /\ kind[x] = "none" /\ (x # "above" => kind[Parent[x]] = "dir")
           /\ kind' = [kind EXCEPT ![x] = Right(x)]
           /\ made' = [made EXCEPT ![p] = @ \cup ({x} \ {"above"})]
           /\ Advance(p)
  <2>1. /\ Keeps /\ KindsOK' /\ Shape' /\ kind'[x] = Right(x)
        /\ durable \subseteq {y \in Name : kind'[y] # "none"}
    BY <1>4, Create
  <2>2. Accepted(x)'
    BY <2>1 DEF Accepted
  <2>3. /\ at' \in [Proc -> Nat \ {0}] /\ pc' \in [Proc -> Running \cup {"idle", "failed", "done"}]
        /\ \A q \in Proc \ {p} : pc'[q] = pc[q] /\ at'[q] = at[q]
        /\ pc'[p] \in {"look", "make"} => at'[p] \in 1..7
        /\ pc'[p] = "flush" => at'[p] > 7
        /\ Past(p)'
        /\ pc'[p] \notin {"done", "failed"}
    BY <1>1, <1>3, <1>4, <2>1, <2>2, AdvanceKeeps
  <2>4. made' \in [Proc -> SUBSET Name]
    BY <1>4 DEF IInv, TypeOK
  <2>5. TypeOK'
    BY <1>2, <2>1, <2>3, <2>4 DEF IInv, TypeOK, Shape
  <2>6. \A q \in Proc : excuse'[q] = excuse[q]
    BY <1>2
  <2> QED BY <2>1, <2>3, <2>5, <2>6, Frame
<1>5. CASE /\ kind[x] # "none" /\ Accepted(x)
           /\ made' = IF x = "root" THEN [made EXCEPT ![p] = @ \cup {x}] ELSE made
           /\ Advance(p) /\ UNCHANGED kind
  <2>1. Keeps /\ KindsOK'
    BY <1>5, SameKind
  <2>2. Accepted(x)'
    BY <1>5, <2>1, AcceptedStays
  <2>3. /\ at' \in [Proc -> Nat \ {0}] /\ pc' \in [Proc -> Running \cup {"idle", "failed", "done"}]
        /\ \A q \in Proc \ {p} : pc'[q] = pc[q] /\ at'[q] = at[q]
        /\ pc'[p] \in {"look", "make"} => at'[p] \in 1..7
        /\ pc'[p] = "flush" => at'[p] > 7
        /\ Past(p)'
        /\ pc'[p] \notin {"done", "failed"}
    BY <1>1, <1>3, <1>5, <2>1, <2>2, AdvanceKeeps
  <2>4. made' \in [Proc -> SUBSET Name]
    BY <1>5 DEF IInv, TypeOK
  <2>5. TypeOK'
    BY <1>2, <1>5, <2>3, <2>4 DEF IInv, TypeOK
  <2>6. \A q \in Proc : excuse'[q] = excuse[q]
    BY <1>2
  <2> QED BY <2>1, <2>3, <2>5, <2>6, Frame
<1>6. CASE /\ \/ kind[x] # "none" /\ ~Accepted(x)
              \/ x # "above" /\ kind[Parent[x]] # "dir"
           /\ Stop(p, "failed") /\ UNCHANGED kind
  <2>1. Keeps /\ KindsOK'
    BY <1>6, SameKind
  <2>2. \E y \in Name : kind[y] = "foreign"
    <3>1. CASE kind[x] # "none" /\ ~Accepted(x)
      BY <3>1 DEF IInv, KindsOK, Accepted
    <3>2. CASE x # "above" /\ kind[Parent[x]] # "dir"
      <4>1. at[p] \in 2..7
        BY <1>1, <1>3, <3>2, OrderFacts
      <4>2. PICK j \in 1..7 : j < at[p] /\ Order[j] = Parent[x]
        BY <1>3, <4>1, ParentIsEarlier
      <4>3. Accepted(Parent[x]) /\ Parent[x] \in Name /\ Right(Parent[x]) = "dir"
        BY <1>1, <3>2, <4>2, ParentFacts DEF Past
      <4> QED BY <3>2, <4>3 DEF Accepted, IInv, KindsOK
    <3> QED BY <1>6, <3>1, <3>2
  <2>3. /\ at' \in [Proc -> Nat \ {0}] /\ pc' \in [Proc -> Running \cup {"idle", "failed", "done"}]
        /\ made' \in [Proc -> SUBSET Name]
        /\ \A q \in Proc \ {p} : pc'[q] = pc[q] /\ at'[q] = at[q]
        /\ pc'[p] = "failed" /\ pc'[p] \notin Running /\ pc'[p] \notin {"look", "make", "flush"}
    BY <1>6, StopKeeps
  <2>4. TypeOK'
    BY <1>2, <1>6, <2>3 DEF IInv, TypeOK
  <2>5. /\ \A q \in Proc : excuse'[q] = excuse[q]
        /\ \E y \in Name : kind'[y] = "foreign"
    BY <1>2, <1>6, <2>2
  <2> QED BY <2>1, <2>3, <2>4, <2>5, Frame
<1> QED BY <1>3, <1>4, <1>5, <1>6 DEF Make

LEMMA FailStep == ASSUME IInv, NEW p \in Proc, Fail(p) PROVE IInv'
<1>1. pc[p] \in Running /\ UNCHANGED <<durable, lines, vouched>>
  BY DEF Fail
<1>2. excuse' = [excuse EXCEPT ![p] = TRUE] /\ Stop(p, "failed")
  BY DEF Fail
<1>3. excuse'[p] = TRUE /\ excuse' \in [Proc -> BOOLEAN] /\ \A q \in Proc \ {p} : excuse'[q] = excuse[q]
  BY <1>2 DEF IInv, TypeOK
<1>4. Keeps /\ KindsOK' /\ Shape' /\ durable \subseteq {y \in Name : kind'[y] # "none"}
  <2>1. CASE UNCHANGED kind
    BY <2>1, SameKind DEF IInv, TypeOK, Shape
  <2>2. CASE /\ pc[p] = "make" /\ Order[at[p]] \notin Dirs /\ kind[Order[at[p]]] = "none"
             /\ kind[Parent[Order[at[p]]]] = "dir"
             /\ kind' = [kind EXCEPT ![Order[at[p]]] = "file"]
    <3>1. at[p] \in 1..7
      BY <2>2 DEF IInv, PlaceOK
    <3>2. PICK x \in Name : x = Order[at[p]]
      BY <3>1, OrderNames
    <3>3. Right(x) = "file"
      BY <2>2, <3>2 DEF Right
    <3> QED BY <2>2, <3>2, <3>3, Create
  <2> QED BY <2>1, <2>2 DEF Fail
<1>5. /\ at' \in [Proc -> Nat \ {0}] /\ pc' \in [Proc -> Running \cup {"idle", "failed", "done"}]
      /\ made' \in [Proc -> SUBSET Name]
      /\ \A q \in Proc \ {p} : pc'[q] = pc[q] /\ at'[q] = at[q]
      /\ pc'[p] = "failed" /\ pc'[p] \notin Running /\ pc'[p] \notin {"look", "make", "flush"}
  BY <1>2, StopKeeps
<1>6. TypeOK'
  BY <1>1, <1>3, <1>4, <1>5 DEF IInv, TypeOK, Shape
<1> QED BY <1>3, <1>4, <1>5, <1>6, Frame

LEMMA FlushStep == ASSUME IInv, NEW p \in Proc, Flush(p) PROVE IInv'
<1>1. UNCHANGED <<kind, lines, pc, made, excuse, vouched>> /\ pc[p] = "flush"
  BY DEF Flush
<1>2. Keeps /\ KindsOK'
  BY <1>1, SameKind
<1>3. at[p] \in Nat /\ at[p] > 7
  BY <1>1 DEF IInv, TypeOK, PlaceOK
<1>4. at' = [at EXCEPT ![p] = at[p] + 1]
  BY DEF Flush
<1>5. /\ at' \in [Proc -> Nat \ {0}] /\ at'[p] = at[p] + 1
      /\ \A q \in Proc \ {p} : at'[q] = at[q]
  BY <1>3, <1>4 DEF IInv, TypeOK
<1>6. durable' \subseteq {x \in Name : kind'[x] # "none"}
  <2>1. durable' = durable \/ \E d : durable' = durable \cup In(d)
    BY DEF Flush
  <2> QED BY <1>1, <2>1 DEF IInv, TypeOK, In
<1>7. TypeOK'
  BY <1>1, <1>5, <1>6 DEF IInv, TypeOK
<1>8. Past(p)'
  <2>1. Past(p)
    BY <1>1 DEF IInv, PlaceOK, Running
  <2> SUFFICES ASSUME NEW i \in 1..7 PROVE Accepted(Order[i])'
    BY DEF Past
  <2>2. Accepted(Order[i])
    BY <1>3, <2>1 DEF Past
  <2> QED BY <1>2, <2>2, AcceptedStays, OrderNames
<1>9. pc'[p] = "flush" /\ at'[p] > 7
  BY <1>1, <1>3, <1>5
<1> QED BY <1>1, <1>2, <1>5, <1>7, <1>8, <1>9, Frame

LEMMA FinishStep == ASSUME IInv, NEW p \in Proc, Finish(p) PROVE IInv'
<1>1. pc[p] = "flush" /\ Stop(p, "done") /\ UNCHANGED <<kind, durable, lines, excuse>>
  BY DEF Finish, disk
<1>2. Keeps /\ KindsOK'
  BY <1>1, SameKind
<1>3. Whole'
  <2>1. at[p] \in Nat /\ at[p] > 7 /\ Past(p)
    BY <1>1 DEF IInv, TypeOK, PlaceOK, Running
  <2>2. \A i \in 1..7 : Accepted(Order[i])
    BY <2>1 DEF Past
  <2> QED BY <1>2, <2>2, AllAccepted, WholeStays DEF IInv
<1>4. /\ at' \in [Proc -> Nat \ {0}] /\ pc' \in [Proc -> Running \cup {"idle", "failed", "done"}]
      /\ made' \in [Proc -> SUBSET Name]
      /\ \A q \in Proc \ {p} : pc'[q] = pc[q] /\ at'[q] = at[q]
      /\ pc'[p] = "done" /\ pc'[p] \notin Running /\ pc'[p] \notin {"look", "make", "flush"}
  BY <1>1, StopKeeps
<1>5. vouched' \subseteq Name
  BY DEF Finish, IInv, TypeOK
<1>6. TypeOK'
  BY <1>1, <1>4, <1>5 DEF IInv, TypeOK
<1> QED BY <1>1, <1>2, <1>3, <1>4, <1>6, Frame

LEMMA KillStep == ASSUME IInv, NEW p \in Proc, Kill(p) PROVE IInv'
<1>1. Stop(p, "idle") /\ UNCHANGED <<kind, durable, lines, excuse, vouched>>
  BY DEF Kill, disk
<1>2. Keeps /\ KindsOK'
  BY <1>1, SameKind
<1>3. /\ at' \in [Proc -> Nat \ {0}] /\ pc' \in [Proc -> Running \cup {"idle", "failed", "done"}]
      /\ made' \in [Proc -> SUBSET Name]
      /\ \A q \in Proc \ {p} : pc'[q] = pc[q] /\ at'[q] = at[q]
      /\ pc'[p] = "idle" /\ pc'[p] \notin Running /\ pc'[p] \notin {"look", "make", "flush"}
  BY <1>1, StopKeeps
<1>4. TypeOK'
  BY <1>1, <1>3 DEF IInv, TypeOK
<1> QED BY <1>1, <1>2, <1>3, <1>4, Frame

\* A step that is not an init's leaves all of them where they are.
LEMMA OutsideFrame ==
  ASSUME IInv, Keeps, TypeOK', KindsOK', UNCHANGED <<pc, at, made, excuse>>
  PROVE  IInv'
<1>1. PlaceOK'
  <2> SUFFICES ASSUME NEW q \in Proc
               PROVE /\ pc'[q] \in {"look", "make"} => at'[q] \in 1..7
                     /\ pc'[q] = "flush" => at'[q] > 7
                     /\ pc'[q] \in Running => Past(q)'
    BY DEF PlaceOK, Running
  <2>1. pc'[q] \in Running => Past(q)'
    BY PastStays DEF IInv, PlaceOK
  <2> QED BY <2>1 DEF IInv, PlaceOK
<1>2. DoneOK'
  BY WholeStays DEF IInv, DoneOK
<1>3. FailsForAReason'
  BY DEF IInv, FailsForAReason, Keeps
<1> QED BY <1>1, <1>2, <1>3 DEF IInv

LEMMA UseStep == ASSUME IInv, Use PROVE IInv'
<1>1. UNCHANGED <<kind, pc, at, made, excuse, vouched>>
  BY DEF Use
<1>2. Keeps /\ KindsOK'
  BY <1>1, SameKind
<1>3. lines' \in 0..MaxLines
  BY StorageInitConstants DEF Use, IInv, TypeOK
<1>4. durable' \subseteq {x \in Name : kind'[x] # "none"}
  BY <1>1 DEF Use, In, IInv, TypeOK
<1>5. TypeOK'
  BY <1>1, <1>3, <1>4 DEF IInv, TypeOK
<1> QED BY <1>1, <1>2, <1>5, OutsideFrame

LEMMA ForeignStep == ASSUME IInv, Foreign PROVE IInv'
<1>1. UNCHANGED <<durable, lines, pc, at, made, excuse, vouched>>
  BY DEF Foreign
<1>2. PICK x \in Name \ {"above"} : /\ kind[x] = "none" /\ kind[Parent[x]] = "dir"
                                    /\ kind' = [kind EXCEPT ![x] = "foreign"]
  BY DEF Foreign
<1>3. Keeps /\ KindsOK' /\ Shape' /\ durable \subseteq {y \in Name : kind'[y] # "none"}
  BY <1>2, Create
<1>4. TypeOK'
  BY <1>1, <1>3 DEF IInv, TypeOK, Shape
<1> QED BY <1>1, <1>3, <1>4, OutsideFrame

\* A power failure takes whole subtrees, and no process is left.
LEMMA PowerLossStep == ASSUME IInv, PowerLoss PROVE IInv'
<1>1. PICK lost \in SUBSET Name :
        LET gone == {x \in Name : x \in lost \/ Above[x] \cap lost # {}} IN
        /\ kind' = [x \in Name |-> IF x \in gone THEN "none" ELSE kind[x]]
        /\ durable' = {x \in Name : kind'[x] # "none"}
        /\ lines' = IF "ledger" \in gone THEN 0 ELSE lines
        /\ vouched' = vouched \ gone
  BY DEF PowerLoss
<1> DEFINE gone == {x \in Name : x \in lost \/ Above[x] \cap lost # {}}
<1>2. \A x \in Name : kind'[x] = IF x \in gone THEN "none" ELSE kind[x]
  BY <1>1
<1>3. \A x \in Name \ {"above"} : Parent[x] \in gone => x \in gone
  <2> SUFFICES ASSUME NEW x \in Name \ {"above"}, Parent[x] \in gone PROVE x \in gone
    OBVIOUS
  <2>1. Parent[x] \in Above[x] /\ Above[Parent[x]] \subseteq Above[x]
    BY ParentFacts
  <2>2. Parent[x] \in lost \/ Above[Parent[x]] \cap lost # {}
    OBVIOUS
  <2>3. Above[x] \cap lost # {}
    BY <2>1, <2>2
  <2> QED BY <2>3
<1>4. /\ pc' = [p \in Proc |-> "idle"] /\ at' = [p \in Proc |-> 1]
      /\ made' = [p \in Proc |-> {}] /\ excuse' = [p \in Proc |-> FALSE]
  BY DEF PowerLoss
<1>5. KindsOK'
  BY <1>2 DEF IInv, KindsOK
<1>6. Shape'
  <2>1. kind' \in [Name -> {"none", "dir", "file", "foreign"}]
    <3>1. \A x \in Name : kind[x] \in {"none", "dir", "file", "foreign"}
      BY DEF IInv, TypeOK
    <3>2. kind' = [x \in Name |-> IF x \in gone THEN "none" ELSE kind[x]]
      BY <1>1
    <3> HIDE DEF gone
    <3> QED BY <3>1, <3>2
  <2>2. \A y \in Name \ {"above"} : kind'[y] # "none" => kind'[Parent[y]] = "dir"
    <3> SUFFICES ASSUME NEW y \in Name \ {"above"}, kind'[y] # "none"
                 PROVE kind'[Parent[y]] = "dir"
      OBVIOUS
    <3> HIDE DEF gone
    <3>1. y \notin gone /\ Parent[y] \notin gone /\ kind[y] # "none"
      BY <1>2, <1>3
    <3>2. kind[Parent[y]] = "dir" /\ Parent[y] \in Name
      BY <3>1, ParentFacts DEF IInv, TypeOK
    <3> QED BY <1>2, <3>1, <3>2
  <2> QED BY <2>1, <2>2 DEF Shape
<1>7. TypeOK'
  <2>1. lines' \in 0..MaxLines
    BY <1>1, StorageInitConstants DEF IInv, TypeOK
  <2>2. vouched' \subseteq Name /\ durable' \subseteq {x \in Name : kind'[x] # "none"}
    BY <1>1 DEF IInv, TypeOK
  <2> QED BY <1>4, <1>6, <2>1, <2>2 DEF TypeOK, Shape
<1>8. PlaceOK' /\ DoneOK' /\ FailsForAReason'
  BY <1>4 DEF PlaceOK, DoneOK, FailsForAReason, Running
<1> QED BY <1>5, <1>7, <1>8 DEF IInv

LEMMA StutterStep == ASSUME IInv, UNCHANGED vars PROVE IInv'
<1>1. UNCHANGED <<kind, durable, lines, pc, at, made, excuse, vouched>>
  BY DEF vars
<1>2. Keeps /\ KindsOK'
  BY <1>1, SameKind
<1>3. TypeOK'
  BY <1>1 DEF IInv, TypeOK
<1> QED BY <1>1, <1>2, <1>3, OutsideFrame

LEMMA StepIInv == IInv /\ [Next]_vars => IInv'
<1> SUFFICES ASSUME IInv, [Next]_vars PROVE IInv'
  OBVIOUS
<1>1. ASSUME NEW p \in Proc, Step(p) PROVE IInv'
  BY <1>1, StartStep, LookStep, MakeStep, FlushStep, FinishStep, FailStep, KillStep DEF Step
<1> QED BY <1>1, UseStep, ForeignStep, PowerLossStep, StutterStep DEF Next

-----------------------------------------------------------------------------
\* The invariant holds for every set of processes and all bounds.
THEOREM Invariance == Spec => []IInv
<1>1. Init => IInv
  BY InitIInv
<1>2. IInv /\ [Next]_vars => IInv'
  BY StepIInv
<1> QED BY <1>1, <1>2, PTL DEF Spec

\* The variables have their types, and what exists is in a directory that exists.
THEOREM TypeCorrect == Spec => []TypeOK
<1>1. IInv => TypeOK
  BY DEF IInv
<1> QED BY <1>1, Invariance, PTL

\* An init that reports success has left a complete layout.
THEOREM SuccessTheorem == Spec => []SuccessIsWhole
<1>1. IInv => SuccessIsWhole
  BY DEF IInv, DoneOK, SuccessIsWhole
<1> QED BY <1>1, Invariance, PTL

\* An init fails only by a failing call or an object of the wrong kind.
THEOREM FailureTheorem == Spec => []FailsForAReason
<1>1. IInv => FailsForAReason
  BY DEF IInv
<1> QED BY <1>1, Invariance, PTL

\* No step but a power failure takes a name or a record.
LEMMA StepKeeps ==
  ASSUME IInv, NEW p \in Proc, Step(p)
  PROVE  Keeps /\ lines' = lines
<1>1. CASE Start(p) \/ Look(p) \/ Flush(p) \/ Finish(p) \/ Kill(p)
  BY <1>1 DEF Start, Look, Flush, Finish, Kill, disk, Keeps
<1>2. CASE Make(p)
  <2>1. lines' = lines
    BY <1>2 DEF Make
  <2>2. at[p] \in 1..7
    BY <1>2 DEF Make, IInv, PlaceOK
  <2>3. PICK x \in Name : x = Order[at[p]]
    BY <2>2, OrderNames
  <2>4. UNCHANGED kind \/ (kind[x] = "none" /\ kind' = [kind EXCEPT ![x] = Right(x)])
    BY <1>2, <2>3 DEF Make
  <2>5. Keeps
    BY <2>4 DEF Keeps, IInv, TypeOK
  <2> QED BY <2>1, <2>5
<1>3. CASE Fail(p)
  <2>1. lines' = lines
    BY <1>3 DEF Fail
  <2>2. CASE UNCHANGED kind
    BY <2>1, <2>2 DEF Keeps
  <2>3. CASE /\ pc[p] = "make" /\ kind[Order[at[p]]] = "none"
             /\ kind' = [kind EXCEPT ![Order[at[p]]] = "file"]
    BY <2>1, <2>3 DEF Keeps, IInv, TypeOK
  <2> QED BY <1>3, <2>2, <2>3 DEF Fail
<1> QED BY <1>1, <1>2, <1>3 DEF Step

\* Initialising again takes nothing away from a store that is in use.
THEOREM NothingTaken == Spec => NothingIsTaken
<1>1. IInv /\ [Next]_vars =>
        [~PowerLoss => lines' >= lines /\ \A x \in Name : kind[x] # "none" => kind'[x] = kind[x]]_vars
  <2> SUFFICES ASSUME IInv, Next, ~PowerLoss
               PROVE lines' >= lines /\ Keeps
    BY DEF Keeps
  <2>1. lines \in Nat
    BY StorageInitConstants DEF IInv, TypeOK
  <2>2. ASSUME NEW p \in Proc, Step(p) PROVE lines' >= lines /\ Keeps
    BY <2>1, <2>2, StepKeeps
  <2>3. CASE Use
    BY <2>1, <2>3 DEF Use, Keeps
  <2>4. CASE Foreign
    BY <2>1, <2>4 DEF Foreign, Keeps, IInv, TypeOK
  <2> QED BY <2>2, <2>3, <2>4 DEF Next
<1> QED BY <1>1, Invariance, PTL DEF Spec, NothingIsTaken

-----------------------------------------------------------------------------
(* What an init that reported success has made is on the disk.             *)
(*                                                                         *)
(* A process that flushes has behind it the directories that it needed so  *)
(* far, and a name of an existing object is flushed with its directory.    *)

FlushedOK ==
  \A p \in Proc : pc[p] = "flush" =>
    \A i \in 1..6 : i + 7 < at[p] =>
      \A x \in made[p] : x \in Flushes[i].of /\ Parent[x] = Flushes[i].dir => x \in durable

MadeOK == \A p \in Proc : \A x \in made[p] : x # "above" /\ kind[x] # "none"

VInv == IInv /\ vouched \subseteq durable /\ MadeOK /\ FlushedOK

\* Every name that can be made is flushed somewhere.
LEMMA FlushesCover ==
  /\ Len(Flushes) = 6
  /\ \A x \in Name \ {"above"} : \E i \in 1..6 : x \in Flushes[i].of /\ Parent[x] = Flushes[i].dir
<1>1. /\ Flushes[1] = [of |-> {"ledger", "lock"}, dir |-> "locks"]
      /\ Flushes[2] = [of |-> {"ledger", "lock"}, dir |-> "root"]
      /\ Flushes[3] = [of |-> {"objects"}, dir |-> "trash"]
      /\ Flushes[4] = [of |-> {"trash"}, dir |-> "root"]
      /\ Flushes[5] = [of |-> {"locks"}, dir |-> "root"]
      /\ Flushes[6] = [of |-> {"root"}, dir |-> "above"]
      /\ Len(Flushes) = 6
  BY DEF Flushes
<1>2. /\ Parent["root"] = "above" /\ Parent["locks"] = "root" /\ Parent["trash"] = "root"
      /\ Parent["objects"] = "trash" /\ Parent["ledger"] = "root" /\ Parent["lock"] = "locks"
  BY DEF Parent
<1>3. ASSUME NEW x \in Name \ {"above"}
      PROVE \E i \in 1..6 : x \in Flushes[i].of /\ Parent[x] = Flushes[i].dir
  <2>1. 1 \in 1..6 /\ 2 \in 1..6 /\ 3 \in 1..6 /\ 4 \in 1..6 /\ 5 \in 1..6 /\ 6 \in 1..6
    OBVIOUS
  <2>2. CASE x = "root"
    BY <1>1, <1>2, <2>1, <2>2
  <2>3. CASE x = "locks"
    BY <1>1, <1>2, <2>1, <2>3
  <2>4. CASE x = "trash"
    BY <1>1, <1>2, <2>1, <2>4
  <2>5. CASE x = "objects"
    BY <1>1, <1>2, <2>1, <2>5
  <2>6. CASE x = "ledger"
    BY <1>1, <1>2, <2>1, <2>6
  <2>7. CASE x = "lock"
    BY <1>1, <1>2, <2>1, <2>7
  <2> QED BY <2>2, <2>3, <2>4, <2>5, <2>6, <2>7 DEF Name
<1> QED BY <1>1, <1>3

LEMMA InitVInv == Init => VInv
<1> SUFFICES ASSUME Init PROVE VInv
  OBVIOUS
<1>1. vouched \subseteq durable /\ MadeOK /\ FlushedOK
  BY DEF Init, MadeOK, FlushedOK
<1> QED BY <1>1, InitIInv DEF VInv

\* A step of p that is no flush and does not finish keeps the rest of the invariant.
LEMMA VFrame ==
  ASSUME VInv, IInv', Keeps, NEW p \in Proc, durable \subseteq durable', UNCHANGED vouched,
         \A q \in Proc \ {p} : pc'[q] = pc[q] /\ at'[q] = at[q] /\ made'[q] = made[q],
         \A x \in made'[p] : x # "above" /\ kind'[x] # "none",
         pc'[p] = "flush" => at'[p] <= 8
  PROVE  VInv'
<1>1. MadeOK'
  <2> SUFFICES ASSUME NEW q \in Proc, NEW x \in made'[q] PROVE x # "above" /\ kind'[x] # "none"
    BY DEF MadeOK
  <2>1. CASE q = p
    BY <2>1
  <2>2. CASE q # p
    BY <2>2 DEF VInv, MadeOK, Keeps, IInv, TypeOK
  <2> QED BY <2>1, <2>2
<1>2. FlushedOK'
  <2> SUFFICES ASSUME NEW q \in Proc, pc'[q] = "flush", NEW i \in 1..6, i + 7 < at'[q],
                      NEW x \in made'[q], x \in Flushes[i].of, Parent[x] = Flushes[i].dir
               PROVE x \in durable'
    BY DEF FlushedOK
  <2>1. q # p
    <3>1. at'[q] \in Nat
      BY DEF IInv, TypeOK
    <3> QED BY <3>1
  <2> QED BY <2>1 DEF VInv, FlushedOK
<1> QED BY <1>1, <1>2 DEF VInv

LEMMA AdvanceToFlush ==
  ASSUME IInv, NEW p \in Proc, Advance(p), pc[p] \in {"look", "make"}
  PROVE  /\ pc'[p] = "flush" => at'[p] <= 8
         /\ \A q \in Proc \ {p} : pc'[q] = pc[q] /\ at'[q] = at[q]
<1>1. at[p] \in 1..7 /\ at \in [Proc -> Nat \ {0}]
  BY DEF IInv, PlaceOK, TypeOK
<1>2. at'[p] = at[p] + 1 /\ \A q \in Proc \ {p} : at'[q] = at[q]
  BY <1>1 DEF Advance
<1>3. \A q \in Proc \ {p} : pc'[q] = pc[q]
  BY DEF Advance, Goto, IInv, TypeOK
<1> QED BY <1>1, <1>2, <1>3

LEMMA StopMade ==
  ASSUME IInv, NEW p \in Proc, NEW e \in {"idle", "failed", "done"}, Stop(p, e)
  PROVE  /\ made'[p] = {} /\ pc'[p] # "flush"
         /\ \A q \in Proc \ {p} : pc'[q] = pc[q] /\ at'[q] = at[q] /\ made'[q] = made[q]
BY DEF IInv, TypeOK, Stop, Goto

LEMMA VStart == ASSUME VInv, IInv', NEW p \in Proc, Start(p) PROVE VInv'
<1>1. UNCHANGED <<kind, durable, made, vouched>>
  BY DEF Start, disk
<1>2. pc'[p] # "flush" /\ \A q \in Proc \ {p} : pc'[q] = pc[q] /\ at'[q] = at[q]
  BY DEF Start, Goto, VInv, IInv, TypeOK
<1>3. \A x \in made'[p] : x # "above" /\ kind'[x] # "none"
  BY <1>1 DEF VInv, MadeOK
<1>4. Keeps
  BY <1>1 DEF Keeps
<1> QED BY <1>1, <1>2, <1>3, <1>4, VFrame

LEMMA VLook == ASSUME VInv, IInv', NEW p \in Proc, Look(p) PROVE VInv'
<1>1. UNCHANGED <<kind, durable, vouched>> /\ pc[p] = "look"
  BY DEF Look, disk
<1>2. Keeps
  BY <1>1 DEF Keeps
<1>3. CASE Goto(p, "make") /\ UNCHANGED <<at, made>>
  <2>1. pc'[p] # "flush" /\ \A q \in Proc \ {p} : pc'[q] = pc[q]
    BY <1>3 DEF Goto, VInv, IInv, TypeOK
  <2> QED BY <1>1, <1>2, <1>3, <2>1, VFrame DEF VInv, MadeOK
<1>4. CASE Advance(p) /\ UNCHANGED made
  <2>1. /\ pc'[p] = "flush" => at'[p] <= 8
        /\ \A q \in Proc \ {p} : pc'[q] = pc[q] /\ at'[q] = at[q]
    BY <1>1, <1>4, AdvanceToFlush DEF VInv
  <2> QED BY <1>1, <1>2, <1>4, <2>1, VFrame DEF VInv, MadeOK
<1>5. CASE Stop(p, "failed")
  BY <1>1, <1>2, <1>5, StopMade, VFrame DEF VInv
<1> QED BY <1>3, <1>4, <1>5 DEF Look

LEMMA VMake == ASSUME VInv, IInv', NEW p \in Proc, Make(p) PROVE VInv'
<1>1. UNCHANGED <<durable, vouched>> /\ pc[p] = "make"
  BY DEF Make
<1>2. Keeps
  BY StepKeeps DEF Step, VInv
<1>3. PICK x \in Name : x = Order[at[p]]
  BY <1>1, OrderNames DEF VInv, IInv, PlaceOK
<1>4. \A y \in made[p] : y \in Name /\ y # "above" /\ kind[y] # "none" /\ kind'[y] # "none"
  BY <1>2 DEF VInv, MadeOK, Keeps, IInv, TypeOK
<1>5. CASE /\ kind' = [kind EXCEPT ![x] = Right(x)]
           /\ made' = [made EXCEPT ![p] = @ \cup ({x} \ {"above"})]
           /\ Advance(p)
  <2>1. kind'[x] # "none"
    BY <1>5, RightFacts DEF VInv, IInv, TypeOK
  <2>2. /\ made'[p] = made[p] \cup ({x} \ {"above"})
        /\ \A q \in Proc \ {p} : made'[q] = made[q]
    BY <1>5 DEF VInv, IInv, TypeOK
  <2>3. \A y \in made'[p] : y # "above" /\ kind'[y] # "none"
    BY <1>4, <2>1, <2>2
  <2>4. /\ pc'[p] = "flush" => at'[p] <= 8
        /\ \A q \in Proc \ {p} : pc'[q] = pc[q] /\ at'[q] = at[q]
    BY <1>1, <1>5, AdvanceToFlush DEF VInv
  <2> QED BY <1>1, <1>2, <2>2, <2>3, <2>4, VFrame
<1>6. CASE /\ kind[x] # "none"
           /\ made' = IF x = "root" THEN [made EXCEPT ![p] = @ \cup {x}] ELSE made
           /\ Advance(p) /\ UNCHANGED kind
  <2>1. \A q \in Proc \ {p} : made'[q] = made[q]
    BY <1>6 DEF VInv, IInv, TypeOK
  <2>2. \A y \in made'[p] : y # "above" /\ kind'[y] # "none"
    <3>1. CASE x = "root"
      <4>1. made'[p] = made[p] \cup {x}
        BY <1>6, <3>1 DEF VInv, IInv, TypeOK
      <4> QED BY <1>4, <1>6, <3>1, <4>1
    <3>2. CASE x # "root"
      BY <1>4, <1>6, <3>2
    <3> QED BY <3>1, <3>2
  <2>3. /\ pc'[p] = "flush" => at'[p] <= 8
        /\ \A q \in Proc \ {p} : pc'[q] = pc[q] /\ at'[q] = at[q]
    BY <1>1, <1>6, AdvanceToFlush DEF VInv
  <2> QED BY <1>1, <1>2, <2>1, <2>2, <2>3, VFrame
<1>7. CASE Stop(p, "failed")
  BY <1>1, <1>2, <1>7, StopMade, VFrame DEF VInv
<1> QED BY <1>3, <1>5, <1>6, <1>7 DEF Make

LEMMA VEnd == ASSUME VInv, IInv', NEW p \in Proc, Fail(p) \/ Kill(p) PROVE VInv'
<1>1. UNCHANGED <<durable, vouched>>
  BY DEF Fail, Kill, disk
<1>2. Keeps
  BY StepKeeps DEF Step, VInv
<1>3. Stop(p, "failed") \/ Stop(p, "idle")
  BY DEF Fail, Kill
<1> QED BY <1>1, <1>2, <1>3, StopMade, VFrame DEF VInv

LEMMA VFlush == ASSUME VInv, IInv', NEW p \in Proc, Flush(p) PROVE VInv'
<1> DEFINE f == Flushes[at[p] - Len(Order)]
<1>1. UNCHANGED <<kind, pc, made, vouched>> /\ pc[p] = "flush"
  BY DEF Flush
<1>2. durable' = IF made[p] \cap f.of # {} THEN durable \cup In(f.dir) ELSE durable
  BY DEF Flush
<1>3. durable \subseteq durable'
  BY <1>2
<1>4. at[p] \in Nat /\ at'[p] = at[p] + 1 /\ \A q \in Proc \ {p} : at'[q] = at[q]
  BY DEF Flush, VInv, IInv, TypeOK
<1>5. MadeOK'
  BY <1>1 DEF VInv, MadeOK
<1>6. ASSUME NEW i \in 1..6, i + 7 = at[p],
             NEW x \in made[p], x \in Flushes[i].of, Parent[x] = Flushes[i].dir
      PROVE x \in durable'
  <2>1. Flushes[i] = f
    <3>1. at[p] - Len(Order) = i
      BY <1>4, <1>6, OrderFacts
    <3> QED BY <3>1
  <2> HIDE DEF f
  <2>2. x \in Name /\ kind[x] # "none"
    BY DEF VInv, MadeOK, IInv, TypeOK
  <2>3. x \in In(f.dir)
    BY <1>6, <2>1, <2>2 DEF In
  <2>4. made[p] \cap f.of # {}
    BY <1>6, <2>1
  <2> QED BY <1>2, <2>3, <2>4
<1>7. FlushedOK'
  <2> SUFFICES ASSUME NEW q \in Proc, pc'[q] = "flush", NEW i \in 1..6, i + 7 < at'[q],
                      NEW x \in made'[q], x \in Flushes[i].of, Parent[x] = Flushes[i].dir
               PROVE x \in durable'
    BY DEF FlushedOK
  <2>1. CASE q # p
    BY <1>1, <1>3, <1>4, <2>1 DEF VInv, FlushedOK
  <2>2. CASE q = p /\ i + 7 < at[p]
    BY <1>1, <1>3, <2>2 DEF VInv, FlushedOK
  <2>3. CASE q = p /\ i + 7 = at[p]
    BY <1>1, <1>6, <2>3
  <2> QED BY <1>4, <2>1, <2>2, <2>3
<1> QED BY <1>1, <1>3, <1>5, <1>7 DEF VInv

LEMMA VFinish == ASSUME VInv, IInv', NEW p \in Proc, Finish(p) PROVE VInv'
<1>1. /\ UNCHANGED <<kind, durable>> /\ pc[p] = "flush" /\ Stop(p, "done")
      /\ vouched' = vouched \cup made[p]
  BY DEF Finish, disk
<1>2. at[p] \in Nat /\ at[p] > 13
  BY OrderFacts, FlushesCover DEF Finish, VInv, IInv, TypeOK
<1>3. made[p] \subseteq durable
  <2> SUFFICES ASSUME NEW x \in made[p] PROVE x \in durable
    OBVIOUS
  <2>1. x \in Name \ {"above"}
    BY DEF VInv, MadeOK, IInv, TypeOK
  <2>2. PICK i \in 1..6 : x \in Flushes[i].of /\ Parent[x] = Flushes[i].dir
    BY <2>1, FlushesCover
  <2>3. i + 7 < at[p]
    BY <1>2
  <2> QED BY <1>1, <2>2, <2>3 DEF VInv, FlushedOK
<1>4. /\ made'[p] = {} /\ pc'[p] # "flush"
      /\ \A q \in Proc \ {p} : pc'[q] = pc[q] /\ at'[q] = at[q] /\ made'[q] = made[q]
  BY <1>1, StopMade DEF VInv
<1>5. MadeOK'
  BY <1>1, <1>4 DEF VInv, MadeOK
<1>6. FlushedOK'
  BY <1>1, <1>4 DEF VInv, FlushedOK
<1> QED BY <1>1, <1>3, <1>5, <1>6 DEF VInv

\* A step that is no init's.
LEMMA VOutside ==
  ASSUME VInv, IInv', Keeps, durable \subseteq durable', UNCHANGED <<pc, at, made, vouched>>
  PROVE  VInv'
<1>1. MadeOK'
  BY DEF VInv, MadeOK, Keeps, IInv, TypeOK
<1>2. FlushedOK'
  BY DEF VInv, FlushedOK
<1> QED BY <1>1, <1>2 DEF VInv

LEMMA VPowerLoss == ASSUME VInv, IInv', PowerLoss PROVE VInv'
<1>1. PICK lost \in SUBSET Name : lost \cap durable = {} /\
        LET gone == {x \in Name : x \in lost \/ Above[x] \cap lost # {}} IN
        /\ kind' = [x \in Name |-> IF x \in gone THEN "none" ELSE kind[x]]
        /\ durable' = {x \in Name : kind'[x] # "none"}
        /\ vouched' = vouched \ gone
  BY DEF PowerLoss
<1>2. vouched' \subseteq durable'
  BY <1>1 DEF VInv, IInv, TypeOK
<1>3. pc' = [p \in Proc |-> "idle"] /\ made' = [p \in Proc |-> {}]
  BY DEF PowerLoss
<1> QED BY <1>2, <1>3 DEF VInv, MadeOK, FlushedOK

LEMMA StepVInv == VInv /\ [Next]_vars => VInv'
<1> SUFFICES ASSUME VInv, [Next]_vars PROVE VInv'
  OBVIOUS
<1>1. IInv /\ IInv'
  BY StepIInv DEF VInv
<1>2. ASSUME NEW p \in Proc, Step(p) PROVE VInv'
  BY <1>1, <1>2, VStart, VLook, VMake, VEnd, VFlush, VFinish DEF Step
<1>3. CASE Use
  BY <1>1, <1>3, VOutside DEF Use, Keeps
<1>4. CASE Foreign
  BY <1>1, <1>4, VOutside DEF Foreign, Keeps, IInv, TypeOK
<1>5. CASE PowerLoss
  BY <1>1, <1>5, VPowerLoss
<1>6. CASE UNCHANGED vars
  BY <1>1, <1>6, VOutside DEF vars, Keeps
<1> QED BY <1>2, <1>3, <1>4, <1>5, <1>6 DEF Next

\* Reported success is durable: what an init made goes only with a directory
\* above it that no successful init had made.
THEOREM SuccessIsDurable == Spec => VouchedSurvives
<1>1. Init => VInv
  BY InitVInv
<1>2. VInv /\ [Next]_vars => VInv'
  BY StepVInv
<1>3. VInv /\ [Next]_vars =>
        [\A x \in vouched : kind'[x] = "none" =>
            \E y \in Above[x] : y \notin vouched /\ kind[y] # "none" /\ kind'[y] = "none"]_vars
  <2> SUFFICES ASSUME VInv, Next, NEW x \in vouched, kind'[x] = "none"
               PROVE \E y \in Above[x] : y \notin vouched /\ kind[y] # "none" /\ kind'[y] = "none"
    OBVIOUS
  <2>1. x \in Name /\ x \in durable /\ kind[x] # "none"
    BY DEF VInv, IInv, TypeOK
  <2>2. ~Keeps
    BY <2>1 DEF Keeps
  <2>3. PowerLoss
    <3>1. ASSUME NEW p \in Proc, Step(p) PROVE FALSE
      BY <2>2, <3>1, StepKeeps DEF VInv
    <3>2. ~Use /\ ~Foreign
      BY <2>2 DEF Use, Foreign, Keeps, VInv, IInv, TypeOK
    <3> QED BY <3>1, <3>2 DEF Next
  <2>4. PICK lost \in SUBSET {y \in Name \ durable : kind[y] # "none"} :
          LET gone == {y \in Name : y \in lost \/ Above[y] \cap lost # {}} IN
          kind' = [y \in Name |-> IF y \in gone THEN "none" ELSE kind[y]]
    BY <2>3 DEF PowerLoss
  <2>5. Above[x] \cap lost # {}
    BY <2>1, <2>4
  <2>6. PICK y \in Above[x] : y \in lost
    BY <2>5
  <2>7. kind'[y] = "none"
    BY <2>4, <2>6
  <2> QED BY <2>4, <2>6, <2>7 DEF VInv
<1> QED BY <1>1, <1>2, <1>3, PTL DEF Spec, VouchedSurvives
=============================================================================
