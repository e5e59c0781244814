----------------------------- MODULE AuditProofs -----------------------------
(***************************************************************************)
(* Theorems about the audit, for ledgers of any length about any number of *)
(* entries: its errors are exact, what it lists is true, sound entries and *)
(* payloads are not hidden by damage elsewhere.                            *)
(*                                                                         *)
(* The audit is a function of the lines and the object directories, so the *)
(* only invariant is that these have their types.  What the loops compute  *)
(* is shown by induction over the lines read so far, which rests on every  *)
(* set of numbers having a least element.                                  *)
(***************************************************************************)
EXTENDS Audit, WellFoundedInduction, TLAPS

Typed == log \in Seq(Lines) /\ box \in [Entry -> Boxes]

Codes == {"malformed_ledger", "duplicate_event_id", "impossible_transition",
          "orphan_payload", "storage_failure", "unsupported_kind", "payload_missing"}
Errs == [code : Codes, entry : Entry \cup {None}]
Reports ==
  [ids : SUBSET Event, records : Seq(ValidLines), entries : [Entry -> Seq(ValidLines)],
   errors : SUBSET Errs, tainted : SUBSET Entry]

\* Every entry that is dropped is named by an error.
Blamed(r) == \A e \in r.tainted : \E x \in r.errors : x.entry = e

\* What the loop of _read_records has found after i lines.
ReadSoFar(lines, r, i) ==
  /\ r \in Reports
  /\ r.entries = [e \in Entry |-> << >>]
  /\ r.ids = {lines[j].event : j \in 1..i} \ {None}
  /\ \A e \in Entry :
       e \in r.tainted <=> \E j \in 1..i : lines[j].entry = e /\ ~Counts(lines, j)
  /\ r.errors = {} <=> \A j \in 1..i : Counts(lines, j)
  /\ Blamed(r)
  /\ \A e \in Entry \ r.tainted : About(r.records, e) = Telling(lines, e)[i]

\* What the loop of _replay has made of the first k records of r.
ReplayedSoFar(r, s, k) ==
  /\ s \in Reports
  /\ \A e \in Entry :
       e \in s.tainted <=> e \in r.tainted \/ ~OneLife(Telling(r.records, e)[k])
  /\ s.errors = {} <=>
       r.errors = {} /\ \A e \in Entry : OneLife(Telling(r.records, e)[k])
  /\ Blamed(s)
  /\ \A e \in Entry :
       OneLife(Telling(r.records, e)[k]) => s.entries[e] = Telling(r.records, e)[k]

-----------------------------------------------------------------------------
(***************************************************************************)
(* Induction, and functions that are defined by recursion.                 *)
(***************************************************************************)

\* Every set of numbers has a least element.
LEMMA LeastOf ==
  ASSUME NEW T \in SUBSET Nat, T # {}
  PROVE  \E m \in T : \A n \in T : m <= n
<1> DEFINE R == {ss \in Nat \X Nat : ss[1] < ss[2]}
<1>1. IsWellFoundedOn(R, Nat)
  BY NatLessThanWellFounded, Zenon DEF OpToRel
<1>2. \A x, y \in Nat : y < x => <<y, x>> \in R
  OBVIOUS
<1> HIDE DEF R
<1>3. PICK m \in T : \A n \in T : ~(<<n, m>> \in R)
  BY <1>1, WFMin, Zenon
<1>4. \A n \in T : n \in Nat /\ m \in Nat /\ ~(n < m)
  BY <1>2, <1>3
<1> QED BY <1>4

\* A set that is entered at 0 and never left holds every number up to n.
LEMMA UpTo ==
  ASSUME NEW n \in Nat, NEW S, 0 \in S, \A i \in 0..n : i < n /\ i \in S => i + 1 \in S
  PROVE  \A i \in 0..n : i \in S
<1> DEFINE T == (0..n) \ S
<1> SUFFICES ASSUME T # {} PROVE FALSE
  OBVIOUS
<1>1. PICK m \in T : \A i \in T : m <= i
  <2>1. T \in SUBSET Nat
    OBVIOUS
  <2> HIDE DEF T
  <2> QED BY <2>1, LeastOf
<1>2. m # 0 /\ m - 1 \in 0..n /\ m - 1 < n /\ m - 1 \notin T
  BY <1>1
<1> QED BY <1>1, <1>2

\* The solutions of a recursion over the numbers up to n.
Solutions(n, V, a, F) ==
  {g \in [0..n -> V] : g[0] = a /\ \A i \in 1..n : g[i] = F[i][g[i - 1]]}

LEMMA Recursion ==
  ASSUME NEW n \in Nat, NEW V, NEW a \in V, NEW F \in [1..n -> [V -> V]]
  PROVE  Solutions(n, V, a, F) # {}
<1> DEFINE Solves(g, m) == \A i \in 0..m : g[i] = IF i = 0 THEN a ELSE F[i][g[i - 1]]
           T == {m \in 0..n : \E g \in [0..m -> V] : Solves(g, m)}
<1>1. 0 \in T
  <2> DEFINE z == [i \in 0..0 |-> a]
  <2>1. z \in [0..0 -> V] /\ Solves(z, 0) /\ 0 \in 0..n
    OBVIOUS
  <2> HIDE DEF z, Solves
  <2> QED BY <2>1
<1>2. ASSUME NEW m \in 0..n, m < n, m \in T PROVE m + 1 \in T
  <2>1. PICK g \in [0..m -> V] : Solves(g, m)
    BY <1>2
  <2> DEFINE h == [i \in 0..m + 1 |-> IF i = m + 1 THEN F[m + 1][g[m]] ELSE g[i]]
  <2>2. F[m + 1][g[m]] \in V
    BY <1>2
  <2>3. h \in [0..m + 1 -> V]
    BY <2>2
  <2>4. h[m + 1] = F[m + 1][g[m]] /\ \A i \in 0..m : h[i] = g[i]
    OBVIOUS
  <2> HIDE DEF h
  <2>5. \A i \in 0..m : i # 0 => i - 1 \in 0..m
    OBVIOUS
  <2>6. ASSUME NEW i \in 0..m + 1 PROVE h[i] = IF i = 0 THEN a ELSE F[i][h[i - 1]]
    <3>1. CASE i = m + 1
      <4>1. i # 0 /\ i - 1 = m /\ m \in 0..m
        BY <3>1
      <4> QED BY <2>4, <3>1, <4>1
    <3>2. CASE i # m + 1
      <4>1. i \in 0..m
        BY <3>2
      <4>2. g[i] = IF i = 0 THEN a ELSE F[i][g[i - 1]]
        BY <2>1, <4>1
      <4> QED BY <2>4, <2>5, <4>1, <4>2
    <3> QED BY <3>1, <3>2
  <2>7. Solves(h, m + 1)
    BY <2>6
  <2>8. m + 1 \in 0..n
    BY <1>2
  <2> HIDE DEF Solves
  <2> QED BY <2>3, <2>7, <2>8
<1>3. n \in T
  <2> HIDE DEF T
  <2>1. \A i \in 0..n : i < n /\ i \in T => i + 1 \in T
    BY <1>2
  <2>2. \A i \in 0..n : i \in T
    BY <1>1, <2>1, UpTo
  <2> QED BY <2>2
<1>4. PICK g \in [0..n -> V] : Solves(g, n)
  BY <1>3
<1>5. 0 \in 0..n /\ \A i \in 1..n : i \in 0..n /\ i # 0
  OBVIOUS
<1> QED BY <1>4, <1>5 DEF Solutions

-----------------------------------------------------------------------------
(***************************************************************************)
(* The lines of an entry.                                                  *)
(***************************************************************************)

\* The recursion of Telling, over lines of whatever kind.
LEMMA TellingIs ==
  ASSUME NEW S, NEW lines \in Seq(S), NEW e
  PROVE  /\ Telling(lines, e) \in [0..Len(lines) -> Seq(S)]
         /\ Telling(lines, e)[0] = << >>
         /\ \A i \in 1..Len(lines) :
              Telling(lines, e)[i] = IF lines[i].entry = e
                                       THEN Append(Telling(lines, e)[i - 1], lines[i])
                                       ELSE Telling(lines, e)[i - 1]
<1> DEFINE n == Len(lines)
           Step(v, i) == IF lines[i].entry = e THEN Append(v, lines[i]) ELSE v
           Solves(g) == g = [i \in 0..n |-> IF i = 0 THEN << >>
             ELSE IF lines[i].entry = e THEN Append(g[i - 1], lines[i]) ELSE g[i - 1]]
           F == [i \in 1..n |-> [v \in Seq(S) |-> Step(v, i)]]
<1>1. n \in Nat /\ << >> \in Seq(S) /\ F \in [1..n -> [Seq(S) -> Seq(S)]]
  OBVIOUS
<1>2. \A i \in 1..n : \A v \in Seq(S) : F[i][v] = Step(v, i)
  OBVIOUS
<1>3. \A i \in 0..n : i # 0 => i - 1 \in 0..n /\ i \in 1..n
  BY <1>1
<1>4. PICK g \in [0..n -> Seq(S)] : g[0] = << >> /\ \A i \in 1..n : g[i] = F[i][g[i - 1]]
  <2> DEFINE V == Seq(S)
             a == << >>
  <2>1. n \in Nat /\ a \in V /\ F \in [1..n -> [V -> V]]
    BY <1>1
  <2> HIDE DEF F, n, V, a
  <2>2. Solutions(n, V, a, F) # {}
    BY <2>1, Recursion
  <2> QED BY <2>2 DEF V, a, Solutions
<1>5. \A i \in 1..n : i - 1 \in 0..n /\ g[i - 1] \in Seq(S)
  BY <1>1
<1>6. Solves(g)
  <2>1. \A i \in 1..n : g[i] = Step(g[i - 1], i)
    <3> HIDE DEF F, n, Step
    <3> QED BY <1>2, <1>4, <1>5
  <2>2. \A i \in 0..n : i = 0 \/ i \in 1..n
    BY <1>1
  <2>3. g = [i \in 0..n |-> g[i]]
    OBVIOUS
  <2> HIDE DEF n
  <2> QED BY <1>4, <2>1, <2>2, <2>3
<1>7. Telling(lines, e) = CHOOSE f : Solves(f)
  BY DEF Telling
<1>8. Solves(Telling(lines, e))
  <2> HIDE DEF Solves
  <2> QED BY <1>6, <1>7
<1> DEFINE t == Telling(lines, e)
<1>9. t = [i \in 0..n |-> IF i = 0 THEN << >>
             ELSE IF lines[i].entry = e THEN Append(t[i - 1], lines[i]) ELSE t[i - 1]]
  BY <1>8
<1> HIDE DEF t, F
<1>10. t[0] = << >> /\ \A i \in 1..n : t[i] = Step(t[i - 1], i)
  <2>1. 0 \in 0..n /\ \A i \in 1..n : i \in 0..n /\ i # 0
    BY <1>1
  <2> HIDE DEF n
  <2> QED BY <1>9, <2>1, Zenon
<1>11. \A i \in 0..n : t[i] \in Seq(S)
  <2> DEFINE T == {i \in 0..n : t[i] \in Seq(S)}
  <2>1. 0 \in T
    <3>1. 0 \in 0..n
      BY <1>1
    <3> HIDE DEF n
    <3> QED BY <1>1, <1>10, <3>1
  <2>2. \A i \in 0..n : i < n /\ i \in T => i + 1 \in T
    <3> SUFFICES ASSUME NEW i \in 0..n, i < n, t[i] \in Seq(S) PROVE t[i + 1] \in Seq(S)
      BY <1>1
    <3>1. i + 1 \in 1..n /\ (i + 1) - 1 = i /\ lines[i + 1] \in S
      BY <1>1
    <3>2. t[i + 1] = Step(t[i], i + 1)
      BY <1>10, <3>1
    <3> QED BY <3>1, <3>2
  <2> HIDE DEF T
  <2>3. \A i \in 0..n : i \in T
    BY <1>1, <2>1, <2>2, UpTo
  <2> QED BY <2>3 DEF T
<1>12. t \in [0..n -> Seq(S)]
  BY <1>9, <1>11
<1> QED BY <1>10, <1>12 DEF t

\* What follows later does not change what the first lines tell.
LEMMA TellingAgrees ==
  ASSUME NEW S, NEW lines \in Seq(S), NEW more \in Seq(S), NEW e, Len(lines) <= Len(more),
         \A i \in 1..Len(lines) : more[i] = lines[i]
  PROVE  \A i \in 0..Len(lines) : Telling(more, e)[i] = Telling(lines, e)[i]
<1> DEFINE n == Len(lines)
           T == {i \in 0..n : Telling(more, e)[i] = Telling(lines, e)[i]}
           Steps(s, t) == /\ t[0] = << >>
                          /\ \A i \in 1..Len(s) :
                               t[i] = IF s[i].entry = e THEN Append(t[i - 1], s[i]) ELSE t[i - 1]
<1>0. Steps(lines, Telling(lines, e)) /\ Steps(more, Telling(more, e))
  BY TellingIs
<1>1. 0 \in T
  BY <1>0
<1>2. \A i \in 0..n : i < n /\ i \in T => i + 1 \in T
  <2> SUFFICES ASSUME NEW i \in 0..n, i < n, Telling(more, e)[i] = Telling(lines, e)[i]
               PROVE  Telling(more, e)[i + 1] = Telling(lines, e)[i + 1]
    OBVIOUS
  <2>1. i + 1 \in 1..n /\ i + 1 \in 1..Len(more) /\ (i + 1) - 1 = i
    OBVIOUS
  <2>2. more[i + 1] = lines[i + 1]
    BY <2>1
  <2> QED BY <1>0, <2>1, <2>2
<1>3. n \in Nat
  OBVIOUS
<1> HIDE DEF T, n
<1>4. \A i \in 0..n : i \in T
  BY <1>1, <1>2, <1>3, UpTo
<1> QED BY <1>4 DEF T, n

LEMMA AboutEmpty ==
  ASSUME NEW e
  PROVE  About(<< >>, e) = << >>
<1>1. << >> \in Seq({}) /\ Len(<< >>) = 0
  OBVIOUS
<1>2. \A lines \in Seq({}) : Telling(lines, e)[0] = << >>
  BY TellingIs
<1> QED BY <1>1, <1>2 DEF About

LEMMA AboutAppend ==
  ASSUME NEW S, NEW lines \in Seq(S), NEW l \in S, NEW e
  PROVE  /\ About(lines, e) \in Seq(S)
         /\ About(Append(lines, l), e) =
              IF l.entry = e THEN Append(About(lines, e), l) ELSE About(lines, e)
<1> DEFINE more == Append(lines, l)
           n == Len(lines)
<1>1. /\ more \in Seq(S) /\ Len(more) = n + 1 /\ n \in Nat
      /\ more[n + 1] = l /\ \A i \in 1..n : more[i] = lines[i]
  OBVIOUS
<1> HIDE DEF more
<1>2. Telling(more, e)[n] = Telling(lines, e)[n]
  BY <1>1, TellingAgrees
<1>3. n + 1 \in 1..Len(more) /\ (n + 1) - 1 = n /\ n \in 0..n
  BY <1>1
<1>4. Telling(more, e)[n + 1] = IF l.entry = e THEN Append(Telling(more, e)[n], l)
                                               ELSE Telling(more, e)[n]
  BY <1>1, <1>3, TellingIs
<1>5. Telling(lines, e)[n] \in Seq(S)
  BY <1>3, TellingIs
<1> QED BY <1>1, <1>2, <1>4, <1>5 DEF About, more

-----------------------------------------------------------------------------
(***************************************************************************)
(* Reading the lines.                                                      *)
(***************************************************************************)

LEMMA LineTypes ==
  ASSUME NEW l \in Lines
  PROVE  /\ l.shape \in {"valid", "invalid", "garbled"}
         /\ l.event \in Event \cup {None} /\ l.entry \in Entry \cup {None}
         /\ l.shape = "valid" => l \in ValidLines
         /\ l.shape = "garbled" => l.event = None /\ l.entry = None
BY DEF Lines, ValidLines, InvalidLines, Garbled

LEMMA ValidTypes ==
  ASSUME NEW l \in ValidLines
  PROVE  /\ l.shape = "valid" /\ l.event \in Event /\ l.entry \in Entry
         /\ l.op \in Operations /\ l.kind \in Kinds /\ l.event # None /\ l.entry # None
BY AuditAssumption DEF ValidLines

LEMMA BadReport ==
  ASSUME NEW r \in Reports, NEW code \in Codes, NEW e \in Entry \cup {None}
  PROVE  /\ Bad(r, code, e) \in Reports
         /\ Bad(r, code, e).ids = r.ids /\ Bad(r, code, e).records = r.records
         /\ Bad(r, code, e).entries = r.entries
         /\ Bad(r, code, e).errors = r.errors \cup {Err(code, e)}
         /\ Bad(r, code, e).tainted = Taint(r.tainted, e)
<1>1. Err(code, e) \in Errs
  BY DEF Err, Errs
<1>2. Taint(r.tainted, e) \in SUBSET Entry
  BY DEF Taint, Reports
<1> QED BY <1>1, <1>2 DEF Bad, Reports

\* A line that does not count leaves an error, which names its entry.
LEMMA BadIsBlamed ==
  ASSUME NEW r \in Reports, NEW code \in Codes, NEW e \in Entry \cup {None}, Blamed(r)
  PROVE  Blamed(Bad(r, code, e)) /\ Bad(r, code, e).errors # {}
<1>1. /\ Bad(r, code, e).errors = r.errors \cup {Err(code, e)}
      /\ Bad(r, code, e).tainted = Taint(r.tainted, e)
  BY BadReport
<1>2. Err(code, e).entry = e
  BY DEF Err
<1> HIDE DEF Bad
<1> QED BY <1>1, <1>2 DEF Blamed, Taint

LEMMA StartIsRead ==
  ASSUME NEW lines \in Seq(Lines)
  PROVE  ReadSoFar(lines, Start, 0)
<1>1. Start \in Reports
  <2>1. << >> \in Seq(ValidLines)
    OBVIOUS
  <2> QED BY <2>1 DEF Start, Reports
<1>2. \A e \in Entry : About(Start.records, e) = Telling(lines, e)[0]
  BY AboutEmpty, TellingIs DEF Start
<1> QED BY <1>1, <1>2 DEF ReadSoFar, Start, Blamed

\* Reading a line that counts.
LEMMA ReadCounting ==
  ASSUME NEW lines \in Seq(Lines), NEW i \in 1..Len(lines), NEW r,
         ReadSoFar(lines, r, i - 1), Counts(lines, i)
  PROVE  ReadSoFar(lines, ReadLine(r, lines[i]), i)
<1> DEFINE l == lines[i]
           s == [r EXCEPT !.ids = @ \cup {l.event}, !.records = Append(@, l)]
<1>1. l \in Lines /\ l.shape = "valid" /\ l \in ValidLines /\ r \in Reports
  BY LineTypes DEF Counts, ReadSoFar
<1>2. l.event # None /\ l.event \in Event /\ l.entry \in Entry /\ l.event \notin r.ids
  BY <1>1, ValidTypes DEF Counts, ReadSoFar
<1>3. ReadLine(r, l) = s
  BY <1>1, <1>2 DEF ReadLine, Reports
<1>4. /\ s \in Reports /\ s.ids = r.ids \cup {l.event} /\ s.records = Append(r.records, l)
      /\ s.entries = r.entries /\ s.errors = r.errors /\ s.tainted = r.tainted
      /\ r.records \in Seq(ValidLines)
  <2>1. /\ r.records \in Seq(ValidLines)
        /\ r.ids \cup {l.event} \in SUBSET Event
    BY <1>1, <1>2 DEF Reports
  <2> HIDE DEF l
  <2>2. Append(r.records, l) \in Seq(ValidLines)
    BY <1>1, <2>1
  <2> QED BY <1>1, <2>1, <2>2 DEF Reports
<1> HIDE DEF s
<1>5. 1..i = (1..i - 1) \cup {i}
  OBVIOUS
<1>6. s.ids = {lines[j].event : j \in 1..i} \ {None}
  BY <1>2, <1>4, <1>5 DEF ReadSoFar
<1>7. \A e \in Entry : e \in s.tainted <=> \E j \in 1..i : lines[j].entry = e /\ ~Counts(lines, j)
  BY <1>4, <1>5 DEF ReadSoFar
<1>8. s.errors = {} <=> \A j \in 1..i : Counts(lines, j)
  BY <1>4, <1>5 DEF ReadSoFar
<1>9. \A e \in Entry \ s.tainted : About(s.records, e) = Telling(lines, e)[i]
  <2> SUFFICES ASSUME NEW e \in Entry \ r.tainted PROVE About(s.records, e) = Telling(lines, e)[i]
    BY <1>4
  <2>1. About(s.records, e) =
          IF l.entry = e THEN Append(About(r.records, e), l) ELSE About(r.records, e)
    <3> HIDE DEF l
    <3>1. \A h \in Seq(ValidLines), x \in ValidLines :
            About(Append(h, x), e) = IF x.entry = e THEN Append(About(h, e), x) ELSE About(h, e)
      BY AboutAppend
    <3> QED BY <1>1, <1>4, <3>1, Zenon
  <2>2. Telling(lines, e)[i] =
          IF l.entry = e THEN Append(Telling(lines, e)[i - 1], l) ELSE Telling(lines, e)[i - 1]
    BY TellingIs
  <2>3. About(r.records, e) = Telling(lines, e)[i - 1]
    BY DEF ReadSoFar
  <2> QED BY <2>1, <2>2, <2>3
<1>10. Blamed(s)
  BY <1>4 DEF Blamed, ReadSoFar
<1>11. s.entries = [e \in Entry |-> << >>]
  BY <1>4 DEF ReadSoFar
<1> QED BY <1>3, <1>4, <1>6, <1>7, <1>8, <1>9, <1>10, <1>11 DEF ReadSoFar

\* Reading a line that does not count.
LEMMA ReadOther ==
  ASSUME NEW lines \in Seq(Lines), NEW i \in 1..Len(lines), NEW r,
         ReadSoFar(lines, r, i - 1), ~Counts(lines, i)
  PROVE  ReadSoFar(lines, ReadLine(r, lines[i]), i)
<1> DEFINE l == lines[i]
           q == [r EXCEPT !.ids = @ \cup ({l.event} \ {None})]
<1>1. l \in Lines /\ r \in Reports /\ l.event \in Event \cup {None} /\ l.entry \in Entry \cup {None}
  BY LineTypes DEF ReadSoFar
<1>2. /\ q \in Reports /\ q.ids = r.ids \cup ({l.event} \ {None}) /\ q.records = r.records
      /\ q.entries = r.entries /\ q.errors = r.errors /\ q.tainted = r.tainted
  BY <1>1 DEF Reports
<1>3. l.shape = "valid" => l.event \in r.ids
  <2> SUFFICES ASSUME l.shape = "valid" PROVE l.event \in r.ids
    OBVIOUS
  <2>1. PICK j \in 1..i - 1 : lines[j].event = l.event
    BY DEF Counts
  <2>2. l.event # None
    BY <1>1, LineTypes, ValidTypes
  <2> QED BY <2>1, <2>2 DEF ReadSoFar
<1>4. PICK b \in {r, q}, code \in {"malformed_ledger", "duplicate_event_id"} :
        ReadLine(r, l) = Bad(b, code, l.entry) /\ b.ids = r.ids \cup ({l.event} \ {None})
  <2>1. CASE l.shape = "garbled"
    <3>1. l.event = None /\ l.entry = None
      BY <1>1, <2>1, LineTypes
    <3>2. ReadLine(r, l) = Bad(r, "malformed_ledger", l.entry)
      BY <2>1, <3>1 DEF ReadLine
    <3> QED BY <3>1, <3>2
  <2>2. CASE l.shape # "garbled" /\ l.event \in r.ids
    <3>1. ReadLine(r, l) = Bad(r, "duplicate_event_id", l.entry)
      BY <2>2 DEF ReadLine
    <3> QED BY <2>2, <3>1
  <2>3. CASE l.shape = "invalid" /\ l.event \notin r.ids
    <3>1. ReadLine(r, l) = Bad(q, "malformed_ledger", l.entry)
      BY <2>3 DEF ReadLine
    <3> QED BY <1>2, <3>1
  <2> QED BY <1>1, <1>3, <2>1, <2>2, <2>3, LineTypes
<1> DEFINE s == Bad(b, code, l.entry)
<1>5. /\ b \in Reports /\ b.records = r.records /\ b.entries = r.entries
      /\ b.errors = r.errors /\ b.tainted = r.tainted /\ code \in Codes /\ Blamed(b)
  BY <1>1, <1>2, <1>4 DEF Codes, Blamed, ReadSoFar
<1>6. /\ s \in Reports /\ s.ids = b.ids /\ s.records = r.records /\ s.entries = r.entries
      /\ s.tainted = Taint(r.tainted, l.entry)
      /\ Blamed(s) /\ s.errors # {}
  BY <1>1, <1>5, BadReport, BadIsBlamed
<1> HIDE DEF s, q
<1>7. 1..i = (1..i - 1) \cup {i} /\ \A e \in Entry : e # None
  BY AuditAssumption
<1>8. s.ids = {lines[j].event : j \in 1..i} \ {None}
  BY <1>4, <1>6, <1>7 DEF ReadSoFar
<1>9. \A e \in Entry : e \in s.tainted <=> \E j \in 1..i : lines[j].entry = e /\ ~Counts(lines, j)
  BY <1>6, <1>7 DEF ReadSoFar, Taint
<1>10. s.errors = {} <=> \A j \in 1..i : Counts(lines, j)
  BY <1>6, <1>7
<1>11. \A e \in Entry \ s.tainted : About(s.records, e) = Telling(lines, e)[i]
  <2> SUFFICES ASSUME NEW e \in Entry \ s.tainted PROVE About(r.records, e) = Telling(lines, e)[i]
    BY <1>6
  <2>1. l.entry # e /\ e \notin r.tainted
    BY <1>6, <1>7 DEF Taint
  <2>2. Telling(lines, e)[i] =
          IF l.entry = e THEN Append(Telling(lines, e)[i - 1], l) ELSE Telling(lines, e)[i - 1]
    BY TellingIs
  <2>3. About(r.records, e) = Telling(lines, e)[i - 1]
    BY <2>1 DEF ReadSoFar
  <2> QED BY <2>1, <2>2, <2>3
<1>12. s.entries = [e \in Entry |-> << >>]
  BY <1>6 DEF ReadSoFar
<1> QED BY <1>4, <1>6, <1>8, <1>9, <1>10, <1>11, <1>12 DEF ReadSoFar, s

LEMMA ReadLineType ==
  ASSUME NEW r \in Reports, NEW l \in Lines
  PROVE  ReadLine(r, l) \in Reports
<1> DEFINE q == [r EXCEPT !.ids = @ \cup ({l.event} \ {None})]
<1>1. /\ l.event \in Event \cup {None} /\ l.entry \in Entry \cup {None}
      /\ l.shape \in {"valid", "invalid", "garbled"} /\ (l.shape = "valid" => l \in ValidLines)
  BY LineTypes
<1>2. q \in Reports /\ q.records = r.records /\ r.records \in Seq(ValidLines)
  BY <1>1 DEF Reports
<1>3. {"malformed_ledger", "duplicate_event_id"} \subseteq Codes /\ None \in Entry \cup {None}
  BY DEF Codes
<1>4. CASE l.shape = "garbled"
  <2>1. ReadLine(r, l) = Bad(r, "malformed_ledger", None)
    BY <1>4 DEF ReadLine
  <2> QED BY <1>3, <2>1, BadReport
<1>5. CASE l.shape # "garbled" /\ l.event \in r.ids
  <2>1. ReadLine(r, l) = Bad(r, "duplicate_event_id", l.entry)
    BY <1>5 DEF ReadLine
  <2> QED BY <1>1, <1>3, <2>1, BadReport
<1>6. CASE l.shape = "invalid" /\ l.event \notin r.ids
  <2>1. ReadLine(r, l) = Bad(q, "malformed_ledger", l.entry)
    BY <1>6 DEF ReadLine
  <2> HIDE DEF q
  <2> QED BY <1>1, <1>2, <1>3, <2>1, BadReport
<1>7. CASE l.shape = "valid" /\ l.event \notin r.ids
  <2>1. ReadLine(r, l) = [q EXCEPT !.records = Append(@, l)]
    BY <1>7 DEF ReadLine
  <2> HIDE DEF q
  <2>2. Append(r.records, l) \in Seq(ValidLines)
    BY <1>1, <1>2, <1>7
  <2> QED BY <1>2, <2>1, <2>2 DEF Reports
<1> QED BY <1>1, <1>4, <1>5, <1>6, <1>7

\* What _read_records returns is what its loop has found after the last line.
LEMMA ReadRecordsIs ==
  ASSUME NEW lines \in Seq(Lines)
  PROVE  ReadSoFar(lines, ReadRecords(lines), Len(lines))
<1> DEFINE n == Len(lines)
           Solves(g) == g = [i \in 0..n |-> IF i = 0 THEN Start ELSE ReadLine(g[i - 1], lines[i])]
           F == [i \in 1..n |-> [v \in Reports |-> ReadLine(v, lines[i])]]
<1>0. n \in Nat /\ \A i \in 1..n : lines[i] \in Lines
  OBVIOUS
<1>1. ReadSoFar(lines, Start, 0) /\ Start \in Reports
  BY StartIsRead DEF ReadSoFar
<1>2. F \in [1..n -> [Reports -> Reports]]
  BY <1>0, ReadLineType
<1>3. \A i \in 1..n : \A v \in Reports : F[i][v] = ReadLine(v, lines[i])
  OBVIOUS
<1>4. PICK g \in [0..n -> Reports] : g[0] = Start /\ \A i \in 1..n : g[i] = F[i][g[i - 1]]
  <2> DEFINE V == Reports
             a == Start
  <2>1. n \in Nat /\ a \in V /\ F \in [1..n -> [V -> V]]
    BY <1>0, <1>1, <1>2
  <2> HIDE DEF F, n, V, a
  <2>2. Solutions(n, V, a, F) # {}
    BY <2>1, Recursion
  <2> QED BY <2>2 DEF V, a, Solutions
<1>5. \A i \in 1..n : i - 1 \in 0..n /\ g[i - 1] \in Reports
  BY <1>0
<1>6. Solves(g)
  <2>1. \A i \in 1..n : g[i] = ReadLine(g[i - 1], lines[i])
    <3> HIDE DEF F, n
    <3> QED BY <1>3, <1>4, <1>5
  <2>2. \A i \in 0..n : i = 0 \/ i \in 1..n
    BY <1>0
  <2>3. g = [i \in 0..n |-> g[i]]
    OBVIOUS
  <2> HIDE DEF n
  <2> QED BY <1>4, <2>1, <2>2, <2>3
<1> DEFINE f == CHOOSE f : Solves(f)
<1>7. ReadRecords(lines) = f[n]
  BY DEF ReadRecords
<1>8. Solves(f)
  <2> HIDE DEF Solves
  <2> QED BY <1>6
<1> HIDE DEF f
<1>9. f[0] = Start /\ \A i \in 1..n : f[i] = ReadLine(f[i - 1], lines[i])
  <2>1. 0 \in 0..n /\ \A i \in 1..n : i \in 0..n /\ i # 0
    BY <1>0
  <2> HIDE DEF n
  <2> QED BY <1>8, <2>1, Zenon
<1> DEFINE T == {i \in 0..n : ReadSoFar(lines, f[i], i)}
<1>10. 0 \in T
  BY <1>0, <1>1, <1>9
<1>11. \A i \in 0..n : i < n /\ i \in T => i + 1 \in T
  <2> SUFFICES ASSUME NEW i \in 0..n, i < n, ReadSoFar(lines, f[i], i)
               PROVE  ReadSoFar(lines, f[i + 1], i + 1)
    BY <1>0
  <2>1. i + 1 \in 1..n /\ (i + 1) - 1 = i
    BY <1>0
  <2>2. f[i + 1] = ReadLine(f[i], lines[i + 1])
    BY <1>9, <2>1
  <2> QED BY <2>1, <2>2, ReadCounting, ReadOther
<1> HIDE DEF T, n
<1>12. \A i \in 0..n : i \in T
  BY <1>0, <1>10, <1>11, UpTo
<1>13. n \in 0..n
  BY <1>0
<1> QED BY <1>7, <1>12, <1>13 DEF T, n

-----------------------------------------------------------------------------
(***************************************************************************)
(* Replaying the records.                                                  *)
(***************************************************************************)

\* A life, record by record.
Begins(a) == a.op = "trash"
Goes(a, b) == Enables(a.op, b.op)

LEMMA LifeIs ==
  ASSUME NEW h \in Seq(ValidLines)
  PROVE  /\ OneLife(h) <=> \A i \in 1..Len(h) :
              /\ h[i].kind = h[1].kind
              /\ IF i = 1 THEN Begins(h[1]) ELSE Goes(h[i - 1], h[i])
         /\ StateAfter(h) = IF h = << >> THEN "none" ELSE PhaseAfter(h[Len(h)].op)
<1>1. Len(h) \in Nat /\ DOMAIN h = 1..Len(h)
  OBVIOUS
<1>2. /\ OpsOf(h) \in Seq(Operations) /\ Len(OpsOf(h)) = Len(h)
      /\ \A i \in 1..Len(h) : OpsOf(h)[i] = h[i].op
  <2>1. \A i \in 1..Len(h) : h[i].op \in Operations
    BY ValidTypes
  <2> QED BY <1>1, <2>1 DEF OpsOf
<1>3. OneLife(h) <=> \A i \in 1..Len(h) :
        h[i].kind = h[1].kind /\ IF i = 1 THEN Begins(h[1]) ELSE Goes(h[i - 1], h[i])
  <2>1. \A i \in 1..Len(h) : 1 \in 1..Len(h) /\ (i # 1 => i - 1 \in 1..Len(h))
    BY <1>1
  <2> DEFINE o == OpsOf(h)
  <2>2. \A i \in 1..Len(h) : (IF i = 1 THEN o[1] = "trash" ELSE Enables(o[i - 1], o[i]))
                          = (IF i = 1 THEN Begins(h[1]) ELSE Goes(h[i - 1], h[i]))
    <3> SUFFICES ASSUME NEW i \in 1..Len(h)
                 PROVE  (IF i = 1 THEN o[1] = "trash" ELSE Enables(o[i - 1], o[i]))
                      = (IF i = 1 THEN Begins(h[1]) ELSE Goes(h[i - 1], h[i]))
      OBVIOUS
    <3>1. CASE i = 1
      BY <1>2, <3>1 DEF Begins
    <3>2. CASE i # 1
      <4>1. o[i - 1] = h[i - 1].op /\ o[i] = h[i].op
        BY <1>2, <2>1, <3>2
      <4> HIDE DEF o
      <4> QED BY <3>2, <4>1 DEF Goes
    <3> QED BY <3>1, <3>2
  <2>3. ValidHistory(o) <=>
          \A i \in 1..Len(h) : IF i = 1 THEN Begins(h[1]) ELSE Goes(h[i - 1], h[i])
    <3> HIDE DEF o
    <3> QED BY <1>2, <2>2 DEF ValidHistory, o
  <2> QED BY <1>1, <2>3 DEF OneLife
<1>4. StateAfter(h) = IF h = << >> THEN "none" ELSE PhaseAfter(h[Len(h)].op)
  <2>1. OpsOf(h) = << >> <=> h = << >>
    BY <1>2
  <2>2. h # << >> => Len(h) \in 1..Len(h)
    BY <1>1
  <2> QED BY <1>2, <2>1, <2>2 DEF StateAfter, PhaseOf
<1> QED BY <1>3, <1>4

\* _replay accepts a record exactly if it continues the life of its entry.
LEMMA AcceptsIs ==
  ASSUME NEW h \in Seq(ValidLines), NEW l \in ValidLines
  PROVE  OneLife(Append(h, l)) <=> OneLife(h) /\ Accepts(h, l)
<1> DEFINE t == Append(h, l)
           n == Len(h)
           Follows(s, i) == /\ s[i].kind = s[1].kind
                            /\ IF i = 1 THEN Begins(s[1]) ELSE Goes(s[i - 1], s[i])
<1>1. /\ t \in Seq(ValidLines) /\ Len(t) = n + 1 /\ n \in Nat
      /\ t[n + 1] = l /\ \A i \in 1..n : t[i] = h[i]
      /\ h = << >> <=> n = 0
  OBVIOUS
<1>2. (OneLife(t) <=> \A i \in 1..n + 1 : Follows(t, i)) /\ (OneLife(h) <=> \A i \in 1..n : Follows(h, i))
  <2> HIDE DEF t
  <2> QED BY <1>1, LifeIs
<1> HIDE DEF t
<1>3. \A i \in 1..n : Follows(t, i) <=> Follows(h, i)
  <2>1. \A i \in 1..n : 1 \in 1..n /\ (i # 1 => i - 1 \in 1..n)
    BY <1>1
  <2> HIDE DEF n
  <2> QED BY <1>1, <2>1
<1>4. 1..n + 1 = (1..n) \cup {n + 1}
  BY <1>1
<1>5. OneLife(t) <=> OneLife(h) /\ Follows(t, n + 1)
  <2> HIDE DEF Follows, n
  <2> QED BY <1>2, <1>3, <1>4
<1>6. Follows(t, n + 1) <=> Accepts(h, l)
  <2>1. CASE n = 0
    BY <1>1, <2>1 DEF Accepts, Begins
  <2>2. CASE n # 0
    <3>1. /\ n \in 1..n /\ 1 \in 1..n /\ n + 1 # 1 /\ (n + 1) - 1 = n
          /\ h[n] \in ValidLines /\ t[1] = h[1] /\ t[n] = h[n]
      BY <1>1, <2>2
    <3>2. StateAfter(h) = PhaseAfter(h[n].op)
      BY <1>1, <2>2, LifeIs
    <3>3. Goes(h[n], l) <=>
            \/ l.op \in {"restore", "purge_intent"} /\ PhaseAfter(h[n].op) = "active"
            \/ l.op \in {"purge_complete", "purge_failed"} /\ PhaseAfter(h[n].op) = "purge_pending"
                 /\ h[n].op = "purge_intent"
      <4>1. h[n].op \in Operations
        BY <3>1, ValidTypes
      <4> QED BY <4>1 DEF Goes, Enables, PhaseAfter, Operations
    <3> HIDE DEF n
    <3> QED BY <1>1, <2>2, <3>1, <3>2, <3>3 DEF Accepts, n
  <2> QED BY <2>1, <2>2
<1> QED BY <1>5, <1>6 DEF t

LEMMA ReplayRecordIs ==
  ASSUME NEW r \in Reports, NEW l \in ValidLines
  PROVE  LET s == ReplayRecord(r, l) IN
         /\ s \in Reports
         /\ Accepts(r.entries[l.entry], l) =>
              /\ s.tainted = r.tainted /\ s.errors = r.errors
              /\ s.entries = [r.entries EXCEPT ![l.entry] = Append(@, l)]
         /\ ~Accepts(r.entries[l.entry], l) =>
              /\ s.tainted = r.tainted \cup {l.entry} /\ s.errors # {}
              /\ s.entries = r.entries
         /\ Blamed(r) => Blamed(s)
<1>1. /\ l.entry \in Entry /\ l.entry # None
      /\ r.entries \in [Entry -> Seq(ValidLines)]
  BY ValidTypes DEF Reports
<1>2. CASE Accepts(r.entries[l.entry], l)
  <2> DEFINE more == [r.entries EXCEPT ![l.entry] = Append(@, l)]
             s == [r EXCEPT !.entries = more]
  <2>1. more \in [Entry -> Seq(ValidLines)]
    <3>1. Append(r.entries[l.entry], l) \in Seq(ValidLines)
      BY <1>1
    <3> QED BY <1>1, <3>1
  <2>2. ReplayRecord(r, l) = s
    BY <1>2 DEF ReplayRecord, Reports
  <2> HIDE DEF more
  <2>3. s \in Reports /\ s.tainted = r.tainted /\ s.errors = r.errors /\ s.entries = more
    BY <2>1 DEF Reports
  <2>4. Blamed(r) => Blamed(s)
    BY <2>3 DEF Blamed
  <2> HIDE DEF s
  <2> QED BY <1>2, <2>2, <2>3, <2>4 DEF more
<1>3. CASE ~Accepts(r.entries[l.entry], l)
  <2> DEFINE s == Bad(r, "impossible_transition", l.entry)
  <2>1. ReplayRecord(r, l) = s
    BY <1>3 DEF ReplayRecord
  <2>2. "impossible_transition" \in Codes /\ l.entry \in Entry \cup {None}
    BY <1>1 DEF Codes
  <2>3. /\ s \in Reports /\ s.tainted = Taint(r.tainted, l.entry) /\ s.entries = r.entries
        /\ s.errors = r.errors \cup {Err("impossible_transition", l.entry)}
    BY <2>2, BadReport
  <2>4. Blamed(r) => Blamed(s)
    BY <2>2, BadIsBlamed
  <2> HIDE DEF s
  <2> QED BY <1>1, <1>3, <2>1, <2>3, <2>4 DEF Taint
<1> QED BY <1>2, <1>3

\* One record replayed.
LEMMA ReplayStep ==
  ASSUME NEW r \in Reports, NEW k \in 1..Len(r.records), NEW s, ReplayedSoFar(r, s, k - 1)
  PROVE  ReplayedSoFar(r, ReplayRecord(s, r.records[k]), k)
<1> DEFINE l == r.records[k]
           d == l.entry
           u == ReplayRecord(s, l)
           H(e, j) == Telling(r.records, e)[j]
<1>1. /\ r.records \in Seq(ValidLines) /\ l \in ValidLines /\ s \in Reports
      /\ k \in 0..Len(r.records) /\ k - 1 \in 0..Len(r.records)
  BY DEF Reports, ReplayedSoFar
<1>2. d \in Entry
  BY <1>1, ValidTypes
<1>3. \A e \in Entry : /\ H(e, k - 1) \in Seq(ValidLines)
                       /\ H(e, k) = IF d = e THEN Append(H(e, k - 1), l) ELSE H(e, k - 1)
  BY <1>1, TellingIs
<1>4. OneLife(H(d, k)) <=> OneLife(H(d, k - 1)) /\ Accepts(H(d, k - 1), l)
  <2> HIDE DEF l, d
  <2> QED BY <1>1, <1>2, <1>3, AcceptsIs
<1>5. \A e \in Entry : e # d => H(e, k) = H(e, k - 1)
  BY <1>3
<1>6. OneLife(H(d, k - 1)) => s.entries[d] = H(d, k - 1)
  BY <1>2 DEF ReplayedSoFar
<1> DEFINE yes == Accepts(s.entries[d], l)
<1>7. /\ u \in Reports /\ Blamed(u)
      /\ yes => /\ u.tainted = s.tainted /\ u.errors = s.errors
                /\ u.entries = [s.entries EXCEPT ![d] = Append(@, l)]
      /\ ~yes => u.tainted = s.tainted \cup {d} /\ u.errors # {} /\ u.entries = s.entries
  <2> HIDE DEF l
  <2> QED BY <1>1, ReplayRecordIs DEF ReplayedSoFar
<1>8. s.entries \in [Entry -> Seq(ValidLines)]
  BY <1>1 DEF Reports
<1>9. OneLife(H(d, k - 1)) => (yes <=> OneLife(H(d, k)))
  BY <1>4, <1>6
<1>10. ~OneLife(H(d, k - 1)) => ~OneLife(H(d, k))
  BY <1>4
<1>11. H(d, k) = Append(H(d, k - 1), l)
  BY <1>2, <1>3
<1>12. /\ \A e \in Entry : e \in s.tainted <=> e \in r.tainted \/ ~OneLife(H(e, k - 1))
       /\ s.errors = {} <=> r.errors = {} /\ \A e \in Entry : OneLife(H(e, k - 1))
       /\ \A e \in Entry : OneLife(H(e, k - 1)) => s.entries[e] = H(e, k - 1)
  BY DEF ReplayedSoFar
<1> HIDE DEF u, l, d, H, yes
<1>13. \A e \in Entry : e \in u.tainted <=> e \in r.tainted \/ ~OneLife(H(e, k))
  <2> SUFFICES ASSUME NEW e \in Entry PROVE e \in u.tainted <=> e \in r.tainted \/ ~OneLife(H(e, k))
    OBVIOUS
  <2>1. CASE e = d
    BY <1>2, <1>7, <1>9, <1>10, <1>12, <2>1
  <2>2. CASE e # d
    BY <1>5, <1>7, <1>12, <2>2
  <2> QED BY <2>1, <2>2
<1>14. u.errors = {} <=> r.errors = {} /\ \A e \in Entry : OneLife(H(e, k))
  <2>1. CASE yes
    <3>1. (\A e \in Entry : OneLife(H(e, k))) <=> \A e \in Entry : OneLife(H(e, k - 1))
      BY <1>2, <1>5, <1>9, <1>10, <2>1
    <3> QED BY <1>7, <1>12, <2>1, <3>1
  <2>2. CASE ~yes
    <3>1. ~OneLife(H(d, k))
      BY <1>9, <1>10, <2>2
    <3> QED BY <1>2, <1>7, <2>2, <3>1
  <2> QED BY <2>1, <2>2
<1>15. \A e \in Entry : OneLife(H(e, k)) => u.entries[e] = H(e, k)
  <2> SUFFICES ASSUME NEW e \in Entry, OneLife(H(e, k)) PROVE u.entries[e] = H(e, k)
    OBVIOUS
  <2>1. CASE e = d
    <3>1. OneLife(H(d, k - 1)) /\ yes
      BY <1>9, <1>10, <2>1
    <3> QED BY <1>2, <1>7, <1>8, <1>11, <1>12, <2>1, <3>1
  <2>2. CASE e # d
    BY <1>2, <1>5, <1>7, <1>8, <1>12, <2>2
  <2> QED BY <2>1, <2>2
<1> QED BY <1>7, <1>13, <1>14, <1>15 DEF ReplayedSoFar, u, l, H

\* The recursion of Replay.
LEMMA ReplayRecursion ==
  ASSUME NEW r \in Reports
  PROVE  \E f : /\ Replay(r) = f[Len(r.records)] /\ f[0] = r
                /\ \A i \in 1..Len(r.records) : f[i] = ReplayRecord(f[i - 1], r.records[i])
<1> DEFINE lines == r.records
           n == Len(lines)
           Solves(g) == g = [i \in 0..n |-> IF i = 0 THEN r ELSE ReplayRecord(g[i - 1], lines[i])]
           F == [i \in 1..n |-> [v \in Reports |-> ReplayRecord(v, lines[i])]]
<1>0. lines \in Seq(ValidLines) /\ n \in Nat /\ \A i \in 1..n : lines[i] \in ValidLines
  BY DEF Reports
<1> HIDE DEF lines
<1>2. F \in [1..n -> [Reports -> Reports]]
  BY <1>0, ReplayRecordIs
<1>3. \A i \in 1..n : \A v \in Reports : F[i][v] = ReplayRecord(v, lines[i])
  OBVIOUS
<1>4. PICK g \in [0..n -> Reports] : g[0] = r /\ \A i \in 1..n : g[i] = F[i][g[i - 1]]
  <2> DEFINE V == Reports
             a == r
  <2>1. n \in Nat /\ a \in V /\ F \in [1..n -> [V -> V]]
    BY <1>0, <1>2
  <2> HIDE DEF F, n, V, a
  <2>2. Solutions(n, V, a, F) # {}
    BY <2>1, Recursion
  <2> QED BY <2>2 DEF V, a, Solutions
<1>5. \A i \in 1..n : i - 1 \in 0..n /\ g[i - 1] \in Reports
  BY <1>0
<1>6. Solves(g)
  <2>1. \A i \in 1..n : g[i] = ReplayRecord(g[i - 1], lines[i])
    <3> HIDE DEF F, n
    <3> QED BY <1>3, <1>4, <1>5
  <2>2. \A i \in 0..n : i = 0 \/ i \in 1..n
    BY <1>0
  <2>3. g = [i \in 0..n |-> g[i]]
    OBVIOUS
  <2> HIDE DEF n
  <2> QED BY <1>4, <2>1, <2>2, <2>3
<1> DEFINE f == CHOOSE f : Solves(f)
<1>7. Replay(r) = f[n]
  BY DEF Replay, lines
<1>8. Solves(f)
  <2> HIDE DEF Solves
  <2> QED BY <1>6
<1> HIDE DEF f
<1>9. f[0] = r /\ \A i \in 1..n : f[i] = ReplayRecord(f[i - 1], lines[i])
  <2>1. 0 \in 0..n /\ \A i \in 1..n : i \in 0..n /\ i # 0
    BY <1>0
  <2> HIDE DEF n
  <2> QED BY <1>8, <2>1, Zenon
<1> QED BY <1>7, <1>9 DEF n, lines

\* What _replay leaves is what its loop has made of all the records.
LEMMA ReplayIs ==
  ASSUME NEW r \in Reports, r.entries = [e \in Entry |-> << >>], Blamed(r)
  PROVE  ReplayedSoFar(r, Replay(r), Len(r.records))
<1> DEFINE lines == r.records
           n == Len(lines)
<1>0. lines \in Seq(ValidLines) /\ n \in Nat /\ \A i \in 1..n : lines[i] \in ValidLines
  BY DEF Reports
<1> HIDE DEF lines
<1>1. ReplayedSoFar(r, r, 0)
  <2>1. \A e \in Entry : Telling(r.records, e)[0] = << >>
    BY <1>0, TellingIs DEF lines
  <2>2. OneLife(<< >>)
    <3>1. << >> \in Seq(ValidLines) /\ Len(<< >>) = 0
      OBVIOUS
    <3>2. \A h \in Seq(ValidLines) : (\A i \in 1..Len(h) : FALSE) => OneLife(h)
      BY LifeIs
    <3>3. \A i \in 1..Len(<< >>) : FALSE
      OBVIOUS
    <3> QED BY <3>1, <3>2, <3>3
  <2> QED BY <2>1, <2>2 DEF ReplayedSoFar
<1>9. PICK f : /\ Replay(r) = f[n] /\ f[0] = r
               /\ \A i \in 1..n : f[i] = ReplayRecord(f[i - 1], lines[i])
  BY ReplayRecursion DEF lines
<1> DEFINE T == {i \in 0..n : ReplayedSoFar(r, f[i], i)}
<1>10. 0 \in T
  BY <1>0, <1>1, <1>9
<1>11. \A i \in 0..n : i < n /\ i \in T => i + 1 \in T
  <2> SUFFICES ASSUME NEW i \in 0..n, i < n, ReplayedSoFar(r, f[i], i)
               PROVE  ReplayedSoFar(r, f[i + 1], i + 1)
    BY <1>0
  <2>1. i + 1 \in 1..n /\ (i + 1) - 1 = i
    BY <1>0
  <2>2. f[i + 1] = ReplayRecord(f[i], lines[i + 1])
    BY <1>9, <2>1
  <2> QED BY <2>1, <2>2, ReplayStep DEF lines
<1> HIDE DEF T, n
<1>12. \A i \in 0..n : i \in T
  BY <1>0, <1>10, <1>11, UpTo
<1>13. n \in 0..n
  BY <1>0
<1> QED BY <1>9, <1>12, <1>13 DEF T, n, lines

-----------------------------------------------------------------------------
(***************************************************************************)
(* What the report says.                                                   *)
(***************************************************************************)

Parts(lines) == Replay(ReadRecords(lines))
Kept(lines, e) == IF Coherent(lines, e) THEN About(lines, e) ELSE << >>

\* The report before the objects are looked at: the entries whose lines are
\* coherent, with these lines.
LEMMA FirstPass ==
  ASSUME NEW lines \in Seq(Lines)
  PROVE  LET r == Drop(Parts(lines)) IN
         /\ r \in Reports /\ Blamed(r)
         /\ r.errors = {} <=> /\ \A i \in 1..Len(lines) : Counts(lines, i)
                              /\ \A e \in Entry : Coherent(lines, e)
         /\ \A e \in Entry : /\ e \in r.tainted <=> ~Coherent(lines, e)
                             /\ r.entries[e] = Kept(lines, e)
<1> DEFINE n == Len(lines)
           q == ReadRecords(lines)
           s == Parts(lines)
           r == Drop(s)
<1>1. ReadSoFar(lines, q, n)
  BY ReadRecordsIs
<1>2. ReplayedSoFar(q, s, Len(q.records))
  BY <1>1, ReplayIs DEF ReadSoFar, Parts
<1>3. n \in Nat /\ DOMAIN lines = 1..n
  OBVIOUS
<1> HIDE DEF q, s, n
<1>4. /\ q \in Reports
      /\ \A e \in Entry : e \in q.tainted <=> \E j \in 1..n : lines[j].entry = e /\ ~Counts(lines, j)
      /\ q.errors = {} <=> \A j \in 1..n : Counts(lines, j)
      /\ \A e \in Entry \ q.tainted : About(q.records, e) = About(lines, e)
  BY <1>1 DEF ReadSoFar, About, n
<1>5. /\ s \in Reports /\ Blamed(s)
      /\ \A e \in Entry : e \in s.tainted <=> e \in q.tainted \/ ~OneLife(About(q.records, e))
      /\ s.errors = {} <=> q.errors = {} /\ \A e \in Entry : OneLife(About(q.records, e))
      /\ \A e \in Entry : OneLife(About(q.records, e)) => s.entries[e] = About(q.records, e)
  BY <1>2 DEF ReplayedSoFar, About
<1>6. \A e \in Entry : Coherent(lines, e) <=> e \notin q.tainted /\ OneLife(About(lines, e))
  BY <1>3, <1>4 DEF Coherent
<1>7. \A e \in Entry : e \in s.tainted <=> ~Coherent(lines, e)
  BY <1>4, <1>5, <1>6
<1>8. s.errors = {} <=> (\A i \in 1..n : Counts(lines, i)) /\ \A e \in Entry : Coherent(lines, e)
  BY <1>4, <1>5, <1>6
<1>9. \A e \in Entry : (IF e \in s.tainted THEN << >> ELSE s.entries[e]) = Kept(lines, e)
  BY <1>4, <1>5, <1>6, <1>7 DEF Kept
<1>10. /\ r \in Reports /\ r.errors = s.errors /\ r.tainted = s.tainted
       /\ \A e \in Entry : r.entries[e] = IF e \in s.tainted THEN << >> ELSE s.entries[e]
  <2> DEFINE rest == [e \in Entry |-> IF e \in s.tainted THEN << >> ELSE s.entries[e]]
  <2>1. rest \in [Entry -> Seq(ValidLines)]
    <3>1. << >> \in Seq(ValidLines)
      OBVIOUS
    <3> QED BY <1>5, <3>1 DEF Reports
  <2>2. r = [s EXCEPT !.entries = rest]
    BY DEF Drop
  <2>3. \A e \in Entry : rest[e] = IF e \in s.tainted THEN << >> ELSE s.entries[e]
    OBVIOUS
  <2> HIDE DEF rest, r
  <2>4. r \in Reports /\ r.errors = s.errors /\ r.tainted = s.tainted /\ r.entries = rest
    BY <1>5, <2>1, <2>2 DEF Reports
  <2> QED BY <2>3, <2>4
<1>11. Blamed(r)
  BY <1>5, <1>10 DEF Blamed
<1> HIDE DEF r
<1>12. /\ r.errors = {} <=> (\A i \in 1..n : Counts(lines, i)) /\ \A e \in Entry : Coherent(lines, e)
       /\ \A e \in Entry : (e \in r.tainted <=> ~Coherent(lines, e)) /\ r.entries[e] = Kept(lines, e)
  BY <1>7, <1>8, <1>9, <1>10
<1> QED BY <1>10, <1>11, <1>12 DEF r, s, n

\* The state of an entry that has records, and of one that has none.
LEMMA StatesAre ==
  ASSUME NEW h \in Seq(ValidLines)
  PROVE  /\ h = << >> => StateAfter(h) = "none"
         /\ h # << >> => /\ StateAfter(h) \in {"active", "purge_pending", "restored", "purged"}
                         /\ h[1].kind \in Kinds
<1>1. CASE h = << >>
  BY <1>1, LifeIs
<1>2. CASE h # << >>
  <2>1. Len(h) \in 1..Len(h) /\ 1 \in 1..Len(h)
    BY <1>2
  <2>2. h[Len(h)].op \in Operations /\ h[1].kind \in Kinds
    BY <2>1, ValidTypes
  <2>3. StateAfter(h) = PhaseAfter(h[Len(h)].op)
    BY <1>2, LifeIs
  <2> QED BY <1>2, <2>2, <2>3 DEF PhaseAfter, Operations
<1> QED BY <1>1, <1>2

\* The object directory of e is as the records h require.
Fits(e, h) ==
  /\ StateAfter(h) \in {"active", "purge_pending"} => box[e] = h[1].kind
  /\ StateAfter(h) \in {"restored", "purged"} => box[e] \in {"absent", "empty"}
  /\ StateAfter(h) = "none" => box[e] \in {"absent", "empty", "strays"}

\* The two loops of _reconcile_objects report nothing of an object exactly if it is
\* as its records require; and then they taint nothing.
LEMMA ObjectChecked ==
  ASSUME Typed, NEW e \in Entry, NEW h \in Seq(ValidLines)
  PROVE  /\ ObjectErrors(e, h) = {} <=> Fits(e, h)
         /\ Fits(e, h) => ~BoxTaints(e, h)
<1>0. ObjectErrors(e, h) = {} <=> BoxErrors(e, h) = {} /\ MissingErrors(e, h) = {}
  BY DEF ObjectErrors
<1>1. box[e] \in Boxes
  BY DEF Typed
<1>2. CASE h = << >>
  <2>1. StateAfter(h) = "none"
    BY <1>2, StatesAre
  <2>2. MissingErrors(e, h) = {} /\ ~BoxTaints(e, h)
    BY <1>2, <2>1 DEF MissingErrors, BoxTaints
  <2>3. BoxErrors(e, h) = {} <=> box[e] # "notdir" /\ ~HasPayload(e)
    BY <1>2 DEF BoxErrors
  <2>4. Fits(e, h) <=> box[e] \in {"absent", "empty", "strays"}
    BY <2>1 DEF Fits
  <2>5. box[e] # "notdir" /\ ~HasPayload(e) <=> box[e] \in {"absent", "empty", "strays"}
    BY <1>1, AuditAssumption DEF HasPayload, Boxes
  <2> QED BY <1>0, <2>2, <2>3, <2>4, <2>5
<1>3. CASE h # << >>
  <2>1. /\ StateAfter(h) \in {"active", "purge_pending", "restored", "purged"}
        /\ h[1].kind \in Kinds
    BY <1>3, StatesAre
  <2>2. CASE box[e] \in Kinds
    <3>1. box[e] \notin {"absent", "notdir", "empty", "special", "crowded", "strays"} /\ HasPayload(e)
      BY <2>2, AuditAssumption DEF HasPayload
    <3>2. MissingErrors(e, h) = {}
      BY <3>1 DEF MissingErrors
    <3>3. BoxErrors(e, h) = IF StateAfter(h) \in {"restored", "purged"} \/ box[e] # h[1].kind
                              THEN {Err("storage_failure", e)} ELSE {}
      BY <1>3, <2>2, <3>1 DEF BoxErrors
    <3>4. Fits(e, h) <=> ~(StateAfter(h) \in {"restored", "purged"} \/ box[e] # h[1].kind)
      BY <2>1, <3>1 DEF Fits
    <3>5. BoxErrors(e, h) = {} <=> Fits(e, h)
      BY <3>3, <3>4
    <3> QED BY <1>0, <3>2, <3>5 DEF BoxTaints
  <2>3. CASE box[e] \in {"crowded", "strays", "special", "notdir"}
    <3>1. BoxErrors(e, h) # {}
      BY <1>3, <2>3, AuditAssumption DEF BoxErrors
    <3>2. ~Fits(e, h)
      BY <2>1, <2>3, AuditAssumption DEF Fits
    <3> QED BY <1>0, <3>1, <3>2
  <2>4. CASE box[e] \in {"absent", "empty"}
    <3>1. BoxErrors(e, h) = {} /\ ~HasPayload(e) /\ box[e] # "notdir" /\ box[e] \notin Kinds
      BY <1>3, <2>4, AuditAssumption DEF BoxErrors, HasPayload
    <3>2. MissingErrors(e, h) = {} <=> StateAfter(h) \notin {"active", "purge_pending"}
      BY <3>1 DEF MissingErrors
    <3>3. Fits(e, h) <=> StateAfter(h) \notin {"active", "purge_pending"}
      BY <2>1, <2>4, <3>1 DEF Fits
    <3> QED BY <1>0, <3>1, <3>2, <3>3 DEF BoxTaints
  <2> QED BY <1>1, <2>2, <2>3, <2>4 DEF Boxes
<1> QED BY <1>2, <1>3

\* A payload that is not listed as one is reported.
LEMMA PayloadChecked ==
  ASSUME Typed, NEW e \in Entry, NEW h \in Seq(ValidLines), HasPayload(e)
  PROVE  \/ StateAfter(h) \in {"active", "purge_pending"} /\ ~BoxTaints(e, h)
         \/ \E x \in BoxErrors(e, h) : x.entry = e
         \/ box[e] = "special" /\ Err("unsupported_kind", None) \in BoxErrors(e, h)
<1>1. box[e] \in Kinds \cup {"special", "crowded"} /\ box[e] # "notdir"
  BY AuditAssumption DEF HasPayload
<1>2. \A code : Err(code, e).entry = e
  BY DEF Err
<1>3. CASE h = << >>
  <2>1. BoxErrors(e, h) = {Err("orphan_payload", e)}
    BY <1>1, <1>3 DEF BoxErrors
  <2> QED BY <1>2, <2>1
<1>4. CASE h # << >> /\ box[e] \in Kinds
  <2>1. box[e] \notin {"absent", "notdir", "empty", "special", "crowded", "strays"}
    BY <1>4, AuditAssumption
  <2>2. BoxErrors(e, h) = IF StateAfter(h) \in {"restored", "purged"} \/ box[e] # h[1].kind
                            THEN {Err("storage_failure", e)} ELSE {}
    BY <1>4, <2>1 DEF BoxErrors
  <2>3. MissingErrors(e, h) = {}
    BY DEF MissingErrors
  <2>4. StateAfter(h) \in {"active", "purge_pending", "restored", "purged"}
    BY <1>4, StatesAre
  <2>5. CASE StateAfter(h) \in {"restored", "purged"} \/ box[e] # h[1].kind
    BY <1>2, <2>2, <2>5
  <2>6. CASE ~(StateAfter(h) \in {"restored", "purged"} \/ box[e] # h[1].kind)
    BY <2>2, <2>3, <2>4, <2>6 DEF BoxTaints
  <2> QED BY <2>5, <2>6
<1>5. CASE h # << >> /\ box[e] = "crowded"
  <2>1. BoxErrors(e, h) = {Err("storage_failure", e)}
    BY <1>1, <1>5, AuditAssumption DEF BoxErrors
  <2> QED BY <1>2, <2>1
<1>6. CASE h # << >> /\ box[e] = "special"
  <2>1. BoxErrors(e, h) = {Err("unsupported_kind", None)}
    BY <1>1, <1>6, AuditAssumption DEF BoxErrors
  <2> QED BY <1>6, <2>1
<1> QED BY <1>1, <1>3, <1>4, <1>5, <1>6

\* The report: its errors are those of the lines and those of the objects, and
\* it lists what is coherent and not tainted by its object.
LEMMA ReportIs ==
  ASSUME Typed, NEW lines \in Seq(Lines)
  PROVE  LET r == Drop(Parts(lines)) IN
         /\ \A e \in Entry : Kept(lines, e) \in Seq(ValidLines)
         /\ Report(lines).errors =
              r.errors \cup UNION {ObjectErrors(e, Kept(lines, e)) : e \in Entry}
         /\ \A e \in Entry : Report(lines).listed[e] =
              IF BoxTaints(e, Kept(lines, e)) THEN "none" ELSE StateAfter(Kept(lines, e))
<1> DEFINE r == Drop(Parts(lines))
           s == Reconcile(r)
           t == Drop(s)
           found == r.errors \cup UNION {ObjectErrors(e, r.entries[e]) : e \in Entry}
           bad == r.tainted \cup {e \in Entry : BoxTaints(e, r.entries[e])}
<1>1. /\ r \in Reports
      /\ \A e \in Entry : (e \in r.tainted <=> ~Coherent(lines, e)) /\ r.entries[e] = Kept(lines, e)
  BY FirstPass
<1>2. AuditLayout(lines) = t
  BY DEF AuditLayout, Parts
<1> HIDE DEF r
<1>3. s = [r EXCEPT !.errors = found, !.tainted = bad]
  BY DEF Reconcile
<1> HIDE DEF found, bad, s
<1>4. s.errors = found /\ s.tainted = bad /\ s.entries = r.entries
  BY <1>1, <1>3 DEF Reports
<1>5. /\ t.errors = found
      /\ \A e \in Entry : t.entries[e] = IF e \in bad THEN << >> ELSE r.entries[e]
  <2> DEFINE rest == [e \in Entry |-> IF e \in s.tainted THEN << >> ELSE s.entries[e]]
  <2>1. t = [s EXCEPT !.entries = rest]
    BY DEF Drop
  <2>2. \A e \in Entry : rest[e] = IF e \in bad THEN << >> ELSE r.entries[e]
    BY <1>4
  <2> HIDE DEF rest, t
  <2>3. t.errors = s.errors /\ t.entries = rest
    BY <1>1, <1>3, <2>1 DEF Reports
  <2> QED BY <1>4, <2>2, <2>3
<1> HIDE DEF t
<1>6. Report(lines).errors = found /\ \A e \in Entry : Report(lines).listed[e] = StateAfter(t.entries[e])
  BY <1>2, <1>5 DEF Report
<1>7. \A e \in Entry : Kept(lines, e) \in Seq(ValidLines)
  BY <1>1 DEF Reports
<1>8. found = r.errors \cup UNION {ObjectErrors(e, Kept(lines, e)) : e \in Entry}
  <2>1. {ObjectErrors(e, r.entries[e]) : e \in Entry}
        = {ObjectErrors(e, Kept(lines, e)) : e \in Entry}
    BY <1>1
  <2> QED BY <2>1 DEF found
<1>9. \A e \in Entry : StateAfter(t.entries[e]) =
        IF BoxTaints(e, Kept(lines, e)) THEN "none" ELSE StateAfter(Kept(lines, e))
  <2> SUFFICES ASSUME NEW e \in Entry
               PROVE  StateAfter(t.entries[e]) =
                        IF BoxTaints(e, Kept(lines, e)) THEN "none" ELSE StateAfter(Kept(lines, e))
    OBVIOUS
  <2>1. << >> \in Seq(ValidLines)
    OBVIOUS
  <2>2. StateAfter(<< >>) = "none"
    BY <2>1, StatesAre
  <2>3. e \in bad <=> ~Coherent(lines, e) \/ BoxTaints(e, Kept(lines, e))
    BY <1>1 DEF bad
  <2>4. ~Coherent(lines, e) => Kept(lines, e) = << >>
    BY DEF Kept
  <2> QED BY <1>1, <1>5, <2>2, <2>3, <2>4
<1> QED BY <1>6, <1>7, <1>8, <1>9 DEF r

\* A line about another entry changes neither the lines of e nor whether they
\* are coherent.
LEMMA OthersDoNotMatter ==
  ASSUME NEW lines \in Seq(Lines), lines # << >>, NEW e \in Entry,
         lines[Len(lines)].entry # e
  PROVE  LET first == SubSeq(lines, 1, Len(lines) - 1) IN
         first \in Seq(Lines) /\ Kept(first, e) = Kept(lines, e)
<1> DEFINE n == Len(lines)
           first == SubSeq(lines, 1, n - 1)
<1>1. /\ n \in Nat /\ n > 0 /\ first \in Seq(Lines) /\ Len(first) = n - 1
      /\ \A i \in 1..n - 1 : first[i] = lines[i]
      /\ DOMAIN lines = 1..n /\ DOMAIN first = 1..n - 1
  <2>1. n \in Nat /\ n > 0 /\ DOMAIN lines = 1..n
    OBVIOUS
  <2>2. first = [i \in 1..n - 1 |-> lines[i]]
    <3>1. first = [i \in 1..(n - 1) - 1 + 1 |-> lines[1 + i - 1]]
      BY <2>1
    <3>2. (n - 1) - 1 + 1 = n - 1 /\ \A i \in 1..n - 1 : 1 + i - 1 = i
      BY <2>1
    <3> QED BY <3>1, <3>2
  <2> HIDE DEF first
  <2>3. \A i \in 1..n - 1 : lines[i] \in Lines
    BY <2>1
  <2>4. n - 1 \in Nat
    BY <2>1
  <2> HIDE DEF n
  <2>5. first \in Seq(Lines) /\ Len(first) = n - 1
    BY <2>2, <2>3, <2>4
  <2> QED BY <2>1, <2>2, <2>5
<1> HIDE DEF first
<1>2. Telling(lines, e)[n - 1] = Telling(first, e)[n - 1]
  <2>1. n - 1 \in 0..Len(first) /\ Len(first) <= Len(lines)
    BY <1>1
  <2>2. \A i \in 1..Len(first) : lines[i] = first[i]
    BY <1>1
  <2>3. \A i \in 0..Len(first) : Telling(lines, e)[i] = Telling(first, e)[i]
    BY <1>1, <2>1, <2>2, TellingAgrees
  <2> QED BY <2>1, <2>3
<1>3. Telling(lines, e)[n] = Telling(lines, e)[n - 1]
  <2>1. n \in 1..n
    BY <1>1
  <2> QED BY <2>1, TellingIs
<1>4. About(lines, e) = About(first, e)
  BY <1>1, <1>2, <1>3 DEF About
<1>5. \A i \in 1..n - 1 : Counts(lines, i) <=> Counts(first, i)
  <2>1. \A i \in 1..n - 1 : \A j \in 1..i - 1 : j \in 1..n - 1
    BY <1>1
  <2> QED BY <1>1, <2>1 DEF Counts
<1>6. (\A i \in 1..n : lines[i].entry = e => Counts(lines, i))
      <=> \A i \in 1..n - 1 : first[i].entry = e => Counts(first, i)
  <2>1. 1..n = (1..n - 1) \cup {n}
    BY <1>1
  <2> HIDE DEF n
  <2>2. \A i \in 1..n - 1 : (lines[i].entry = e => Counts(lines, i))
                        <=> (first[i].entry = e => Counts(first, i))
    BY <1>1, <1>5
  <2>3. lines[n].entry # e
    BY DEF n
  <2> QED BY <2>1, <2>2, <2>3
<1>7. Coherent(lines, e) <=> Coherent(first, e)
  <2> HIDE DEF n
  <2> QED BY <1>1, <1>4, <1>6 DEF Coherent
<1> QED BY <1>1, <1>4, <1>7 DEF Kept, first

-----------------------------------------------------------------------------
(***************************************************************************)
(* The theorems.                                                           *)
(***************************************************************************)

LEMMA TypedHolds == Spec => []Typed
<1>1. Init => Typed
  <2>1. << >> \in Seq(Lines)
    OBVIOUS
  <2> QED BY <2>1 DEF Init, Typed
<1>2. Typed /\ [Next]_vars => Typed'
  <2>1. ASSUME Typed, NEW l \in Lines, Write(l) PROVE Typed'
    <3>1. Append(log, l) \in Seq(Lines)
      BY <2>1 DEF Typed
    <3> QED BY <2>1, <3>1 DEF Typed, Write
  <2> QED BY <2>1 DEF Next, Typed, vars
<1> QED BY <1>1, <1>2, PTL DEF Spec

\* What the ledger says of an entry whose lines are coherent.
LEMMA AgreesIs ==
  ASSUME Typed, NEW e \in Entry, Coherent(log, e)
  PROVE  Kept(log, e) = LinesOf(e) /\ (Agrees(e) <=> Fits(e, LinesOf(e)))
<1>1. log \in Seq(Lines)
  BY DEF Typed
<1>2. Kept(log, e) = LinesOf(e)
  BY DEF Kept, LinesOf
<1>3. LinesOf(e) \in Seq(ValidLines)
  BY <1>1, <1>2, ReportIs
<1>4. State(e) \in {"active", "purge_pending", "restored", "purged", "none"}
  BY <1>3, StatesAre DEF State
<1> QED BY <1>2, <1>4 DEF Agrees, Fits, State

\* The audit reports an error exactly if the store is not sound: a line that is
\* no valid record or repeats an event, lines that tell no life of one object,
\* or an object directory that is not as they require (audit_layout).  So the
\* commands, which refuse a store with any error, go ahead on all sound stores
\* and on no others, for any ledger and any number of entries.
THEOREM AuditIsExact == Spec => []ErrorsAreExact
<1>1. ASSUME Typed PROVE ErrorsAreExact
  <2> DEFINE r == Drop(Parts(log))
             K(e) == Kept(log, e)
  <2>1. log \in Seq(Lines) /\ DOMAIN log = 1..Len(log)
    BY <1>1 DEF Typed
  <2>2. r.errors = {} <=> /\ \A i \in 1..Len(log) : Counts(log, i)
                          /\ \A e \in Entry : Coherent(log, e)
    BY <2>1, FirstPass
  <2>3. /\ \A e \in Entry : K(e) \in Seq(ValidLines)
        /\ Report(log).errors = r.errors \cup UNION {ObjectErrors(e, K(e)) : e \in Entry}
    BY <1>1, <2>1, ReportIs
  <2>4. \A e \in Entry : ObjectErrors(e, K(e)) = {} <=> Fits(e, K(e))
    BY <1>1, <2>3, ObjectChecked
  <2>5. \A e \in Entry : Coherent(log, e) => (Fits(e, K(e)) <=> Agrees(e))
    BY <1>1, AgreesIs
  <2> HIDE DEF r, K
  <2>6. Report(log).errors = {} <=> r.errors = {} /\ \A e \in Entry : Fits(e, K(e))
    <3> DEFINE B == UNION {ObjectErrors(e, K(e)) : e \in Entry}
    <3>1. B = {} <=> \A e \in Entry : ObjectErrors(e, K(e)) = {}
      OBVIOUS
    <3>2. Report(log).errors = r.errors \cup B
      BY <2>3
    <3> HIDE DEF B
    <3>3. Report(log).errors = {} <=> r.errors = {} /\ B = {}
      BY <3>2
    <3> QED BY <2>4, <3>1, <3>3
  <2> QED BY <2>1, <2>2, <2>5, <2>6 DEF ErrorsAreExact, Sound
<1> QED BY <1>1, TypedHolds, PTL

\* An entry that list shows has lines that all count, and it is shown in the
\* state they lead to: a damaged history gives no entry and never a guess.
THEOREM ListTellsTheTruth == Spec => []ListedIsTrue
<1>1. ASSUME Typed PROVE ListedIsTrue
  <2>1. log \in Seq(Lines)
    BY <1>1 DEF Typed
  <2> SUFFICES ASSUME NEW e \in Entry, Report(log).listed[e] # "none"
               PROVE  Coherent(log, e) /\ Report(log).listed[e] = State(e)
    BY DEF ListedIsTrue
  <2>2. Report(log).listed[e] = StateAfter(Kept(log, e)) /\ Kept(log, e) \in Seq(ValidLines)
    BY <1>1, <2>1, ReportIs
  <2>3. Kept(log, e) # << >>
    BY <2>2, StatesAre
  <2>4. Coherent(log, e)
    BY <2>3 DEF Kept
  <2> QED BY <1>1, <2>2, <2>4, AgreesIs DEF State
<1> QED BY <1>1, TypedHolds, PTL

\* An entry whose lines are coherent and agree with its object directory is
\* listed, whatever is wrong with the other entries and lines.
THEOREM SoundEntriesAreListed == Spec => []SoundIsListed
<1>1. ASSUME Typed PROVE SoundIsListed
  <2>1. log \in Seq(Lines)
    BY <1>1 DEF Typed
  <2> SUFFICES ASSUME NEW e \in Entry, Coherent(log, e), Agrees(e), State(e) # "none"
               PROVE  Report(log).listed[e] # "none"
    BY DEF SoundIsListed
  <2>2. Kept(log, e) = LinesOf(e) /\ Fits(e, LinesOf(e))
    BY <1>1, AgreesIs
  <2>3. /\ Kept(log, e) \in Seq(ValidLines)
        /\ Report(log).listed[e] =
             IF BoxTaints(e, Kept(log, e)) THEN "none" ELSE StateAfter(Kept(log, e))
    BY <1>1, <2>1, ReportIs
  <2>4. ~BoxTaints(e, Kept(log, e))
    BY <1>1, <2>2, <2>3, ObjectChecked
  <2> QED BY <2>2, <2>3, <2>4 DEF State
<1> QED BY <1>1, TypedHolds, PTL

\* Every payload below trash/objects is listed as one, or an error names its
\* entry, or it is of an unsupported kind and that is reported: damage never
\* makes a payload invisible.
THEOREM PayloadsAreSeen == Spec => []PayloadsAreAccounted
<1>1. ASSUME Typed PROVE PayloadsAreAccounted
  <2> DEFINE r == Drop(Parts(log))
             R == Report(log)
             K(e) == Kept(log, e)
  <2>1. log \in Seq(Lines)
    BY <1>1 DEF Typed
  <2>2. /\ \A e \in Entry : K(e) \in Seq(ValidLines)
        /\ R.errors = r.errors \cup UNION {ObjectErrors(e, K(e)) : e \in Entry}
        /\ \A e \in Entry : R.listed[e] = IF BoxTaints(e, K(e)) THEN "none" ELSE StateAfter(K(e))
    BY <1>1, <2>1, ReportIs
  <2> HIDE DEF R, r, K
  <2> SUFFICES ASSUME NEW e \in Entry, HasPayload(e)
               PROVE  \/ R.listed[e] \in {"active", "purge_pending"}
                      \/ \E x \in R.errors : x.entry = e
                      \/ box[e] = "special" /\ Err("unsupported_kind", None) \in R.errors
    BY DEF PayloadsAreAccounted, R
  <2>3. BoxErrors(e, K(e)) \subseteq R.errors
    BY <2>2 DEF ObjectErrors
  <2>4. \/ StateAfter(K(e)) \in {"active", "purge_pending"} /\ ~BoxTaints(e, K(e))
        \/ \E x \in BoxErrors(e, K(e)) : x.entry = e
        \/ box[e] = "special" /\ Err("unsupported_kind", None) \in BoxErrors(e, K(e))
    BY <1>1, <2>2, PayloadChecked
  <2> QED BY <2>2, <2>3, <2>4
<1> QED BY <1>1, TypedHolds, PTL

\* A line about one entry, whatever it is, changes nothing of what is listed
\* of another.
THEOREM DamageIsLocal == Spec => []LinesAreLocal
<1>1. ASSUME Typed PROVE LinesAreLocal
  <2>1. log \in Seq(Lines)
    BY <1>1 DEF Typed
  <2> DEFINE first == SubSeq(log, 1, Len(log) - 1)
  <2> SUFFICES ASSUME log # << >>, NEW e \in Entry, log[Len(log)].entry # e
               PROVE  Report(first).listed[e] = Report(log).listed[e]
    BY DEF LinesAreLocal
  <2>2. first \in Seq(Lines) /\ Kept(first, e) = Kept(log, e)
    BY <2>1, OthersDoNotMatter
  <2> HIDE DEF first
  <2>3. /\ Report(first).listed[e] =
             IF BoxTaints(e, Kept(first, e)) THEN "none" ELSE StateAfter(Kept(first, e))
        /\ Report(log).listed[e] =
             IF BoxTaints(e, Kept(log, e)) THEN "none" ELSE StateAfter(Kept(log, e))
    BY <1>1, <2>1, <2>2, ReportIs
  <2> QED BY <2>2, <2>3
<1> QED BY <1>1, TypedHolds, PTL
=============================================================================
