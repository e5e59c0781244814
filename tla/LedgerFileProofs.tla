-------------------------- MODULE LedgerFileProofs --------------------------
(***************************************************************************)
(* Proofs about LedgerFile, for any number of appends.                     *)
(*                                                                         *)
(* The argument looks at the file as it will be if the append in progress  *)
(* is not cut short, bytes \o todo.  A write does not change it, a cut     *)
(* leaves a prefix of it, and only Open makes it longer.                   *)
(***************************************************************************)
EXTENDS LedgerFile, SequenceTheorems, TLAPS

Planned == bytes \o todo

\* NeverGlued and NoBlankLine of any sequence of bytes.
Unglued(s) ==
  \A i \in 1..Len(s) - 1 :
    s[i].by # s[i + 1].by => "newline" \in {s[i].char, s[i + 1].char}

Unblank(s) ==
  \A i \in 1..Len(s) :
    s[i].char = "newline" => i > 1 /\ s[i - 1].char # "newline"

IInv ==
  /\ TypeOK
  /\ phase # "closed" => Len(texts) > 0
  /\ Unglued(Planned)
  /\ Unblank(Planned)

-----------------------------------------------------------------------------
(***************************************************************************)
(* The encoding of a record.                                               *)
(***************************************************************************)

\* A record is some characters that are not the end of a line, and nothing
\* else.
LEMMA BodyShape ==
  ASSUME NEW t \in Texts
  PROVE  /\ Body(t) \in Seq(Chars)
         /\ Len(Body(t)) \in Nat /\ Len(Body(t)) >= 3
         /\ \A i \in 1..Len(Body(t)) : Body(t)[i] # "newline"
<1>1. t \in {"plain", "wide", "break"}
  BY FileAssumption
<1>2. CASE t = "plain"
  <2>1. Body(t) = <<"open", "char", "close">>
    BY <1>2 DEF Body
  <2> QED BY <2>1 DEF Chars
<1>3. CASE t = "wide"
  <2>1. Body(t) = <<"open", "lead", "trail", "close">>
    BY <1>3 DEF Body
  <2> QED BY <2>1 DEF Chars
<1>4. CASE t = "break"
  <2>1. Body(t) = <<"open", "break", "close">>
    BY <1>4 DEF Body
  <2> QED BY <2>1 DEF Chars
<1> QED BY <1>1, <1>2, <1>3, <1>4

\* Its encoding adds the end of the line, and all of it is of one append.
LEMMA EncodedShape ==
  ASSUME NEW t \in Texts, NEW k \in 1..MaxAppends
  PROVE  /\ Encoded(k, t) \in Seq(Byte)
         /\ Len(Encoded(k, t)) = Len(Body(t)) + 1
         /\ \A i \in 1..Len(Body(t)) + 1 :
              /\ Encoded(k, t)[i].by = k
              /\ Encoded(k, t)[i].char =
                   IF i <= Len(Body(t)) THEN Body(t)[i] ELSE "newline"
<1> DEFINE s == Body(t) \o <<"newline">>
<1>1. /\ Body(t) \in Seq(Chars)
      /\ <<"newline">> \in Seq(Chars)
      /\ Len(<<"newline">>) = 1 /\ <<"newline">>[1] = "newline"
  BY BodyShape DEF Chars
<1>2. /\ s \in Seq(Chars)
      /\ Len(s) = Len(Body(t)) + 1
      /\ \A i \in 1..Len(s) : s[i] = IF i <= Len(Body(t)) THEN Body(t)[i] ELSE "newline"
  BY <1>1, BodyShape
<1>3. Encoded(k, t) = [i \in 1..Len(s) |-> [by |-> k, char |-> s[i]]]
  BY DEF Encoded
<1> HIDE DEF s
<1>4. \A i \in 1..Len(s) : [by |-> k, char |-> s[i]] \in Byte
  BY <1>2 DEF Byte
<1>5. Len(s) \in Nat
  BY <1>2, BodyShape
<1>6. Encoded(k, t) \in [1..Len(s) -> Byte]
  BY <1>3, <1>4
<1>7. Encoded(k, t) \in Seq(Byte) /\ Len(Encoded(k, t)) = Len(s)
  BY <1>3, <1>5, <1>6
<1> QED BY <1>2, <1>3, <1>5, <1>7

-----------------------------------------------------------------------------
(***************************************************************************)
(* What a step does to the planned file.                                   *)
(***************************************************************************)

\* A prefix of a good file is a good file.
LEMMA PrefixIsGood ==
  ASSUME NEW s \in Seq(Byte), NEW t \in Seq(Byte)
  PROVE  /\ Unglued(s \o t) => Unglued(s)
         /\ Unblank(s \o t) => Unblank(s)
<1>1. /\ Len(s) \in Nat /\ Len(t) \in Nat
      /\ Len(s \o t) = Len(s) + Len(t)
      /\ \A i \in 1..Len(s) : (s \o t)[i] = s[i]
  OBVIOUS
<1> DEFINE u == s \o t
<1>2. /\ Len(u) = Len(s) + Len(t)
      /\ \A i \in 1..Len(s) : u[i] = s[i]
  BY <1>1
<1> HIDE DEF u
<1>3. Unglued(u) => Unglued(s)
  BY <1>1, <1>2 DEF Unglued
<1>4. ASSUME Unblank(u) PROVE Unblank(s)
  <2> SUFFICES ASSUME NEW i \in 1..Len(s), s[i].char = "newline"
               PROVE  i > 1 /\ s[i - 1].char # "newline"
    BY DEF Unblank
  <2>1. i \in 1..Len(u) /\ u[i].char = "newline"
    BY <1>1, <1>2
  <2>2. i > 1 /\ u[i - 1].char # "newline"
    BY <1>4, <2>1 DEF Unblank
  <2> QED BY <1>1, <1>2, <2>2
<1> QED BY <1>3, <1>4 DEF u

\* A write moves bytes from one side of the planned file to the other.
LEMMA WriteKeepsPlan ==
  ASSUME NEW s \in Seq(Byte), NEW t \in Seq(Byte), NEW n \in 1..Len(t)
  PROVE  /\ SubSeq(t, 1, n) \in Seq(Byte)
         /\ SubSeq(t, n + 1, Len(t)) \in Seq(Byte)
         /\ Len(SubSeq(t, n + 1, Len(t))) = Len(t) - n
         /\ (s \o SubSeq(t, 1, n)) \o SubSeq(t, n + 1, Len(t)) = s \o t
<1>1. Len(t) \in Nat /\ n \in Nat /\ 1 <= n /\ n <= Len(t)
  OBVIOUS
<1>2. /\ SubSeq(t, 1, n) \in Seq(Byte)
      /\ SubSeq(t, n + 1, Len(t)) \in Seq(Byte)
      /\ Len(SubSeq(t, n + 1, Len(t))) = Len(t) - n
  BY <1>1
<1>3. SubSeq(t, 1, n) \o SubSeq(t, n + 1, Len(t)) = t
  <2>1. SubSeq(t, 1, n) \o SubSeq(t, n + 1, Len(t)) = SubSeq(t, 1, Len(t))
    <3>1. 1 \in 1..Len(t) + 1 /\ n \in 1 - 1..Len(t) /\ Len(t) \in n..Len(t)
      BY <1>1
    <3> QED BY <3>1, ConcatAdjacentSubSeq
  <2> QED BY <2>1, SubSeqFull
<1> DEFINE a == SubSeq(t, 1, n)
           b == SubSeq(t, n + 1, Len(t))
<1>4. a \in Seq(Byte) /\ b \in Seq(Byte) /\ a \o b = t
  BY <1>2, <1>3
<1> HIDE DEF a, b
<1>5. (s \o a) \o b = s \o (a \o b)
  <2>1. s \in Seq(Byte) /\ a \in Seq(Byte) /\ b \in Seq(Byte)
    BY <1>4
  <2> HIDE <1>4
  <2>2. ASSUME NEW S, s \in Seq(S), a \in Seq(S), b \in Seq(S)
        PROVE  (s \o a) \o b = s \o (a \o b)
    BY ONLY <2>2, ConcatAssociative, SMTT(60)
  <2> QED BY <2>1, <2>2
<1>6. (s \o a) \o b = s \o t
  BY <1>4, <1>5, Zenon
<1> QED BY <1>2, <1>6 DEF a, b

\* Two good files joined are a good file if a line ends where they meet, and
\* ends there only once.
LEMMA JoinIsGood ==
  ASSUME NEW s \in Seq(Byte), NEW d \in Seq(Byte),
         Unglued(s), Unblank(s), Unglued(d),
         d # << >>,
         \A i \in 2..Len(d) : d[i].char = "newline" => d[i - 1].char # "newline",
         s = << >> => d[1].char # "newline",
         s # << >> => (d[1].char = "newline" <=> s[Len(s)].char # "newline")
  PROVE  Unglued(s \o d) /\ Unblank(s \o d)
<1> DEFINE u == s \o d
           l == Len(s)
           m == Len(d)
<1>1. l \in Nat /\ m \in Nat /\ m > 0 /\ Len(u) = l + m
  BY ConcatProperties
<1>elem. \A i \in 1..l + m : u[i] = IF i <= l THEN s[i] ELSE d[i - l]
  BY ConcatProperties
<1>2. l > 0 => s # << >>
  OBVIOUS
<1>3. l = 0 => s = << >>
  OBVIOUS
<1>4. /\ Unglued(s) <=> \A i \in 1..l - 1 :
           s[i].by # s[i + 1].by => "newline" \in {s[i].char, s[i + 1].char}
      /\ Unglued(d) <=> \A i \in 1..m - 1 :
           d[i].by # d[i + 1].by => "newline" \in {d[i].char, d[i + 1].char}
      /\ Unblank(s) <=> \A i \in 1..l :
           s[i].char = "newline" => i > 1 /\ s[i - 1].char # "newline"
  BY DEF Unglued, Unblank
<1>5. \A i \in 2..m : d[i].char = "newline" => d[i - 1].char # "newline"
  OBVIOUS
<1>6. l = 0 => d[1].char # "newline"
  BY <1>3
<1>7. l > 0 => (d[1].char = "newline" <=> s[l].char # "newline")
  BY <1>2
<1> HIDE DEF u, l, m
<1>8. Unglued(u)
  <2> SUFFICES ASSUME NEW i \in 1..Len(u) - 1, u[i].by # u[i + 1].by
               PROVE  "newline" \in {u[i].char, u[i + 1].char}
    BY DEF Unglued
  <2>0. i \in 1..Len(u) - 1
    OBVIOUS
  <2>1. i \in 1..l + m /\ i + 1 \in 1..l + m
    BY ONLY <1>1, <2>0
  <2>2. CASE i < l
    <3>1. u[i] = s[i] /\ u[i + 1] = s[i + 1] /\ i \in 1..l - 1
      BY <1>1, <1>elem, <2>1, <2>2
    <3> QED BY <3>1, <1>4
  <2>3. CASE i = l
    <3>1. u[i] = s[l] /\ u[i + 1] = d[1] /\ l > 0
      BY <1>1, <1>elem, <2>1, <2>3
    <3> QED BY <3>1, <1>7
  <2>4. CASE i > l
    <3>0. ~(i + 1 <= l) /\ ~(i <= l)
      BY <1>1, <2>1, <2>4
    <3>1. u[i] = d[i - l] /\ u[i + 1] = d[(i + 1) - l]
      BY <1>1, <1>elem, <2>1, <3>0
    <3>2. (i + 1) - l = (i - l) + 1 /\ i - l \in 1..m - 1
      BY <1>1, <2>1, <2>4
    <3>3. u[i + 1] = d[(i - l) + 1]
      BY <3>1, <3>2
    <3> QED BY <3>1, <3>2, <3>3, <1>4
  <2> QED BY <1>1, <2>1, <2>2, <2>3, <2>4
<1>9. Unblank(u)
  <2> SUFFICES ASSUME NEW i \in 1..Len(u), u[i].char = "newline"
               PROVE  i > 1 /\ u[i - 1].char # "newline"
    BY DEF Unblank
  <2>1. i \in 1..l + m
    BY <1>1
  <2>2. CASE i <= l
    <3>1. u[i] = s[i] /\ i \in 1..l
      BY <1>1, <1>elem, <2>1, <2>2
    <3>2. i > 1 /\ s[i - 1].char # "newline"
      BY <3>1, <1>4
    <3>3. u[i - 1] = s[i - 1]
      BY <1>1, <1>elem, <2>1, <2>2, <3>2
    <3> QED BY <3>2, <3>3
  <2>3. CASE i = l + 1
    <3>1. u[i] = d[1]
      BY <1>1, <1>elem, <2>1, <2>3
    <3>2. l > 0
      BY <1>1, <1>6, <3>1
    <3>3. u[i - 1] = s[l]
      BY <1>1, <1>elem, <2>1, <2>3, <3>2
    <3> QED BY <1>1, <1>7, <2>3, <3>1, <3>2, <3>3
  <2>4. CASE i > l + 1
    <3>0. i - 1 \in 1..l + m /\ ~(i - 1 <= l) /\ ~(i <= l)
      BY <1>1, <2>1, <2>4
    <3>1. u[i] = d[i - l] /\ u[i - 1] = d[(i - 1) - l]
      BY <1>1, <1>elem, <2>1, <3>0
    <3>2. (i - 1) - l = (i - l) - 1 /\ i - l \in 2..m /\ i > 1
      BY <1>1, <2>1, <2>4
    <3>3. u[i - 1] = d[(i - l) - 1]
      BY <3>1, <3>2
    <3> QED BY <3>1, <3>2, <3>3, <1>5
  <2> QED BY <1>1, <2>1, <2>2, <2>3, <2>4
<1> QED BY <1>8, <1>9 DEF u

\* What Open plans to write fits the file: there is a separator exactly if the
\* file does not end with the end of a line.
LEMMA OpenFits ==
  ASSUME NEW t \in Texts, NEW k \in 1..MaxAppends,
         bytes \in Seq(Byte), Unglued(bytes), Unblank(bytes)
  PROVE  /\ Separator(k) \o Encoded(k, t) \in Seq(Byte)
         /\ Separator(k) \o Encoded(k, t) # << >>
         /\ Unglued(bytes \o (Separator(k) \o Encoded(k, t)))
         /\ Unblank(bytes \o (Separator(k) \o Encoded(k, t)))
<1> DEFINE c == Encoded(k, t)
           n == Len(Body(t))
<1>1. /\ c \in Seq(Byte) /\ n \in Nat /\ n >= 3 /\ Len(c) = n + 1
      /\ \A i \in 1..n + 1 : c[i].by = k
      /\ \A i \in 1..n : c[i].char # "newline"
  BY BodyShape, EncodedShape
<1> HIDE DEF c, n
<1>2. CASE bytes # << >> /\ bytes[Len(bytes)].char # "newline"
  <2> DEFINE nl == [by |-> k, char |-> "newline"]
             d == <<nl>> \o c
  <2>1. Separator(k) = <<nl>>
    BY <1>2 DEF Separator
  <2>2. nl \in Byte
    BY DEF Byte, Chars
  <2>3. <<nl>> \in Seq(Byte) /\ Len(<<nl>>) = 1 /\ <<nl>>[1] = nl
    BY <2>2
  <2>4. nl.by = k /\ nl.char = "newline"
    OBVIOUS
  <2> HIDE DEF nl
  <2>5. /\ d \in Seq(Byte) /\ Len(d) = n + 2
        /\ \A i \in 1..n + 2 : d[i] = IF i = 1 THEN nl ELSE c[i - 1]
    <3>1. /\ d \in Seq(Byte) /\ Len(d) = 1 + (n + 1)
          /\ \A i \in 1..1 + (n + 1) :
               d[i] = IF i <= 1 THEN <<nl>>[i] ELSE c[i - 1]
      BY <1>1, <2>3, ConcatProperties
    <3> QED BY <3>1, <2>3, <1>1
  <2> HIDE DEF d
  <2>6. /\ d # << >>
        /\ d[1].char = "newline"
        /\ \A i \in 1..n + 2 : d[i].by = k
        /\ \A i \in 2..n + 1 : d[i].char # "newline"
    <3>1. d # << >> /\ d[1] = nl
      BY <1>1, <2>5
    <3>2. ASSUME NEW i \in 2..n + 2
          PROVE  d[i] = c[i - 1] /\ i - 1 \in 1..n + 1 /\ (i # n + 2 => i - 1 \in 1..n)
      BY <1>1, <2>5
    <3>3. ASSUME NEW i \in 1..n + 2 PROVE d[i].by = k
      BY <1>1, <2>4, <3>1, <3>2
    <3>4. ASSUME NEW i \in 2..n + 1 PROVE d[i].char # "newline"
      BY <1>1, <3>2
    <3> QED BY <2>4, <3>1, <3>3, <3>4
  <2>7. Unglued(d)
    BY <1>1, <2>5, <2>6 DEF Unglued
  <2>8. ASSUME NEW i \in 2..Len(d), d[i].char = "newline"
        PROVE  d[i - 1].char # "newline"
    <3>1. i = n + 2
      BY <1>1, <2>5, <2>6, <2>8
    <3> QED BY <3>1, <1>1, <2>6
  <2>9. Unglued(bytes \o d) /\ Unblank(bytes \o d)
    BY <1>2, <2>5, <2>6, <2>7, <2>8, JoinIsGood
  <2> QED BY <2>1, <2>5, <2>6, <2>9 DEF c, d
<1>3. CASE ~(bytes # << >> /\ bytes[Len(bytes)].char # "newline")
  <2>1. Separator(k) = << >>
    BY <1>3 DEF Separator
  <2>2. << >> \o c = c /\ c # << >>
    BY <1>1
  <2>3. Unglued(c)
    BY <1>1 DEF Unglued
  <2>4. ASSUME NEW i \in 2..Len(c) PROVE c[i - 1].char # "newline"
    BY <1>1
  <2>5. c[1].char # "newline"
    BY <1>1
  <2>6. Unglued(bytes \o c) /\ Unblank(bytes \o c)
    BY <1>1, <1>3, <2>2, <2>3, <2>4, <2>5, JoinIsGood
  <2> QED BY <1>1, <2>1, <2>2, <2>6 DEF c
<1> QED BY <1>2, <1>3

-----------------------------------------------------------------------------
(***************************************************************************)
(* The invariant.                                                          *)
(***************************************************************************)

LEMMA InitIInv == Init => IInv
<1> SUFFICES ASSUME Init PROVE IInv
  OBVIOUS
<1>1. TypeOK /\ phase = "closed"
  BY FileAssumption DEF Init, TypeOK
<1>2. Len(Planned) = 0
  BY DEF Init, Planned
<1>3. Unglued(Planned) /\ Unblank(Planned)
  BY <1>2 DEF Unglued, Unblank
<1> QED BY <1>1, <1>3 DEF IInv

LEMMA OpenIInv ==
  ASSUME IInv, NEW t \in Texts, Open(t)
  PROVE  IInv'
<1> DEFINE k == Len(texts) + 1
<1>1. /\ bytes \in Seq(Byte) /\ texts \in Seq(Texts) /\ todo = << >>
      /\ Len(texts) \in Nat /\ k \in 1..MaxAppends
      /\ acked \subseteq 1..Len(texts)
  BY FileAssumption DEF IInv, TypeOK, Open
<1>2. Unglued(bytes) /\ Unblank(bytes)
  BY <1>1, PrefixIsGood DEF IInv, Planned, TypeOK
<1>3. /\ todo' = Separator(k) \o Encoded(k, t)
      /\ bytes' = bytes /\ phase' = "writing"
      /\ texts' = Append(texts, t) /\ acked' = acked
  BY DEF Open
<1>4. /\ texts' \in Seq(Texts) /\ Len(texts') = k
  BY <1>1, <1>3
<1> HIDE DEF k
<1>5. /\ todo' \in Seq(Byte) /\ todo' # << >>
      /\ Unglued(bytes' \o todo') /\ Unblank(bytes' \o todo')
  BY <1>1, <1>2, <1>3, OpenFits
<1>6. acked' \subseteq 1..Len(texts')
  BY <1>1, <1>3, <1>4 DEF k
<1>7. TypeOK'
  BY <1>1, <1>3, <1>4, <1>5, <1>6 DEF TypeOK
<1>8. Len(texts') > 0
  BY <1>1, <1>4
<1>9. Unglued(Planned)' /\ Unblank(Planned)'
  BY <1>5 DEF Planned, Unglued, Unblank
<1> QED BY <1>7, <1>8, <1>9 DEF IInv

LEMMA WriteIInv ==
  ASSUME IInv, NEW n \in 1..Len(todo), Write(n)
  PROVE  IInv'
<1>1. /\ bytes \in Seq(Byte) /\ todo \in Seq(Byte)
      /\ Len(todo) \in Nat /\ n \in Nat
  BY DEF IInv, TypeOK
<1>2. /\ bytes' = bytes \o SubSeq(todo, 1, n)
      /\ todo' = SubSeq(todo, n + 1, Len(todo))
      /\ texts' = texts /\ acked' = acked
      /\ phase' = IF n = Len(todo) THEN "flushing" ELSE "writing"
  BY DEF Write
<1>3. /\ SubSeq(todo, 1, n) \in Seq(Byte) /\ todo' \in Seq(Byte)
      /\ Len(todo') = Len(todo) - n
      /\ bytes' \o todo' = bytes \o todo
  BY <1>1, <1>2, WriteKeepsPlan
<1>4. bytes' \in Seq(Byte)
  BY <1>1, <1>2, <1>3, ConcatProperties
<1>5. phase' = "writing" <=> todo' # << >>
  <2>1. todo' = << >> <=> Len(todo') = 0
    BY <1>3, EmptySeq
  <2> QED BY <1>1, <1>2, <1>3, <2>1
<1>6. TypeOK'
  BY <1>2, <1>3, <1>4, <1>5 DEF IInv, TypeOK
<1>7. Len(texts') > 0
  BY <1>2 DEF IInv, Write
<1>8. Planned' = Planned
  BY <1>3 DEF Planned
<1>9. Unglued(Planned)' /\ Unblank(Planned)'
  BY <1>8 DEF IInv, Unglued, Unblank
<1> QED BY <1>6, <1>7, <1>9 DEF IInv

LEMMA FlushIInv ==
  ASSUME IInv, Flush
  PROVE  IInv'
<1>1. /\ bytes' = bytes /\ todo' = todo /\ texts' = texts
      /\ phase = "flushing" /\ phase' = "closed"
      /\ acked' = acked \cup {Len(texts)}
  BY DEF Flush
<1>2. Len(texts) \in 1..Len(texts)
  BY <1>1 DEF IInv, TypeOK
<1>3. TypeOK'
  BY <1>1, <1>2 DEF IInv, TypeOK
<1>4. Unglued(Planned)' /\ Unblank(Planned)'
  BY <1>1 DEF IInv, Planned, Unglued, Unblank
<1> QED BY <1>1, <1>3, <1>4 DEF IInv

LEMMA CutShortIInv ==
  ASSUME IInv, CutShort
  PROVE  IInv'
<1>1. /\ bytes' = bytes /\ todo' = << >> /\ texts' = texts
      /\ phase' = "closed" /\ acked' = acked
  BY DEF CutShort
<1>2. bytes \in Seq(Byte) /\ todo \in Seq(Byte)
  BY DEF IInv, TypeOK
<1>3. TypeOK'
  BY <1>1 DEF IInv, TypeOK
<1>4. Unglued(bytes) /\ Unblank(bytes)
  BY <1>2, PrefixIsGood DEF IInv, Planned
<1>5. Planned' = bytes
  BY <1>1, <1>2, ConcatEmptySeq DEF Planned
<1>6. Unglued(Planned)' /\ Unblank(Planned)'
  BY <1>4, <1>5 DEF Unglued, Unblank
<1> QED BY <1>1, <1>3, <1>6 DEF IInv

LEMMA NextIInv == IInv /\ [Next]_vars => IInv'
<1> SUFFICES ASSUME IInv, [Next]_vars PROVE IInv'
  OBVIOUS
<1>1. CASE \E t \in Texts : Open(t)
  BY <1>1, OpenIInv
<1>2. CASE \E n \in 1..Len(todo) : Write(n)
  BY <1>2, WriteIInv
<1>3. CASE Flush
  BY <1>3, FlushIInv
<1>4. CASE CutShort
  BY <1>4, CutShortIInv
<1>5. CASE UNCHANGED vars
  <2>1. /\ bytes' = bytes /\ todo' = todo /\ texts' = texts
        /\ phase' = phase /\ acked' = acked
    BY <1>5 DEF vars
  <2> QED BY <2>1 DEF IInv, TypeOK, Planned, Unglued, Unblank
<1> QED BY <1>1, <1>2, <1>3, <1>4, <1>5 DEF Next

LEMMA IInvHolds == Spec => []IInv
<1> QED BY InitIInv, NextIInv, PTL DEF Spec

-----------------------------------------------------------------------------
(***************************************************************************)
(* The theorems.                                                           *)
(***************************************************************************)

\* The write loop of append_event runs exactly as long as bytes are left, and
\* an append is acknowledged only after it was begun.
THEOREM TypeCorrect == Spec => []TypeOK
<1>1. IInv => TypeOK
  BY DEF IInv
<1> QED BY <1>1, IInvHolds, PTL

\* However many appends are cut short, and after however few bytes, the bytes
\* of two appends never share a line (the trailing-newline check of
\* append_event).
THEOREM GluedNever == Spec => []NeverGlued
<1>1. ASSUME IInv PROVE NeverGlued
  <2>1. bytes \in Seq(Byte) /\ todo \in Seq(Byte) /\ Unglued(bytes \o todo)
    BY <1>1 DEF IInv, TypeOK, Planned
  <2>2. Unglued(bytes)
    BY <2>1, PrefixIsGood
  <2> QED BY <2>2 DEF Unglued, NeverGlued
<1> QED BY <1>1, IInvHolds, PTL

\* The separator that append_event writes never makes a blank line.
THEOREM BlankNever == Spec => []NoBlankLine
<1>1. ASSUME IInv PROVE NoBlankLine
  <2>1. bytes \in Seq(Byte) /\ todo \in Seq(Byte) /\ Unblank(bytes \o todo)
    BY <1>1 DEF IInv, TypeOK, Planned
  <2>2. Unblank(bytes)
    BY <2>1, PrefixIsGood
  <2> QED BY <2>2 DEF Unblank, NoBlankLine
<1> QED BY <1>1, IInvHolds, PTL

-----------------------------------------------------------------------------
(***************************************************************************)
(* What an acknowledged append leaves in the file.                         *)
(***************************************************************************)

\* The record k of text t is in s from some byte on, between two line ends.
Whole(s, k, t) ==
  LET n == Len(Body(t)) IN
  \E i \in 1..Len(s) :
    /\ i + n <= Len(s)
    /\ \A m \in 1..n : s[i + m - 1] = [by |-> k, char |-> Body(t)[m]]
    /\ s[i + n].char = "newline"
    /\ i > 1 => s[i - 1].char = "newline"

RInv ==
  /\ \A k \in acked : Whole(bytes, k, texts[k])
  /\ phase # "closed" => Whole(Planned, Len(texts), texts[Len(texts)])

\* What is in a file stays in it when the file grows.
LEMMA WholeStays ==
  ASSUME NEW s \in Seq(Byte), NEW d \in Seq(Byte), NEW t \in Texts, NEW k, Whole(s, k, t)
  PROVE  Whole(s \o d, k, t)
<1> DEFINE n == Len(Body(t))
           u == s \o d
<1>1. n \in Nat /\ n >= 3
  BY BodyShape
<1>2. /\ Len(s) \in Nat /\ Len(d) \in Nat /\ Len(u) = Len(s) + Len(d)
      /\ \A i \in 1..Len(s) : u[i] = s[i]
  BY ConcatProperties
<1>3. PICK i \in 1..Len(s) :
        /\ i + n <= Len(s)
        /\ \A m \in 1..n : s[i + m - 1] = [by |-> k, char |-> Body(t)[m]]
        /\ s[i + n].char = "newline"
        /\ i > 1 => s[i - 1].char = "newline"
  BY DEF Whole
<1> HIDE DEF n, u
<1>4. i \in 1..Len(u) /\ i + n <= Len(u)
  BY <1>1, <1>2, <1>3
<1>5. \A m \in 1..n : u[i + m - 1] = [by |-> k, char |-> Body(t)[m]]
  <2> SUFFICES ASSUME NEW m \in 1..n PROVE u[i + m - 1] = [by |-> k, char |-> Body(t)[m]]
    OBVIOUS
  <2>1. i + m - 1 \in 1..Len(s)
    BY <1>1, <1>2, <1>3
  <2> QED BY <1>2, <1>3, <2>1
<1>6. u[i + n].char = "newline"
  <2>1. i + n \in 1..Len(s)
    BY <1>1, <1>2, <1>3
  <2> QED BY <1>2, <1>3, <2>1
<1>7. i > 1 => u[i - 1].char = "newline"
  <2>1. i > 1 => i - 1 \in 1..Len(s)
    BY <1>1, <1>2, <1>3
  <2> QED BY <1>2, <1>3, <2>1
<1> QED BY <1>4, <1>5, <1>6, <1>7 DEF Whole, n, u

\* Open plans a whole record: behind the end of a line, or at the very front.
LEMMA OpenPlans ==
  ASSUME NEW t \in Texts, NEW k \in 1..MaxAppends, bytes \in Seq(Byte)
  PROVE  Whole(bytes \o (Separator(k) \o Encoded(k, t)), k, t)
<1> DEFINE c == Encoded(k, t)
           n == Len(Body(t))
           sep == Separator(k)
           d == sep \o c
           u == bytes \o d
           l == Len(bytes)
           x == Len(sep)
<1>1. /\ c \in Seq(Byte) /\ n \in Nat /\ n >= 3 /\ Len(c) = n + 1 /\ l \in Nat
      /\ \A m \in 1..n : c[m] = [by |-> k, char |-> Body(t)[m]]
      /\ c[n + 1].char = "newline"
  <2>1. /\ c \in Seq(Byte) /\ n \in Nat /\ n >= 3 /\ Len(c) = n + 1 /\ l \in Nat
        /\ \A m \in 1..n + 1 : c[m].by = k /\ c[m].char = IF m <= n THEN Body(t)[m] ELSE "newline"
    BY BodyShape, EncodedShape
  <2> HIDE DEF c, n
  <2>2. \A m \in 1..n : c[m] \in Byte /\ c[m].by = k /\ c[m].char = Body(t)[m]
    BY <2>1
  <2>3. \A m \in 1..n : c[m] = [by |-> k, char |-> Body(t)[m]]
    BY <2>2 DEF Byte
  <2>4. c[n + 1].char = "newline"
    BY <2>1
  <2> QED BY <2>1, <2>3, <2>4
<1>2. sep \in Seq(Byte) /\ x \in {0, 1} /\ (x = 1 => sep[1].char = "newline")
      /\ (x = 0 /\ l > 0 => bytes[l].char = "newline")
  <2>1. CASE bytes # << >> /\ bytes[Len(bytes)].char # "newline"
    <3>1. sep = <<[by |-> k, char |-> "newline"]>>
      BY <2>1 DEF Separator
    <3>2. [by |-> k, char |-> "newline"] \in Byte
      BY DEF Byte, Chars
    <3> QED BY <3>1, <3>2
  <2>2. CASE ~(bytes # << >> /\ bytes[Len(bytes)].char # "newline")
    <3>1. sep = << >>
      BY <2>2 DEF Separator
    <3>2. l > 0 => bytes # << >>
      BY EmptySeq
    <3> QED BY <2>2, <3>1, <3>2
  <2> QED BY <2>1, <2>2
<1> HIDE DEF c, n, sep
<1>3. /\ d \in Seq(Byte) /\ Len(d) = x + n + 1
      /\ \A i \in 1..x + n + 1 : d[i] = IF i <= x THEN sep[i] ELSE c[i - x]
  <2>1. /\ d \in Seq(Byte) /\ Len(d) = x + Len(c)
        /\ \A i \in 1..x + Len(c) : d[i] = IF i <= x THEN sep[i] ELSE c[i - x]
    BY <1>1, <1>2, ConcatProperties
  <2> HIDE DEF d, x
  <2>2. x + Len(c) = x + n + 1
    BY <1>1, <1>2
  <2> QED BY <2>1, <2>2
<1> HIDE DEF d
<1>4. /\ Len(u) = l + x + n + 1
      /\ \A i \in 1..l + x + n + 1 : u[i] = IF i <= l THEN bytes[i] ELSE d[i - l]
  <2>1. Len(u) = l + Len(d) /\ \A i \in 1..l + Len(d) : u[i] = IF i <= l THEN bytes[i] ELSE d[i - l]
    <3>1. bytes \in Seq(Byte) /\ d \in Seq(Byte)
      BY <1>3
    <3> HIDE <1>3
    <3> QED BY <3>1, ConcatProperties
  <2> HIDE DEF u, l, x
  <2>2. l + Len(d) = l + x + n + 1
    BY <1>1, <1>2, <1>3
  <2> QED BY <2>1, <2>2
<1> HIDE DEF u, l, x
<1>5. \A i \in 1..n + 1 : u[l + x + i] = c[i]
  <2> SUFFICES ASSUME NEW i \in 1..n + 1 PROVE u[l + x + i] = c[i]
    OBVIOUS
  <2>1. u[l + x + i] = d[x + i]
    BY <1>1, <1>2, <1>4
  <2>2. d[x + i] = c[i]
    BY <1>1, <1>2, <1>3
  <2> QED BY <2>1, <2>2
<1> DEFINE j == l + x + 1
<1>6. j \in 1..Len(u) /\ j + n <= Len(u) /\ j + n = l + x + (n + 1)
  BY <1>1, <1>2, <1>4
<1>7. \A m \in 1..n : u[j + m - 1] = [by |-> k, char |-> Body(t)[m]]
  <2> SUFFICES ASSUME NEW m \in 1..n PROVE u[j + m - 1] = [by |-> k, char |-> Body(t)[m]]
    OBVIOUS
  <2>1. j + m - 1 = l + x + m /\ m \in 1..n + 1
    BY <1>1, <1>2
  <2> QED BY <1>1, <1>5, <2>1
<1>8. u[j + n].char = "newline"
  <2>1. n + 1 \in 1..n + 1
    BY <1>1
  <2> QED BY <1>1, <1>5, <1>6, <2>1
<1>9. ASSUME j > 1 PROVE u[j - 1].char = "newline"
  <2>1. CASE x = 1
    <3>1. u[j - 1] = d[1] /\ d[1] = sep[1]
      BY <1>1, <1>3, <1>4, <2>1
    <3> QED BY <1>2, <2>1, <3>1
  <2>2. CASE x = 0
    <3>1. u[j - 1] = bytes[l] /\ l > 0
      BY <1>1, <1>4, <1>9, <2>2
    <3> QED BY <1>2, <2>2, <3>1
  <2> QED BY <1>2, <2>1, <2>2
<1> HIDE DEF j
<1>10. Whole(u, k, t)
  BY <1>6, <1>7, <1>8, <1>9 DEF Whole, n
<1> QED BY <1>10 DEF u, d, sep, c

LEMMA StepRInv == IInv /\ RInv /\ [Next]_vars => RInv'
<1> SUFFICES ASSUME IInv, RInv, [Next]_vars PROVE RInv'
  OBVIOUS
<1>0. /\ bytes \in Seq(Byte) /\ todo \in Seq(Byte) /\ texts \in Seq(Texts) /\ Len(texts) \in Nat
      /\ \A k \in acked : k \in 1..Len(texts) /\ texts[k] \in Texts
      /\ phase # "closed" => Len(texts) > 0 /\ texts[Len(texts)] \in Texts
  BY DEF IInv, TypeOK
<1>1. ASSUME NEW t \in Texts, Open(t) PROVE RInv'
  <2>1. /\ bytes' = bytes /\ acked' = acked /\ texts' = Append(texts, t) /\ Len(texts) + 1 \in 1..MaxAppends
        /\ todo' = Separator(Len(texts) + 1) \o Encoded(Len(texts) + 1, t)
    BY <1>0, <1>1, FileAssumption DEF Open
  <2>2. /\ Len(texts') = Len(texts) + 1 /\ texts'[Len(texts) + 1] = t
        /\ \A k \in acked : texts'[k] = texts[k]
    BY <1>0, <2>1
  <2>3. Whole(bytes \o todo', Len(texts) + 1, t)
    BY <1>0, <2>1, OpenPlans
  <2>4. \A k \in acked : Whole(bytes, k, texts'[k])
    BY <2>2 DEF RInv
  <2> QED BY <2>1, <2>2, <2>3, <2>4 DEF RInv, Planned
<1>2. ASSUME NEW n \in 1..Len(todo), Write(n) PROVE RInv'
  <2>1. /\ bytes' = bytes \o SubSeq(todo, 1, n) /\ todo' = SubSeq(todo, n + 1, Len(todo))
        /\ texts' = texts /\ acked' = acked /\ phase # "closed"
    BY <1>2 DEF Write
  <2>2. SubSeq(todo, 1, n) \in Seq(Byte) /\ Planned' = Planned
    BY <1>0, <2>1, WriteKeepsPlan DEF Planned
  <2>3. \A k \in acked : Whole(bytes', k, texts[k])
    BY <1>0, <2>1, <2>2, WholeStays DEF RInv
  <2> QED BY <2>1, <2>2, <2>3 DEF RInv
<1>3. CASE Flush
  <2>1. /\ bytes' = bytes /\ texts' = texts /\ acked' = acked \cup {Len(texts)} /\ phase = "flushing"
        /\ phase' = "closed"
    BY <1>3 DEF Flush
  <2>2. todo = << >>
    BY <2>1 DEF IInv, TypeOK
  <2>3. Planned = bytes
    BY <1>0, <2>2, ConcatEmptySeq DEF Planned
  <2> QED BY <2>1, <2>3 DEF RInv
<1>4. CASE CutShort
  BY <1>4 DEF CutShort, RInv
<1>5. CASE UNCHANGED vars
  <2>1. UNCHANGED <<bytes, texts, acked, phase>> /\ Planned' = Planned
    BY <1>5 DEF vars, Planned
  <2> QED BY <2>1 DEF RInv
<1> QED BY <1>1, <1>2, <1>3, <1>4, <1>5 DEF Next

\* An event that append_event returned for is a line of the file that every
\* later reader finds, whatever other appends left before and after it, if its
\* text holds no line break and the file can be decoded.
THEOREM AcknowledgedAreFound == Spec => []ProperAreRead
<1>1. Init => RInv
  BY DEF Init, RInv
<1>2. Spec => []RInv
  BY <1>1, StepRInv, IInvHolds, PTL DEF Spec
<1>3. ASSUME IInv, RInv PROVE ProperAreRead
  <2> SUFFICES ASSUME Decodable, NEW k \in acked, texts[k] # "break" PROVE k \in Read
    BY DEF ProperAreRead
  <2> DEFINE t == texts[k]
             n == Len(Body(t))
  <2>0. k \in 1..Len(texts) /\ texts \in Seq(Texts) /\ bytes \in Seq(Byte) /\ Texts \subseteq {"plain", "wide", "break"}
    BY <1>3, FileAssumption DEF IInv, TypeOK
  <2>01. t \in Texts
    BY <2>0
  <2>02. t # "break"
    OBVIOUS
  <2> HIDE DEF t
  <2>1. k \in 1..Len(texts) /\ t \in Texts /\ t \in {"plain", "wide"} /\ Len(bytes) \in Nat
    BY <2>0, <2>01, <2>02
  <2>2. n \in Nat /\ n >= 3
    BY <2>1, BodyShape
  <2>3. \A m \in 1..n : Body(t)[m] \notin Ends
    <3>1. CASE t = "plain"
      <4>1. Body(t) = <<"open", "char", "close">>
        BY <3>1 DEF Body
      <4> QED BY <4>1 DEF Ends
    <3>2. CASE t = "wide"
      <4>1. Body(t) = <<"open", "lead", "trail", "close">>
        BY <3>2 DEF Body
      <4> QED BY <4>1 DEF Ends
    <3> QED BY <2>1, <3>1, <3>2
  <2>4. PICK i \in 1..Len(bytes) :
          /\ i + n <= Len(bytes)
          /\ \A m \in 1..n : bytes[i + m - 1] = [by |-> k, char |-> Body(t)[m]]
          /\ bytes[i + n].char = "newline"
          /\ i > 1 => bytes[i - 1].char = "newline"
    BY <1>3 DEF RInv, Whole, t
  <2> HIDE DEF n
  <2>5. ASSUME NEW m \in 1..n PROVE bytes[i + m - 1].char \notin Ends
    <3>1. bytes[i + m - 1] = [by |-> k, char |-> Body(t)[m]]
      BY <2>4
    <3>2. [by |-> k, char |-> Body(t)[m]].char = Body(t)[m]
      OBVIOUS
    <3>3. bytes[i + m - 1].char = Body(t)[m]
      BY <3>1, <3>2, Zenon
    <3> QED BY <2>3, <3>3 DEF n
  <2>6. "newline" \in Ends /\ i + n - 1 <= Len(bytes)
    BY <2>1, <2>2, <2>4 DEF Ends
  <2>7. LineAt(i, k)
    BY <2>4, <2>5, <2>6 DEF LineAt, n, t
  <2> QED BY <2>1, <2>7 DEF Read
<1> QED BY <1>2, <1>3, IInvHolds, PTL
==============================================================================
