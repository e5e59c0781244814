----------------------------- MODULE LedgerFile -----------------------------
(***************************************************************************)
(* The bytes of ledger.jsonl: how append_event writes a record, how a      *)
(* write is cut short, and how read_ledger_lines finds the records again.  *)
(*                                                                         *)
(* The k-th append writes the encoding of one record.  A byte is abstract: *)
(* it remembers the append that wrote it and what the reader makes of it.  *)
(* Appends exclude each other (ledger_lock), so one is in progress at most.*)
(***************************************************************************)
EXTENDS Naturals, Sequences, FiniteSets

CONSTANTS
  Texts,      \* what the strings of a record are made of
  MaxAppends  \* bound of the number of appends

ASSUME FileAssumption ==
  /\ Texts \subseteq {"plain", "wide", "break"}
  /\ MaxAppends \in Nat

VARIABLES
  bytes,   \* the contents of the file
  texts,   \* texts[k]: the text of the k-th record
  todo,    \* bytes of the current append that are not written yet
  phase,   \* where the current append is
  acked    \* the appends that returned to their caller

vars == <<bytes, texts, todo, phase, acked>>

\* A record whose text is one character.  json.dumps leaves every character
\* above ASCII as it is: "wide" takes two bytes of UTF-8, "break" is one of
\* U+0085, U+2028 and U+2029, which str.splitlines takes for the end of a line.
Body(t) ==
  CASE t = "plain" -> <<"open", "char", "close">>
    [] t = "wide"  -> <<"open", "lead", "trail", "close">>
    [] t = "break" -> <<"open", "break", "close">>

Chars == {"open", "char", "lead", "trail", "break", "close", "newline"}
Byte  == [by : 1..MaxAppends, char : Chars]

Encoded(k, t) ==
  LET s == Body(t) \o <<"newline">>
  IN  [i \in 1..Len(s) |-> [by |-> k, char |-> s[i]]]

\* Something is left to be written as long as the write loop runs.
TypeOK ==
  /\ bytes \in Seq(Byte)
  /\ texts \in Seq(Texts) /\ Len(texts) <= MaxAppends
  /\ todo \in Seq(Byte)
  /\ phase \in {"closed", "writing", "flushing"}
  /\ phase = "writing" <=> todo # << >>
  /\ acked \subseteq 1..Len(texts)

Init ==
  /\ bytes = << >> /\ texts = << >> /\ todo = << >>
  /\ phase = "closed"
  /\ acked = {}

\* Mutation: no separator.
Separator_Never(k) == << >>

\* Mutation: a separator in front of every record.
Separator_Always(k) ==
  IF bytes # << >> THEN <<[by |-> k, char |-> "newline"]>> ELSE << >>

\* A file that does not end with the end of a line gets one.
Separator(k) ==
  IF bytes # << >> /\ bytes[Len(bytes)].char # "newline"
    THEN <<[by |-> k, char |-> "newline"]>>
    ELSE << >>

Open(t) ==
  LET k == Len(texts) + 1 IN
  /\ phase = "closed" /\ k <= MaxAppends
  /\ texts' = Append(texts, t)
  /\ todo' = Separator(k) \o Encoded(k, t)
  /\ phase' = "writing"
  /\ UNCHANGED <<bytes, acked>>

\* Mutation: one write is taken to write everything.
Write_Once(n) ==
  /\ phase = "writing"
  /\ bytes' = bytes \o SubSeq(todo, 1, n)
  /\ todo' = << >>
  /\ phase' = "flushing"
  /\ UNCHANGED <<texts, acked>>

\* Mutation: the loop does not notice that everything is written.
Write_Loops(n) ==
  /\ phase = "writing"
  /\ bytes' = bytes \o SubSeq(todo, 1, n)
  /\ todo' = SubSeq(todo, n + 1, Len(todo))
  /\ UNCHANGED <<texts, phase, acked>>

\* os.write takes any number of the bytes; the loop goes on with the rest.
Write(n) ==
  /\ phase = "writing"
  /\ bytes' = bytes \o SubSeq(todo, 1, n)
  /\ todo' = SubSeq(todo, n + 1, Len(todo))
  /\ phase' = IF n = Len(todo) THEN "flushing" ELSE "writing"
  /\ UNCHANGED <<texts, acked>>

\* fsync, the check of the descriptor and the flush of the directory.
Flush ==
  /\ phase = "flushing"
  /\ acked' = acked \cup {Len(texts)}
  /\ phase' = "closed"
  /\ UNCHANGED <<bytes, texts, todo>>

\* A system call fails or the process is killed: what was written stays.
CutShort ==
  /\ phase # "closed"
  /\ todo' = << >>
  /\ phase' = "closed"
  /\ UNCHANGED <<bytes, texts, acked>>

Next ==
  \/ \E t \in Texts : Open(t)
  \/ \E n \in 1..Len(todo) : Write(n)
  \/ Flush
  \/ CutShort

Spec == Init /\ [][Next]_vars

-----------------------------------------------------------------------------
(***************************************************************************)
(* Reading.                                                                *)
(***************************************************************************)

Ends == {"newline", "break"}

\* The file is valid UTF-8.  If it is not, the reader gets no line at all.
Decodable ==
  \A i \in 1..Len(bytes) :
    /\ bytes[i].char = "lead" =>
         i < Len(bytes) /\ bytes[i + 1].char = "trail"
    /\ bytes[i].char = "trail" =>
         i > 1 /\ bytes[i - 1].char = "lead"

\* The body of the k-th record is a line of the file, from its i-th byte on.
LineAt(i, k) ==
  LET n == Len(Body(texts[k])) IN
  /\ i + n - 1 <= Len(bytes)
  /\ \A m \in 1..n : bytes[i + m - 1] = [by |-> k, char |-> Body(texts[k])[m]]
  /\ \A m \in 1..n : bytes[i + m - 1].char \notin Ends
  /\ i > 1 => bytes[i - 1].char \in Ends
  /\ i + n <= Len(bytes) => bytes[i + n].char \in Ends

\* The records that are found in the file.
Read ==
  {k \in 1..Len(texts) : Decodable /\ \E i \in 1..Len(bytes) : LineAt(i, k)}

-----------------------------------------------------------------------------
(***************************************************************************)
(* Properties.                                                             *)
(***************************************************************************)

\* "The new event can never be glued to the preceding object" (append_event):
\* wherever the bytes of two appends meet, whatever became of the first, a
\* line ends.
NeverGlued ==
  \A i \in 1..Len(bytes) - 1 :
    bytes[i].by # bytes[i + 1].by =>
      "newline" \in {bytes[i].char, bytes[i + 1].char}

\* The program never writes a blank line, which the audit would report as a
\* malformed record: separators appear only where they are needed.
NoBlankLine ==
  \A i \in 1..Len(bytes) :
    bytes[i].char = "newline" => i > 1 /\ bytes[i - 1].char # "newline"

\* An event that append_event returned for is read back by every later audit,
\* whatever fragments other appends left before and after it, if its text holds
\* no line break and no append was cut short in the middle of a character.
ProperAreRead ==
  Decodable => \A k \in acked : texts[k] # "break" => k \in Read

-----------------------------------------------------------------------------
(***************************************************************************)
(* A statement of the documents that the code does not keep.               *)
(***************************************************************************)

\* freeze.md: an append is "newline-delimited, UTF-8, and flushed durably
\* before" success is reported, so an acknowledged event is one line.
AcknowledgedAreRead == acked \subseteq Read
==============================================================================
