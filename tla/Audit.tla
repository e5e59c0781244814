-------------------------------- MODULE Audit --------------------------------
(***************************************************************************)
(* The audit of a store whose ledger and object directories may hold       *)
(* anything: what an interrupted command, a hand edit or a restored backup *)
(* left there.                                                             *)
(*                                                                         *)
(* Report translates audit_layout: lines are read one by one, the valid    *)
(* records are replayed, entries with a bad line are dropped, the object   *)
(* directories are reconciled with the entries that remain, and entries    *)
(* that are found bad there are dropped too.  The properties compare it    *)
(* with what the ledger means, defined without any of these passes.        *)
(***************************************************************************)
EXTENDS LedgerOps

CONSTANTS
  Entry,     \* entry identifiers
  Event,     \* event identifiers
  Kinds,     \* what a payload can be: files, directories, symbolic links
  None,      \* no identifier
  MaxLines   \* bound of the number of ledger lines

ASSUME AuditAssumption ==
  /\ Kinds # {} /\ Kinds \cap {"absent", "notdir", "empty", "special", "crowded", "strays"} = {}
  /\ None \notin Entry \cup Event
  /\ MaxLines \in Nat

VARIABLES
  log,   \* the lines of ledger.jsonl
  box    \* box[e]: what is at trash/objects/<e>

vars == <<log, box>>

(***************************************************************************)
(* A line is a valid record; or JSON that fails _validate_record, of which *)
(* the two identifiers may still be legible; or not JSON at all.  kind     *)
(* stands for all fields that must not change during the life of an entry. *)
(***************************************************************************)
ValidLines ==
  [shape : {"valid"}, event : Event, entry : Entry, op : Operations, kind : Kinds]
InvalidLines ==
  [shape : {"invalid"}, event : Event \cup {None}, entry : Entry \cup {None},
   op : {"none"}, kind : {"none"}]
Garbled ==
  [shape |-> "garbled", event |-> None, entry |-> None, op |-> "none", kind |-> "none"]
Lines == ValidLines \cup InvalidLines \cup {Garbled}

(***************************************************************************)
(* trash/objects/<e> is absent; not a directory; an empty directory; one   *)
(* with a payload of some kind and nothing else ("special" is one that is  *)
(* not supported); one with a payload and more; one with other names only. *)
(***************************************************************************)
Boxes == Kinds \cup {"absent", "notdir", "empty", "special", "crowded", "strays"}

\* has_entry(payload) is true.
HasPayload(e) == box[e] \in Kinds \cup {"special", "crowded"}

Init ==
  /\ log = << >>
  /\ box \in [Entry -> Boxes]

Write(l) ==
  /\ Len(log) < MaxLines
  /\ log' = Append(log, l)
  /\ UNCHANGED box

Next == \E l \in Lines : Write(l)

Spec == Init /\ [][Next]_vars

-----------------------------------------------------------------------------
(***************************************************************************)
(* audit_layout.                                                           *)
(***************************************************************************)

Err(code, e) == [code |-> code, entry |-> e]

\* Mutation: an error without an identifier taints every entry.
Taint_All(t, e) == IF e = None THEN Entry ELSE t \cup {e}

\* tainted_entry_ids.add, if there is an identifier.
Taint(t, e) == IF e = None THEN t ELSE t \cup {e}

Bad(r, code, e) ==
  [r EXCEPT !.errors = @ \cup {Err(code, e)}, !.tainted = Taint(@, e)]

\* The report.  An entry is its accepted records, and << >> is no entry.
Start ==
  [ids |-> {}, records |-> << >>, entries |-> [e \in Entry |-> << >>],
   errors |-> {}, tainted |-> {}]

OpsOf(h) == [i \in DOMAIN h |-> h[i].op]

\* The state that the accepted records h of an entry lead to.
StateAfter(h) == PhaseOf(OpsOf(h))

\* Mutation: of two records with one event identifier the later one counts.
ReadLine_LastWins(r, l) ==
  LET Other(x) == x.event # l.event IN
  CASE l.shape = "garbled" -> Bad(r, "malformed_ledger", None)
    [] l.shape = "invalid" -> Bad(r, "malformed_ledger", l.entry)
    [] l.shape = "valid"   -> [r EXCEPT !.records = Append(SelectSeq(@, Other), l)]

\* One iteration of the loop of _read_records.
ReadLine(r, l) ==
  LET seen == [r EXCEPT !.ids = @ \cup ({l.event} \ {None})] IN
  CASE l.shape = "garbled"  -> Bad(r, "malformed_ledger", None)
    [] l.shape # "garbled" /\ l.event \in r.ids
                            -> Bad(r, "duplicate_event_id", l.entry)
    [] l.shape = "invalid" /\ l.event \notin r.ids
                            -> Bad(seen, "malformed_ledger", l.entry)
    [] l.shape = "valid" /\ l.event \notin r.ids
                            -> [seen EXCEPT !.records = Append(@, l)]

\* Mutation: a purge that is under way can be overtaken by a restore.
Accepts_RestorePending(h, l) ==
  /\ h # << >> => l.kind = h[1].kind
  /\ \/ CanFollow(OpsOf(h), l.op)
     \/ h # << >> /\ h[Len(h)].op = "purge_intent" /\ l.op = "restore"

\* The record l is accepted after the accepted records h of its entry.
Accepts(h, l) ==
  IF h = << >>
    THEN l.op = "trash"
    ELSE /\ l.kind = h[1].kind
         /\ \/ l.op \in {"restore", "purge_intent"} /\ StateAfter(h) = "active"
            \/ /\ l.op \in {"purge_complete", "purge_failed"}
               /\ StateAfter(h) = "purge_pending" /\ h[Len(h)].op = "purge_intent"

\* Mutation: a rejected event does not taint its entry.
ReplayRecord_Untainted(r, l) ==
  IF Accepts(r.entries[l.entry], l)
    THEN [r EXCEPT !.entries[l.entry] = Append(@, l)]
    ELSE [r EXCEPT !.errors = @ \cup {Err("impossible_transition", l.entry)}]

\* One iteration of the loop of _replay.
ReplayRecord(r, l) ==
  IF Accepts(r.entries[l.entry], l)
    THEN [r EXCEPT !.entries[l.entry] = Append(@, l)]
    ELSE Bad(r, "impossible_transition", l.entry)

\* The entries without the tainted ones.
Drop(r) ==
  [r EXCEPT !.entries = [e \in Entry |-> IF e \in r.tainted THEN << >> ELSE r.entries[e]]]

\* Mutation: only the directories of known entries are looked at.
BoxErrors_Known(e, h) ==
  IF h # << >> /\ box[e] = "notdir" THEN {Err("orphan_payload", e)} ELSE {}

\* What the loop over trash/objects reports of the directory of e, whose
\* remaining records are h.
BoxErrors(e, h) ==
  CASE box[e] = "notdir" -> {Err("orphan_payload", e)}
    [] box[e] # "notdir" /\ h = << >> ->
         IF HasPayload(e) THEN {Err("orphan_payload", e)} ELSE {}
    [] box[e] \in {"crowded", "strays"} /\ h # << >> -> {Err("storage_failure", e)}
    [] box[e] = "special" /\ h # << >> -> {Err("unsupported_kind", None)}
    [] box[e] \in Kinds /\ h # << >> ->
         IF StateAfter(h) \in {"restored", "purged"} \/ box[e] # h[1].kind
           THEN {Err("storage_failure", e)} ELSE {}
    [] box[e] \in {"absent", "empty"} /\ h # << >> -> {}

\* What the loop over the active and pending entries reports: inspecting the
\* payload of an object that is not a directory fails.
MissingErrors(e, h) ==
  IF StateAfter(h) \notin {"active", "purge_pending"}
     \/ HasPayload(e) THEN {}
  ELSE IF box[e] = "notdir" THEN {Err("storage_failure", None)}
  ELSE {Err("payload_missing", e)}

ObjectErrors(e, h) == BoxErrors(e, h) \cup MissingErrors(e, h)

\* An object that is not a directory does not taint its entry by itself.
BoxTaints(e, h) ==
  /\ h # << >>
  /\ \/ MissingErrors(e, h) # {}
     \/ box[e] # "notdir" /\ BoxErrors(e, h) # {}

Reconcile(r) ==
  [r EXCEPT !.errors = @ \cup UNION {ObjectErrors(e, r.entries[e]) : e \in Entry},
            !.tainted = @ \cup {e \in Entry : BoxTaints(e, r.entries[e])}]

\* The loops of _read_records and of _replay.
ReadRecords(lines) ==
  LET f[i \in 0..Len(lines)] == IF i = 0 THEN Start ELSE ReadLine(f[i - 1], lines[i])
  IN  f[Len(lines)]

Replay(r) ==
  LET f[i \in 0..Len(r.records)] ==
        IF i = 0 THEN r ELSE ReplayRecord(f[i - 1], r.records[i])
  IN  f[Len(r.records)]

AuditLayout(lines) == Drop(Reconcile(Drop(Replay(ReadRecords(lines)))))

\* What list shows: the state of every entry of the report, or "none".
Report(lines) ==
  LET r == AuditLayout(lines)
  IN  [errors |-> r.errors,
       listed |-> [e \in Entry |-> StateAfter(r.entries[e])]]

-----------------------------------------------------------------------------
(***************************************************************************)
(* What the ledger means.                                                  *)
(***************************************************************************)

\* The i-th line is a valid record and the first that uses its event.
Counts(lines, i) ==
  /\ lines[i].shape = "valid"
  /\ \A j \in 1..i - 1 : lines[j].event # lines[i].event

\* Those of the first i lines that name e, for every i.
Telling(lines, e) ==
  LET f[i \in 0..Len(lines)] ==
        IF i = 0 THEN << >>
        ELSE IF lines[i].entry = e THEN Append(f[i - 1], lines[i]) ELSE f[i - 1]
  IN  f

\* The lines that name e.
About(lines, e) == Telling(lines, e)[Len(lines)]

\* The records h tell a life of one object.
OneLife(h) == ValidHistory(OpsOf(h)) /\ \A i \in DOMAIN h : h[i].kind = h[1].kind

\* Every line that names e counts, and they tell a life of one object.
Coherent(lines, e) ==
  /\ \A i \in DOMAIN lines : lines[i].entry = e => Counts(lines, i)
  /\ OneLife(About(lines, e))

LinesOf(e) == About(log, e)

State(e) == StateAfter(LinesOf(e))

\* The object directory holds what the ledger says.
Agrees(e) ==
  CASE State(e) \in {"active", "purge_pending"} -> box[e] = LinesOf(e)[1].kind
    [] State(e) \in {"restored", "purged"}      -> box[e] \in {"absent", "empty"}
    [] State(e) = "none"                        -> box[e] \in {"absent", "empty", "strays"}

Sound ==
  /\ \A i \in DOMAIN log : Counts(log, i)
  /\ \A e \in Entry : Coherent(log, e) /\ Agrees(e)

-----------------------------------------------------------------------------
(***************************************************************************)
(* Properties.                                                             *)
(***************************************************************************)

\* add, restore, purge and empty go ahead on a sound store and on no other:
\* the audit reports an error exactly if something is wrong.
ErrorsAreExact == Report(log).errors = {} <=> Sound

\* What list shows of an entry is what its lines say, and they all count.
ListedIsTrue ==
  LET listed == Report(log).listed IN
  \A e \in Entry : listed[e] # "none" => Coherent(log, e) /\ listed[e] = State(e)

\* An entry that is coherent and agrees with its directory is listed, whatever
\* is wrong with the rest of the store.
SoundIsListed ==
  LET listed == Report(log).listed IN
  \A e \in Entry : Coherent(log, e) /\ Agrees(e) /\ State(e) # "none" => listed[e] # "none"

\* No payload is invisible: list shows the entry as one that has a payload, or
\* an error names it, or (an unsupported kind) an error is reported without
\* its name.
PayloadsAreAccounted ==
  LET r == Report(log) IN
  \A e \in Entry : HasPayload(e) =>
    \/ r.listed[e] \in {"active", "purge_pending"}
    \/ \E x \in r.errors : x.entry = e
    \/ box[e] = "special" /\ Err("unsupported_kind", None) \in r.errors

\* A line appended about one entry does not change what is listed of another.
LinesAreLocal ==
  log # << >> =>
    LET n == Len(log)
        before == Report(SubSeq(log, 1, n - 1)).listed
        after  == Report(log).listed
    IN  \A e \in Entry : log[n].entry # e => before[e] = after[e]

==============================================================================
