---------------------------- MODULE HookDecision ----------------------------
(***************************************************************************)
(* An installed adapter or shim at work (safe_delete/hook.py): it decides  *)
(* what a command line is, and for a deletion it looks up, one file after  *)
(* the other and without a lock, whether the integration is registered and *)
(* where the CLI is, before it starts the one child that moves the         *)
(* operands to the trash.  The management commands of HookRegistry may     *)
(* change the files between any two of these looks.                        *)
(***************************************************************************)
EXTENDS HookRegistry, SequencesExt

CONSTANTS
    Calls,          \* the invocations of an adapter or a shim
    MaxTokens       \* length of the command lines the decision is checked on

-----------------------------------------------------------------------------
(* The decision.  Tokens after the executable: "--", "--help", options made *)
(* of the letters rRf, other words that begin with a dash, and operands.    *)

Executables == {"rm", "unlink", "rmdir"}
Delimiter   == "--"
Dashed      == {"--", "--help", "-rf", "-x"}
Tokens      == Dashed \cup {"a", "b"}
Letters(cmd) == IF cmd = "rm" THEN {"-rf"} ELSE {}

\* Mutant: every "--" is a delimiter.
Scan_EveryDelimiter(cmd, acc, token) ==
    IF acc.mode = "unsupported" THEN acc
    ELSE IF token = Delimiter THEN [acc EXCEPT !.mode = "delimited"]
    ELSE IF acc.mode = "delimited" THEN [acc EXCEPT !.operands = Append(@, token)]
    ELSE IF acc.mode = "options" /\ token \in Letters(cmd) THEN acc
    ELSE IF token \in Dashed THEN [acc EXCEPT !.mode = "unsupported"]
    ELSE [mode |-> "operands", operands |-> Append(acc.operands, token)]

\* One round of the loop of _classify_argv: `mode` stands for the flags
\* options and delimiter_seen.
Scan(cmd, acc, token) ==
    IF acc.mode = "unsupported" THEN acc
    ELSE IF acc.mode = "delimited" THEN [acc EXCEPT !.operands = Append(@, token)]
    ELSE IF token = Delimiter THEN [acc EXCEPT !.mode = "delimited"]
    ELSE IF acc.mode = "options" /\ token \in Letters(cmd) THEN acc
    ELSE IF token \in Dashed THEN [acc EXCEPT !.mode = "unsupported"]
    ELSE [mode |-> "operands", operands |-> Append(acc.operands, token)]

\* Where the loop is after each token of argv.
Scanned(cmd, argv) ==
    LET acc[i \in 0..Len(argv)] ==
            IF i = 0 THEN [mode |-> "options", operands |-> <<>>]
            ELSE Scan(cmd, acc[i - 1], argv[i])
    IN  acc

Classify(cmd, argv) ==
    LET acc == Scanned(cmd, argv)[Len(argv)]
    IN  IF argv = <<"--help">> THEN [class |-> "probe", operands |-> <<>>]
        ELSE IF acc.mode = "unsupported" THEN [class |-> "deny", operands |-> <<>>]
        ELSE IF acc.operands = <<>> THEN [class |-> "probe", operands |-> <<>>]
        ELSE [class |-> "route", operands |-> acc.operands]

-----------------------------------------------------------------------------
(* The execution *)

VARIABLES
    call,       \* each invocation: its step, mode, class and entries to try
    steady,     \* history: integrations enforced ever since the call began
    live,       \* history: whether its mode was switched on at some time of it
    off         \* history: selectors disabled or uninstalled, and not installed since

hookVars == <<vars, call, steady, live, off>>

Modes    == {"pretooluse", "path-shim"}
Of(mode) == IF mode = "path-shim" THEN {PathShim} ELSE Hosts
Classes  == {"route", "add", "probe", "deny"}
Answered == {"denied", "executed", "child_failed"}
Steps    == {"idle", "registry?", "hosts?", "shims?", "cli?", "child"} \cup Answered
NoCall   == [at |-> "idle", mode |-> "pretooluse", class |-> "deny", entries |-> {}]

HookInit ==
    /\ Init
    /\ call = [c \in Calls |-> NoCall]
    /\ steady = [c \in Calls |-> {}]
    /\ live = [c \in Calls |-> FALSE]
    /\ off = {s \in Selectors : Entry(s) = None}

CallAt(c, step) == call[c].at = step
Move(c, step)   == call' = [call EXCEPT ![c].at = step]
Answer(c, how)  == call' = [call EXCEPT ![c] = [NoCall EXCEPT !.at = how]]
Deny(c)         == Answer(c, "denied")

\* A host or a shell runs the payload, if it is there; parse_request and
\* decide_request look at no file but the working directory.
Invoke(c) ==
    /\ CallAt(c, "idle")
    /\ \E mode \in Modes, class \in Classes :
         /\ IF mode = "path-shim" THEN \E x \in Shims : disk[x] \in Owned ELSE disk[Adapter] \in Owned
         /\ IF class = "deny" THEN Deny(c)
            ELSE call' = [call EXCEPT ![c] =
                    [at |-> IF class = "route" THEN "registry?" ELSE "cli?",
                     mode |-> mode, class |-> class, entries |-> {}]]

\* Mutant: an entry counts also when it is disabled.
FindEntries_Disabled(c) ==
    LET on == {s \in Of(call[c].mode) : Entry(s) # None}
    IN
    /\ CallAt(c, "registry?")
    /\ IF on = {} THEN Deny(c)
       ELSE call' = [call EXCEPT ![c].at = IF call[c].mode = "path-shim" THEN "shims?" ELSE "hosts?",
                                 ![c].entries = {<<s, Entry(s).config>> : s \in on}]

\* _integration_is_registered: the registry, then for each enabled entry its
\* configuration and payload; one that fits is enough.
FindEntries(c) ==
    LET on == {s \in Of(call[c].mode) : Entry(s) # None /\ Entry(s).enabled}
    IN
    /\ CallAt(c, "registry?")
    /\ IF on = {} THEN Deny(c)
       ELSE call' = [call EXCEPT ![c].at = IF call[c].mode = "path-shim" THEN "shims?" ELSE "hosts?",
                                 ![c].entries = {<<s, Entry(s).config>> : s \in on}]

Accept(c) == call' = [call EXCEPT ![c].at = "cli?", ![c].entries = {}]

FindShims(c) ==
    /\ CallAt(c, "shims?")
    /\ IF \A x \in Shims : disk[x] \in Owned THEN Accept(c) ELSE Deny(c)

\* Mutant: the first enabled entry decides.
FindRegistration_First(c) ==
    /\ CallAt(c, "hosts?")
    /\ \E entry \in call[c].entries :
         IF Registered(entry[1], entry[2]) /\ disk[Adapter] \in Owned THEN Accept(c) ELSE Deny(c)

FindRegistration(c) ==
    /\ CallAt(c, "hosts?")
    /\ \E entry \in call[c].entries :
         LET left == call[c].entries \ {entry} IN
         IF Registered(entry[1], entry[2]) /\ disk[Adapter] \in Owned THEN Accept(c)
         ELSE IF left = {} THEN Deny(c)
         ELSE call' = [call EXCEPT ![c].entries = left]

\* The working directory may be gone by now.  A deletion takes the CLI that an
\* entry of the mode recorded, enabled or not, from the registry read again;
\* `safe-delete add` takes the one its environment names, a probe needs none.
\* Any of them may turn out to be no executable.
FindCli(c) ==
    /\ CallAt(c, "cli?")
    /\ \/ Deny(c)
       \/ /\ call[c].class = "route" => \E s \in Of(call[c].mode) : Entry(s) # None
          /\ Move(c, "child")

\* The storage is not usable or the child cannot be started; or the child runs
\* and succeeds or fails, and the call with it.
RunChild(c) ==
    /\ CallAt(c, "child")
    /\ \E how \in Answered : Answer(c, how)

Execute(c) == \/ Invoke(c) \/ FindEntries(c) \/ FindShims(c) \/ FindRegistration(c)
              \/ FindCli(c) \/ RunChild(c)

\* What a step of the management does to the history.
SwitchedOff == {s \in Selectors : \E p \in Procs :
    /\ job[p].sel = s /\ job[p].verb # "install"
    /\ <<pc[p], pc'[p]>> \in {<<"status", "ok">>, <<"artifacts?", "nothing">>}}
SwitchedOn == {s \in Selectors : \E p \in Procs :
    pc[p] \in Ended /\ pc'[p] = "registry?" /\ job'[p].sel = s /\ job'[p].verb = "install"}

Watch ==
    /\ off' = (off \cup SwitchedOff) \ SwitchedOn
    /\ steady' = [c \in Calls |->
          {s \in IF CallAt(c, "idle") THEN Of(call'[c].mode) ELSE steady[c] :
                call'[c].class = "route" /\ Enforced(s)'}]
    /\ live' = [c \in Calls |-> call'[c].class = "route"
          /\ (live[c] \/ ~(Of(call'[c].mode) \subseteq off'))]

HookNext ==
    /\ \/ Next /\ UNCHANGED call
       \/ EditOf(Paths) /\ UNCHANGED call
       \/ \E c \in Calls : Execute(c) /\ UNCHANGED vars
    /\ Watch

HookSpec == HookInit /\ [][HookNext]_hookVars

-----------------------------------------------------------------------------
(* Properties *)

HookTypeOK ==
    /\ TypeOK
    /\ call \in [Calls -> [at : Steps, mode : Modes, class : Classes,
                           entries : SUBSET (Selectors \X (Configs \cup {None}))]]
    /\ steady \in [Calls -> SUBSET Selectors]
    /\ live \in [Calls -> BOOLEAN]
    /\ off \in SUBSET Selectors

\* What the command itself would make of its arguments, said without the loop:
\* the first "--" ends the options, every word after it is an operand, and
\* before it every word with a dash is an option.
FirstDelimiter(argv) ==
    LET D == {i \in DOMAIN argv : argv[i] = Delimiter}
    IN  IF D = {} THEN Len(argv) + 1 ELSE CHOOSE i \in D : \A j \in D : i <= j
IsOperand(argv, i) == i > FirstDelimiter(argv) \/ (i < FirstDelimiter(argv) /\ argv[i] \notin Dashed)
Operands(argv) ==
    LET keep == {i \in DOMAIN argv : IsOperand(argv, i)}
    IN  [k \in 1..Cardinality(keep) |->
            argv[CHOOSE i \in keep : Cardinality({j \in keep : j <= i}) = k]]
Options(argv) == {i \in DOMAIN argv : i < FirstDelimiter(argv) /\ argv[i] \in Dashed}

\* The decision that follows from it.
AsGetopt(cmd, argv) ==
    LET known == \A i \in Options(argv) :
                    argv[i] \in Letters(cmd) /\ \A j \in 1..i : ~IsOperand(argv, j)
    IN  [class    |-> IF argv = <<"--help">> \/ (known /\ Operands(argv) = <<>>) THEN "probe"
                      ELSE IF known THEN "route" ELSE "deny",
         operands |-> IF known THEN Operands(argv) ELSE <<>>]

\* A routed command line is moved to the trash with exactly the operands that
\* the command would have deleted, in their order, and only if all its options
\* are known and stand before the operands; what is executed unchanged has no
\* operand at all; everything else is denied.  (It says nothing of the state,
\* so it is evaluated where nothing has happened yet.)
Untouched == budget.jobs = MaxJobs /\ \A c \in Calls : call[c] = NoCall
ClassifyIsGetopt ==
    Untouched => \A cmd \in Executables : \A argv \in BoundedSeq(Tokens, MaxTokens) :
                     Classify(cmd, argv) = AsGetopt(cmd, argv)

\* A deletion is carried out only for an integration that was switched on at
\* some time of the call: once disable or uninstall has reported success, and
\* until somebody installs again, no call that begins moves anything, whatever
\* mixture of old and new files it reads and whatever was killed on the way.
OffMeansDenied ==
    \A c \in Calls : CallAt(c, "child") /\ call[c].class = "route" => live[c]

\* A call is told that nothing is registered only if there was no integration
\* of its mode that was enforced all the time: while a command repeats an
\* install, or works on another integration, calls go through.
SteadyIsServed ==
    [][\A c \in Calls :
          /\ call[c].at \in {"registry?", "hosts?", "shims?"} /\ call'[c].at = "denied"
          => steady[c] = {}]_hookVars
=============================================================================
