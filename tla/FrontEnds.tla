------------------------------ MODULE FrontEnds ------------------------------
(***************************************************************************)
(* The command line (cli.rs, main.rs), batch mode (batch.rs) and the REPL  *)
(* (repl.rs) as the callers of the evaluator: a process reads its          *)
(* settings, runs one mode and exits with a code.  They call the evaluator *)
(* as EvalPromise promises it, which EvalPipeline is shown to implement;   *)
(* the modes that start a server go on in Server.                          *)
(***************************************************************************)
EXTENDS EvalTypes, Sequences, FiniteSets, SequencesExt

CONSTANTS
    NoOutcome,
    Invocations,      \* command lines with the environment and the input they find
    Lines,            \* what a user types into the REPL
    Workers,          \* rayon threads of batch mode
    MaxBatch,         \* MAX_BATCH_COUNT
    DefaultTimeout,   \* DEFAULT_TIMEOUT_SECS, in tenths of a second like all of them
    MaxTimeout,       \* 3600 s
    DefaultCache,     \* DEFAULT_CACHE_SIZE
    BindingOf         \* Vars after `x = v`, for every scalar v; at most x is bound

VARIABLES
    world, phase, request, since, answer,   \* of EvalPromise
    invocation,
    stage,        \* of the process
    bindings,     \* ctx.vars
    entries,      \* batch: the lines to evaluate
    transcript,   \* REPL: the lines it has dealt with, and how
    output,       \* batch: the results it printed
    exit          \* exit code

evaluatorVars == <<world, phase, request, since, answer>>
processVars == <<invocation, stage, bindings, entries, transcript, output, exit>>
vars == <<evaluatorVars, processVars>>

Evaluator == INSTANCE EvalPromise

ASSUME FrontEndsAssumption ==
    /\ Calls = 1 .. Cardinality(Calls) /\ Cardinality(Calls) \in Nat \ {0} /\ Workers \in Nat \ {0}
    /\ MaxBatch \in 1 .. Cardinality(Calls)
    /\ DOMAIN BindingOf \subseteq Values /\ BindingOf \in [DOMAIN BindingOf -> Vars]
    /\ NoOutcome \notin Outcomes /\ Requests = AllRequests

\* What command lines, input and users give.
TextOf  == [kind : {"expr", "long", "blank"}, expr : Exprs]
EntryOf == [line : Nat, kind : {"expr", "long", "blank"}, expr : Exprs]
LineOf  == [do : {"eval", "let", "set"}, expr : Exprs, vars : Vars]

Stages == {"start", "single", "batch", "prompt", "evaluating", "exited"}
NoExit == 101   \* a process that panics instead of exiting

Init ==
    /\ Evaluator!Init
    /\ invocation \in Invocations
    /\ stage = "start" /\ exit = NoExit
    /\ bindings = CHOOSE v \in Vars : TRUE
    /\ entries = <<>> /\ transcript = <<>> /\ output = <<>>

Exit(code) == stage' = "exited" /\ exit' = code

\* ErrorKind::exit_code
\* Mutant: a fault of an upstream is an error like any other.
ExitCodeOfTimeouts(outcome) ==
    IF outcome.tag = "ok" THEN 0 ELSE IF outcome.val = "timeout" THEN 3 ELSE 1
ExitCode(outcome) ==
    IF outcome.tag = "ok" THEN 0 ELSE IF outcome.val \in {"timeout", "unavailable"} THEN 3 ELSE 1
-----------------------------------------------------------------------------
(* run: flag > environment > default, then the mode.  A setting is a       *)
(* sequence of at most one value; 0 stands for what does not parse, too.   *)
Setting(flag, env, default) ==
    IF flag # <<>> THEN flag[1] ELSE IF env # <<>> THEN env[1] ELSE default
TimeoutOf(i) == Setting(i.timeout, i.envTimeout, DefaultTimeout)
EntriesOf(i) == Setting(i.cache, i.envCache, DefaultCache)
BadSettings(i) == TimeoutOf(i) \notin 1 .. MaxTimeout \/ EntriesOf(i) = 0

ASSUME InputAssumption ==
    /\ Lines \subseteq LineOf
    /\ \A i \in Invocations :
         /\ i.mode \in {"list", "server", "canonical", "show", "value", "batch", "repl"}
         /\ i.vars \in Vars /\ i.precision \in PrecisionArgs /\ i.lines \in Seq(TextOf)
         /\ ~BadSettings(i) => TimeoutOf(i) \in Timeouts

RefuseSettings ==
    /\ stage = "start" /\ BadSettings(invocation) /\ Exit(2)
    /\ UNCHANGED <<evaluatorVars, invocation, bindings, entries, transcript, output>>

\* The server's own error, and an address that is empty.
RunServer ==
    /\ stage = "start" /\ ~BadSettings(invocation) /\ invocation.mode = "server"
    /\ \E code \in 0 .. 2 : Exit(code)
    /\ UNCHANGED <<evaluatorVars, invocation, bindings, entries, transcript, output>>

Reads(i) == i.mode \in {"canonical", "show", "value"}
\* No expression; on a terminal that is a request for help.
NoExpression(i) == Reads(i) /\ i.lines = <<>>
\* ... or a malformed --var.
Usage(i) == NoExpression(i) \/ ~i.varsGood

HelpOrList(i) == i.mode = "list" \/ (NoExpression(i) /\ i.from = "terminal")
Start ==
    LET i == invocation IN
    /\ stage = "start" /\ ~BadSettings(i) /\ i.mode # "server"
    /\ \/ HelpOrList(i) /\ Exit(0) /\ UNCHANGED <<bindings, entries>>
       \/ ~HelpOrList(i) /\ Usage(i) /\ Exit(2) /\ bindings' = i.vars /\ UNCHANGED entries
       \/ /\ ~HelpOrList(i) /\ ~Usage(i) /\ bindings' = i.vars /\ UNCHANGED exit
          /\ \/ i.mode = "repl" /\ stage' = "prompt" /\ UNCHANGED entries
             \/ i.mode = "batch" /\ stage' = "batch" /\ UNCHANGED entries
             \/ Reads(i) /\ stage' = "single" /\ entries' = i.lines
    /\ UNCHANGED <<evaluatorVars, invocation, transcript, output>>

\* evaluate(expr, ctx, precision, cache) as the c-th call of the process
Ask(c, expr, precision) ==
    Evaluator!Call(c, [expr |-> expr, vars |-> bindings, timeout |-> TimeoutOf(invocation), precision |-> precision])

\* Return of a call that runs; the process is not told before.
Answered(c) == Evaluator!Return(c) /\ UNCHANGED processVars
-----------------------------------------------------------------------------
(* One expression: --canonical, --latex and --steps, or its value.         *)
Canonical ==
    /\ stage = "single" /\ invocation.mode = "canonical"
    /\ Exit(IF entries[1].expr \in Parsable THEN 0 ELSE 1)
    /\ UNCHANGED <<evaluatorVars, invocation, bindings, entries, transcript, output>>

\* Steps are printed before anything is evaluated, and can fail on their own.
Show ==
    /\ stage = "single" /\ invocation.mode = "show" /\ phase[1] = "idle"
    /\ \/ entries[1].expr \notin Parsable \cap Foldable /\ Exit(1) /\ UNCHANGED evaluatorVars
       \/ invocation.steps /\ Exit(1) /\ UNCHANGED evaluatorVars
       \/ /\ entries[1].expr \in Parsable \cap Foldable
          /\ IF invocation.latex
               THEN Ask(1, entries[1].expr, invocation.precision) /\ UNCHANGED <<stage, exit>>
               ELSE Exit(0) /\ UNCHANGED evaluatorVars
    /\ UNCHANGED <<invocation, bindings, entries, transcript, output>>

AskValue ==
    /\ stage = "single" /\ invocation.mode = "value" /\ phase[1] = "idle"
    /\ Ask(1, entries[1].expr, invocation.precision)
    /\ UNCHANGED processVars

PrintSingle ==
    /\ stage = "single" /\ phase[1] = "answered" /\ Exit(ExitCode(answer[1]))
    /\ UNCHANGED <<evaluatorVars, invocation, bindings, entries, transcript, output>>
-----------------------------------------------------------------------------
(* Batch: read and validate all lines, evaluate in parallel, then print.   *)
EntryAt(lines, n) == [line |-> n, kind |-> lines[n].kind, expr |-> lines[n].expr]
\* Mutant: lines are numbered when the blank ones are gone.
EntriesInRenumbered(lines) ==
    LET kept == SelectSeq(lines, LAMBDA l : l.kind # "blank") IN [n \in DOMAIN kept |-> EntryAt(kept, n)]
\* Line by line; blank lines and comments are no entries.
EntriesOfFirst(lines) ==
    LET kept[n \in 0 .. Len(lines)] ==
            IF n = 0 THEN <<>>
            ELSE IF lines[n].kind = "blank" THEN kept[n - 1] ELSE Append(kept[n - 1], EntryAt(lines, n))
    IN  kept
EntriesIn(lines) == EntriesOfFirst(lines)[Len(lines)]

Rejected(i) ==
    LET es == EntriesIn(i.lines) IN
    \/ i.from = "unreadable" \/ Len(es) \notin 1 .. MaxBatch
    \/ \E n \in DOMAIN es : es[n].kind = "long"

ReadBatch ==
    /\ stage = "batch" /\ entries = <<>>
    /\ IF Rejected(invocation)
         THEN Exit(2) /\ UNCHANGED entries
         ELSE entries' = EntriesIn(invocation.lines) /\ UNCHANGED <<stage, exit>>
    /\ UNCHANGED <<evaluatorVars, invocation, bindings, transcript, output>>

\* Mutant: a worker whose expression fails takes no other.
BusyOrFailed == {c \in Calls : phase[c] = "pending" \/ (phase[c] = "answered" /\ answer[c].tag = "err")}
Busy == {c \in Calls : phase[c] = "pending"}

\* rayon hands out entries in any order.
StartEntry(n) ==
    /\ stage = "batch" /\ n \in DOMAIN entries /\ phase[n] = "idle"
    /\ Cardinality(Busy) < Workers
    /\ Ask(n, entries[n].expr, "none")
    /\ UNCHANGED processVars

Results == [n \in DOMAIN entries |-> [line |-> entries[n].line, outcome |-> answer[n]]]
PrintBatch ==
    /\ stage = "batch" /\ entries # <<>> /\ \A n \in DOMAIN entries : phase[n] = "answered"
    /\ output' = Results
    /\ Exit(IF \E n \in DOMAIN entries : Results[n].outcome.tag = "err" THEN 1 ELSE 0)
    /\ UNCHANGED <<evaluatorVars, invocation, bindings, entries, transcript>>
-----------------------------------------------------------------------------
(* REPL.  A line is [do, expr, vars]: `eval` an expression, `let` a name   *)
(* to an expression, `set` it to a literal, or change nothing (an empty    *)
(* line, Ctrl-C, any other command, a :let without = or name).             *)
Log(line, outcome) == transcript' = Append(transcript, [line |-> line, outcome |-> outcome])
\* A line that is evaluated is the call of its number.
NextCall == Len(transcript) + 1

SetLiteral(line) ==
    /\ stage = "prompt" /\ line.do = "set" /\ Len(transcript) < Cardinality(Calls)
    /\ bindings' = line.vars
    /\ Log(line, NoOutcome)
    /\ UNCHANGED <<evaluatorVars, invocation, stage, entries, output, exit>>

\* :let evaluates without --precision.
AskLine(line) ==
    /\ stage = "prompt" /\ line.do \in {"eval", "let"} /\ Len(transcript) < Cardinality(Calls)
    /\ Ask(NextCall, line.expr, IF line.do = "let" THEN "none" ELSE invocation.precision)
    /\ stage' = "evaluating"
    /\ Log(line, NoOutcome)
    /\ UNCHANGED <<invocation, bindings, entries, output, exit>>

\* Mutants: a :let that fails unbinds the name; any value is bound.
Unbound == CHOOSE v \in Vars : TRUE
BindOrUnbind(outcome) ==
    IF outcome.tag = "ok" /\ outcome.val \in DOMAIN BindingOf THEN BindingOf[outcome.val] ELSE Unbound
BindAnything(outcome) == IF outcome.tag = "ok" THEN outcome.val ELSE bindings
Bind(outcome) ==
    IF outcome.tag = "ok" /\ outcome.val \in DOMAIN BindingOf THEN BindingOf[outcome.val] ELSE bindings

PrintLine ==
    /\ stage = "evaluating"
    /\ LET n == Len(transcript) IN
       /\ phase[n] = "answered"
       /\ transcript' = [transcript EXCEPT ![n].outcome = answer[n]]
       /\ bindings' = IF transcript[n].line.do = "let" THEN Bind(answer[n]) ELSE bindings
    /\ stage' = "prompt"
    /\ UNCHANGED <<evaluatorVars, invocation, entries, output, exit>>

\* :quit or the end of the input, and an error of the terminal.
Leave ==
    /\ stage = "prompt" /\ \E code \in {0, 1} : Exit(code)
    /\ UNCHANGED <<evaluatorVars, invocation, bindings, entries, transcript, output>>
-----------------------------------------------------------------------------
AdvanceWorld == Evaluator!AdvanceWorld /\ UNCHANGED processVars

Process ==
    \/ RefuseSettings \/ RunServer \/ Start
    \/ Canonical \/ Show \/ AskValue \/ PrintSingle
    \/ ReadBatch \/ PrintBatch \/ PrintLine
    \/ \E n \in Calls : StartEntry(n)

Next ==
    \/ Process \/ AdvanceWorld \/ Leave
    \/ \E c \in Calls : Answered(c)
    \/ \E line \in Lines : SetLiteral(line) \/ AskLine(line)

\* The process and its evaluations run; the user need not type anything.
Fairness == WF_vars(Process) /\ \A c \in Calls : WF_vars(Answered(c))
Spec == Init /\ [][Next]_vars /\ Fairness
-----------------------------------------------------------------------------

\* Types of all variables.
TypeOK ==
    /\ world \in Worlds /\ phase \in [Calls -> {"idle", "pending", "answered"}]
    /\ request \in [Calls -> AllRequests] /\ since \in [Calls -> Worlds]
    /\ answer \in [Calls -> Outcomes \cup {NoOutcome}]
    /\ invocation \in Invocations /\ stage \in Stages /\ bindings \in Vars
    /\ entries \in Seq(TextOf \cup EntryOf)
    /\ transcript \in Seq([line : LineOf, outcome : Outcomes \cup {NoOutcome}])
    /\ output \in Seq([line : Nat, outcome : Outcomes])
    /\ exit \in 0 .. 3 \cup {NoExit}

\* What exit codes tell (main.rs, batch.rs, ErrorKind::exit_code): 2 means that
\* nothing was evaluated; batch exits with 0 exactly if every entry of the
\* file has a value; 3 is left to a timeout or an upstream fault of the only
\* expression; and 0 never hides an evaluation that failed.
ExitTells ==
    stage = "exited" =>
        /\ exit = 2 => \A c \in Calls : phase[c] = "idle"
        /\ invocation.mode = "batch" /\ exit # 2 =>
             exit = IF \E n \in DOMAIN output : output[n].outcome.tag = "err" THEN 1 ELSE 0
        /\ exit = 3 <=> /\ invocation.mode \in {"value", "show"}
                       /\ answer[1] \in {Err("timeout"), Err("unavailable")}
        /\ exit = 0 /\ invocation.mode # "repl" =>
             \A c \in Calls : phase[c] = "answered" => answer[c].tag = "ok"

\* Batch prints a result for every line that is not blank, in the order and
\* under the number the line has in the file, and it is a result of that
\* line's expression, however the workers interleave.
OutputNamesLines ==
    stage = "exited" /\ output # <<>> =>
        /\ \A n \in DOMAIN output :
             LET l == output[n].line IN
             /\ n > 1 => output[n - 1].line < l
             /\ l \in DOMAIN invocation.lines /\ invocation.lines[l].kind = "expr"
             /\ output[n].outcome \in
                  Allowed([expr |-> invocation.lines[l].expr, vars |-> invocation.vars,
                           timeout |-> TimeoutOf(invocation), precision |-> "none"], 0 .. world)
        /\ \A l \in DOMAIN invocation.lines :
             invocation.lines[l].kind = "expr" => \E n \in DOMAIN output : output[n].line = l

\* What the user bound, told from what was typed and printed: x holds the last
\* literal or scalar a :let succeeded with.
BindsAt(ts, k) ==
    LET t == ts[k] IN
    \/ t.line.do = "set"
    \/ /\ t.line.do = "let" /\ t.outcome # NoOutcome
       /\ t.outcome.tag = "ok" /\ t.outcome.val \in DOMAIN BindingOf
BoundAt(ts, k) == LET t == ts[k] IN IF t.line.do = "set" THEN t.line.vars ELSE BindingOf[t.outcome.val]
LastBinding(ts, n) == {k \in 1 .. n : BindsAt(ts, k) /\ \A j \in k + 1 .. n : ~BindsAt(ts, j)}
BoundAfter(i, ts, n) ==
    IF LastBinding(ts, n) = {} THEN i.vars ELSE BoundAt(ts, CHOOSE k \in LastBinding(ts, n) : TRUE)

\* What a line asks for, and what it may then be answered.
LineRequest(i, line, vs) ==
    [expr |-> line.expr, vars |-> vs, timeout |-> TimeoutOf(i),
     precision |-> IF line.do = "let" THEN "none" ELSE i.precision]
Replays(i, ts, n, w) ==
    LET t == ts[n] IN
    t.line.do # "set" /\ t.outcome # NoOutcome =>
        t.outcome \in Allowed(LineRequest(i, t.line, BoundAfter(i, ts, n - 1)), 0 .. w)
\* Every line of the REPL is answered with the variables as the transcript
\* shows them: no stale binding, and a :let that fails, or yields no scalar,
\* leaves the old one alone.
TranscriptReplays == \A n \in DOMAIN transcript : Replays(invocation, transcript, n, world)

\* A process that is not waiting for its user comes to the prompt or exits,
\* although evaluations fail.
EveryRunEnds == stage \notin {"prompt", "exited"} ~> stage \in {"prompt", "exited"}
=============================================================================
