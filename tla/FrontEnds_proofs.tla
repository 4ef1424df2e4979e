-------------------------- MODULE FrontEnds_proofs --------------------------
(***************************************************************************)
(* What TLAPS proves of FrontEnds for any command lines, expressions and   *)
(* input: the front ends use the evaluator as EvalPromise allows, and exit *)
(* codes tell what they are documented to tell.                            *)
(***************************************************************************)
EXTENDS FrontEnds, TLAPS, SequenceTheorems, WellFoundedInduction

-----------------------------------------------------------------------------
(* Sequences; induction, over sets of numbers.                             *)

\* A function on 1 .. n is a sequence.
LEMMA ListedIsSequence ==
    ASSUME NEW S, NEW n \in Nat, NEW f \in [1 .. n -> S]
    PROVE  f \in Seq(S)
  BY SeqDef, Zenon

\* Every set of natural numbers has a least element.
LEMMA LeastOf ==
    ASSUME NEW S \in SUBSET Nat, S # {}
    PROVE  \E m \in S : \A k \in S : m <= k
<1> DEFINE R == OpToRel(<, Nat)
<1>1. IsWellFoundedOn(R, Nat)
  BY NatLessThanWellFounded
<1> HIDE DEF R
<1>2. PICK m \in S : \A k \in S : ~(<<k, m>> \in R)
  BY <1>1, WFMin
<1>3. \A k \in S : ~(k < m)
  BY <1>2 DEF R, OpToRel
<1> QED BY <1>3

\* A set with 0 and the successor of each of its elements has them all.
LEMMA AllNaturals ==
    ASSUME NEW S \in SUBSET Nat, 0 \in S, \A n \in S : n + 1 \in S
    PROVE  S = Nat
<1>1. SUFFICES ASSUME S # Nat PROVE FALSE
  OBVIOUS
<1>2. PICK m \in Nat \ S : \A k \in Nat \ S : m <= k
  BY <1>1, LeastOf
<1>3. m - 1 \in Nat /\ m - 1 \in S
  BY <1>2
<1> QED BY <1>2, <1>3

-----------------------------------------------------------------------------
(* What read_and_validate_entries makes of the lines.                      *)

Following(lines, f, n) == IF lines[n].kind = "blank" THEN f[n - 1] ELSE Append(f[n - 1], EntryAt(lines, n))
\* f reads the first k lines.
ReadsFirst(lines, f, k) == f = [n \in 0 .. k |-> IF n = 0 THEN <<>> ELSE Following(lines, f, n)]

\* The loop gives such a function.
LEMMA Readable ==
    ASSUME NEW lines, NEW k \in Nat
    PROVE  \E f : ReadsFirst(lines, f, k)
<1> DEFINE S == {n \in Nat : \E f : ReadsFirst(lines, f, n)}
<1>1. 0 \in S
  <2>1. ReadsFirst(lines, [n \in {0} |-> <<>>], 0)
    BY DEF ReadsFirst
  <2> QED BY <2>1
<1>2. ASSUME NEW n \in S
      PROVE  n + 1 \in S
  <2>1. PICK f : ReadsFirst(lines, f, n)
    BY <1>2
  <2> DEFINE g == [m \in 0 .. n + 1 |-> IF m = n + 1 THEN Following(lines, f, n + 1) ELSE f[m]]
  <2>2. \A m \in 1 .. n + 1 : g[m - 1] = f[m - 1]
    OBVIOUS
  <2>3. \A m \in 1 .. n + 1 : Following(lines, g, m) = Following(lines, f, m)
    BY <2>2 DEF Following
  <2>4. f[0] = <<>> /\ \A m \in 1 .. n : f[m] = Following(lines, f, m)
    BY <2>1 DEF ReadsFirst
  <2>5. \A m \in 0 .. n + 1 : g[m] = IF m = 0 THEN <<>> ELSE Following(lines, g, m)
    BY <2>3, <2>4
  <2>6. g = [m \in 0 .. n + 1 |-> IF m = 0 THEN <<>> ELSE Following(lines, g, m)]
    BY <2>5
  <2> HIDE DEF g
  <2>7. ReadsFirst(lines, g, n + 1)
    BY <2>6 DEF ReadsFirst
  <2> QED BY <2>7
<1>3. S = Nat
  BY <1>1, <1>2, AllNaturals
<1> QED BY <1>3

LEMMA EntriesReadOn ==
    ASSUME NEW lines, Len(lines) \in Nat
    PROVE  ReadsFirst(lines, EntriesOfFirst(lines), Len(lines))
<1>1. EntriesOfFirst(lines) = CHOOSE f : ReadsFirst(lines, f, Len(lines))
  BY DEF EntriesOfFirst, ReadsFirst, Following
<1>2. \E f : ReadsFirst(lines, f, Len(lines))
  BY Readable
<1> QED BY <1>1, <1>2

\* s lists the lines up to n that are not blank, in their order.
Lists(s, lines, n) ==
    /\ s \in Seq(EntryOf)
    /\ \A k \in 1 .. Len(s) : s[k].line \in 1 .. n /\ s[k] = EntryAt(lines, s[k].line) /\ s[k].kind # "blank"
    /\ \A k \in 2 .. Len(s) : s[k - 1].line < s[k].line
    /\ \A l \in 1 .. n : lines[l].kind # "blank" => \E k \in 1 .. Len(s) : s[k].line = l

LEMMA EntriesListLines ==
    ASSUME NEW lines \in Seq(TextOf)
    PROVE  Lists(EntriesIn(lines), lines, Len(lines))
<1> DEFINE f == EntriesOfFirst(lines)
           S == {n \in Nat : n <= Len(lines) => Lists(f[n], lines, n)}
<1>1. Len(lines) \in Nat /\ \A n \in 1 .. Len(lines) : lines[n] \in TextOf
  BY LenProperties, ElementOfSeq
<1>2. f[0] = <<>> /\ \A n \in 1 .. Len(lines) : f[n] = Following(lines, f, n)
  BY <1>1, EntriesReadOn DEF ReadsFirst
<1> HIDE DEF f
<1>3. 0 \in S
  <2>1. f[0] \in Seq(EntryOf) /\ Len(f[0]) = 0
    BY <1>2, EmptySeq
  <2>2. Lists(f[0], lines, 0)
    BY <2>1 DEF Lists
  <2> QED BY <2>2
<1>4. ASSUME NEW n \in S
      PROVE  n + 1 \in S
  <2>1. SUFFICES ASSUME n + 1 <= Len(lines) PROVE Lists(f[n + 1], lines, n + 1)
    OBVIOUS
  <2>2. Lists(f[n], lines, n) /\ n \in Nat /\ n + 1 \in 1 .. Len(lines)
    BY <2>1
  <2>3. f[n + 1] = IF lines[n + 1].kind = "blank" THEN f[n] ELSE Append(f[n], EntryAt(lines, n + 1))
    BY <1>1, <1>2, <2>2 DEF Following
  <2> DEFINE s == f[n]
             e == EntryAt(lines, n + 1)
  <2>4. s \in Seq(EntryOf) /\ Len(s) \in Nat
    BY <2>2, LenProperties DEF Lists
  <2>5. CASE lines[n + 1].kind = "blank"
    BY <2>2, <2>3, <2>4, <2>5 DEF Lists
  <2>6. CASE lines[n + 1].kind # "blank"
    <3>1. lines[n + 1] \in TextOf
      BY <1>1, <2>2
    <3>2. e \in EntryOf /\ e.line = n + 1 /\ e.kind # "blank"
      BY <2>2, <2>6, <3>1 DEF EntryAt, TextOf, EntryOf
    <3> DEFINE t == Append(s, e)
    <3>3. /\ t \in Seq(EntryOf) /\ Len(t) = Len(s) + 1 /\ t[Len(s) + 1] = e
          /\ \A k \in 1 .. Len(s) : t[k] = s[k]
      BY <2>4, <3>2, AppendProperties
    <3> HIDE DEF t, s, e
    <3>4. \A k \in 1 .. Len(t) : t[k].line \in 1 .. n + 1 /\ t[k] = EntryAt(lines, t[k].line) /\ t[k].kind # "blank"
      <4>1. \A k \in 1 .. Len(s) : s[k].line \in 1 .. n /\ s[k] = EntryAt(lines, s[k].line) /\ s[k].kind # "blank"
        BY <2>2 DEF Lists, s
      <4>2. e = EntryAt(lines, e.line)
        BY <3>2 DEF e
      <4> QED BY <2>2, <2>4, <3>2, <3>3, <4>1, <4>2
    <3>5. ASSUME NEW k \in 2 .. Len(t)
          PROVE  t[k - 1].line < t[k].line
      <4>1. CASE k \in 2 .. Len(s)
        <5>1. s[k - 1].line < s[k].line /\ k - 1 \in 1 .. Len(s) /\ k \in 1 .. Len(s)
          BY <2>2, <2>4, <4>1 DEF Lists, s
        <5> QED BY <3>3, <5>1
      <4>2. CASE k = Len(s) + 1
        <5>1. k - 1 \in 1 .. Len(s) /\ t[k - 1] = s[k - 1] /\ t[k] = e
          BY <2>4, <3>3, <3>5, <4>2
        <5>2. s[k - 1].line \in 1 .. n
          BY <2>2, <5>1 DEF Lists, s
        <5> QED BY <2>2, <3>2, <5>1, <5>2
      <4> QED BY <2>4, <3>3, <4>1, <4>2
    <3>6. ASSUME NEW l \in 1 .. n + 1, lines[l].kind # "blank"
          PROVE  \E k \in 1 .. Len(t) : t[k].line = l
      <4>1. CASE l = n + 1
        BY <2>4, <3>2, <3>3, <4>1
      <4>2. CASE l \in 1 .. n
        <5>1. PICK k \in 1 .. Len(s) : s[k].line = l
          BY <2>2, <3>6, <4>2 DEF Lists, s
        <5> QED BY <2>4, <3>3, <5>1
      <4> QED BY <2>2, <4>1, <4>2
    <3>7. f[n + 1] = t
      BY <2>3, <2>6 DEF t, s, e
    <3> QED BY <3>3, <3>4, <3>5, <3>6, <3>7 DEF Lists
  <2> QED BY <2>5, <2>6
<1>5. S = Nat
  BY <1>3, <1>4, AllNaturals
<1>6. Lists(f[Len(lines)], lines, Len(lines))
  BY <1>1, <1>5
<1> QED BY <1>6 DEF EntriesIn, f
-----------------------------------------------------------------------------
(* The evaluator.                                                          *)

\* The promise, seen through the instance, speaks of the same requests.
LEMMA SameVocabulary ==
    /\ Evaluator!SomeRequest = SomeRequest
    /\ \A r, ws : Evaluator!Allowed(r, ws) = Allowed(r, ws)
  BY DEF Evaluator!SomeRequest, SomeRequest, Evaluator!Allowed, Allowed, Evaluator!Rejections, Rejections,
     Evaluator!TimedOut, TimedOut, Evaluator!Err, Err, Evaluator!Mode, Mode, Evaluator!Evaluable, Evaluable,
     Evaluator!Accepted, Accepted, Evaluator!Value, Value

\* An error of a known kind is an outcome.
LEMMA ErrIsOutcome ==
    ASSUME NEW e \in ErrorKinds
    PROVE  Err(e) \in Outcomes
  BY DEF Err, Outcomes

\* The outcomes the promise allows a request are outcomes.
LEMMA AllowedAreOutcomes ==
    ASSUME NEW r \in AllRequests, NEW ws \in SUBSET Worlds
    PROVE  Allowed(r, ws) \subseteq Outcomes
<1>1. Rejections(r) \cup {TimedOut} \subseteq Outcomes
  <2>1. {Err("precision"), Err("parse"), Err("canonicalize"), Err("route"), Err("timeout")} \subseteq Outcomes
    BY ErrIsOutcome DEF ErrorKinds
  <2> QED BY <2>1 DEF Rejections, TimedOut
<1>2. \A w \in ws : Value(r, w) \in Outcomes
  <2>1. r.expr \in Exprs /\ r.vars \in Vars /\ Mode(r) \in Modes
    BY DEF AllRequests, Mode, Modes
  <2> QED BY <2>1, ConstantsAssumption DEF ConstantsAssumption, Value
<1> QED BY <1>1, <1>2 DEF Allowed

\* What a process that has got its settings right may ask.
LEMMA AskedIsRequest ==
    ASSUME invocation \in Invocations, ~BadSettings(invocation), bindings \in Vars,
           NEW e \in Exprs, NEW p \in PrecisionArgs
    PROVE  [expr |-> e, vars |-> bindings, timeout |-> TimeoutOf(invocation), precision |-> p] \in AllRequests
<1>1. TimeoutOf(invocation) \in Timeouts
  BY InputAssumption DEF InputAssumption
<1> HIDE DEF TimeoutOf
<1> QED BY <1>1 DEF AllRequests

\* 0 is for values, 3 for a timeout and for an upstream that failed.
LEMMA ExitCodes ==
    ASSUME NEW o \in Outcomes
    PROVE  /\ ExitCode(o) \in {0, 1, 3}
           /\ ExitCode(o) = 0 <=> o.tag = "ok"
           /\ ExitCode(o) = 3 <=> o \in {Err("timeout"), Err("unavailable")}
<1>1. CASE o.tag = "ok"
  <2>1. o \notin {Err("timeout"), Err("unavailable")}
    BY <1>1 DEF Err
  <2>2. ExitCode(o) = 0
    BY <1>1 DEF ExitCode
  <2> QED BY <1>1, <2>1, <2>2
<1>2. CASE o.tag # "ok"
  <2>1. o.tag = "err" /\ o = Err(o.val)
    BY <1>2 DEF Outcomes, Err
  <2>2. ExitCode(o) = IF o.val \in {"timeout", "unavailable"} THEN 3 ELSE 1
    BY <2>1 DEF ExitCode
  <2>3. o \in {Err("timeout"), Err("unavailable")} <=> o.val \in {"timeout", "unavailable"}
    BY <2>1 DEF Err
  <2> QED BY <2>1, <2>2, <2>3
<1> QED BY <1>1, <1>2

-----------------------------------------------------------------------------
(* The invariant.                                                          *)

EvaluatorTypes ==
    /\ world \in Worlds /\ phase \in [Calls -> {"idle", "pending", "answered"}]
    /\ request \in [Calls -> AllRequests] /\ since \in [Calls -> Worlds]
    /\ answer \in [Calls -> Outcomes \cup {NoOutcome}]
    /\ \A c \in Calls : since[c] <= world /\ (phase[c] = "answered" <=> answer[c] # NoOutcome)

ProcessTypes ==
    /\ invocation \in Invocations /\ stage \in Stages /\ bindings \in Vars
    /\ entries \in Seq(TextOf \cup EntryOf)
    /\ transcript \in Seq([line : LineOf, outcome : Outcomes \cup {NoOutcome}])
    /\ output \in Seq([line : Nat, outcome : Outcomes])
    /\ exit \in 0 .. 3 \cup {NoExit}

Idle(c) == phase[c] = "idle"

\* Where a process is tells what it has asked: nothing at the start, the only
\* expression, entries of the batch, a line of the REPL.
Course ==
    /\ stage \notin {"start", "exited"} => ~BadSettings(invocation)
    /\ stage = "start" => (\A c \in Calls : Idle(c)) /\ entries = <<>>
    /\ stage = "single" =>
         /\ Reads(invocation) /\ entries \in Seq(TextOf) /\ 1 \in DOMAIN entries
         /\ \A c \in Calls : (c # 1 \/ invocation.mode = "canonical") => Idle(c)
    /\ stage = "batch" =>
         /\ invocation.mode = "batch" /\ entries \in Seq(EntryOf) /\ Len(entries) <= MaxBatch
         /\ \A c \in Calls : ~Idle(c) => c \in DOMAIN entries
    /\ stage \in {"prompt", "evaluating"} => invocation.mode = "repl"
    /\ stage = "evaluating" => Len(transcript) \in Calls
    /\ stage = "exited" /\ invocation.mode # "repl" => \A c \in Calls : phase[c] # "pending"

IInv == EvaluatorTypes /\ ProcessTypes /\ Course /\ ExitTells

\* The evaluator's part of every step is a step of the promise, or none, and
\* keeps the evaluator's types.
Uses == /\ [Evaluator!Next]_(Evaluator!promiseVars)
        /\ EvaluatorTypes'

\* A call of a request.
LEMMA CallUses ==
    ASSUME EvaluatorTypes, NEW c \in Calls, NEW r \in AllRequests, Evaluator!Call(c, r)
    PROVE  Uses
<1>1. EvaluatorTypes'
  BY DEF EvaluatorTypes, Evaluator!Call, Worlds
<1>2. Evaluator!Next
  BY FrontEndsAssumption DEF FrontEndsAssumption, Evaluator!Next
<1> QED BY <1>1, <1>2 DEF Uses

\* A call that returns leaves an outcome.
LEMMA ReturnUses ==
    ASSUME EvaluatorTypes, NEW c \in Calls, Evaluator!Return(c)
    PROVE  Uses /\ answer'[c] \in Outcomes
<1>1. PICK o \in Allowed(request[c], since[c] .. world) : answer' = [answer EXCEPT ![c] = o]
  BY SameVocabulary DEF Evaluator!Return
<1>2. o \in Outcomes
  <2>1. since[c] .. world \in SUBSET Worlds
    BY ConstantsAssumption DEF ConstantsAssumption, EvaluatorTypes, Worlds
  <2> QED BY <1>1, <2>1, AllowedAreOutcomes DEF EvaluatorTypes
<1>3. EvaluatorTypes'
  BY <1>1, <1>2, FrontEndsAssumption DEF FrontEndsAssumption, EvaluatorTypes, Evaluator!Return
<1>4. Evaluator!Next
  BY DEF Evaluator!Next
<1> QED BY <1>1, <1>2, <1>3, <1>4 DEF Uses, EvaluatorTypes

\* The clock and the rates change.
LEMMA WorldUses ==
    ASSUME EvaluatorTypes, Evaluator!AdvanceWorld
    PROVE  Uses
<1>1. world' \in Worlds /\ \A c \in Calls : since[c] <= world'
  BY ConstantsAssumption DEF ConstantsAssumption, EvaluatorTypes, Worlds, Evaluator!AdvanceWorld
<1>2. EvaluatorTypes'
  BY <1>1 DEF EvaluatorTypes, Evaluator!AdvanceWorld
<1> QED BY <1>2 DEF Uses, Evaluator!Next

\* Most steps leave the evaluator alone.
LEMMA NoUse ==
    ASSUME EvaluatorTypes, UNCHANGED evaluatorVars
    PROVE  Uses
  BY DEF EvaluatorTypes, evaluatorVars, Uses, Evaluator!promiseVars

-----------------------------------------------------------------------------
(* The steps.                                                              *)

Keeps == Uses /\ ProcessTypes' /\ Course' /\ ExitTells'

\* A process that has asked nothing may exit with anything but 3, and if it
\* reads a batch only with 2.
LEMMA ExitsUnasked ==
    ASSUME IInv, \A c \in Calls : Idle(c), NEW code \in 0 .. 2, Exit(code), invocation.mode = "batch" => code = 2,
           UNCHANGED <<evaluatorVars, invocation, transcript, output>>
    PROVE  Uses /\ Course' /\ ExitTells'
<1>1. Uses
  BY NoUse DEF IInv
<1>2. \A c \in Calls : phase'[c] = "idle" /\ answer'[c] = NoOutcome
  BY DEF evaluatorVars, IInv, EvaluatorTypes, Idle
<1>3. 1 \in Calls /\ Err("timeout") # NoOutcome /\ Err("unavailable") # NoOutcome
  BY FrontEndsAssumption, ErrIsOutcome DEF FrontEndsAssumption, ErrorKinds
<1>4. stage' = "exited" /\ exit' = code /\ invocation' = invocation
  BY DEF Exit
<1>5. Course'
  BY <1>2, <1>4 DEF Course
<1>6. ExitTells'
  BY <1>2, <1>3, <1>4 DEF ExitTells
<1> QED BY <1>1, <1>5, <1>6

\* Nothing is evaluated by a process that refuses its settings, runs a server
\* or chooses its mode.
LEMMA StartsKeep ==
    ASSUME IInv, RefuseSettings \/ RunServer \/ Start
    PROVE  Keeps
<1>1. /\ stage = "start" /\ entries = <<>> /\ \A c \in Calls : Idle(c)
      /\ UNCHANGED <<evaluatorVars, invocation, transcript, output>>
  BY DEF IInv, Course, RefuseSettings, RunServer, Start
<1>2. /\ invocation.mode \in {"list", "server", "canonical", "show", "value", "batch", "repl"}
      /\ invocation.vars \in Vars /\ invocation.lines \in Seq(TextOf)
      /\ invocation \in Invocations
  BY InputAssumption DEF InputAssumption, IInv, ProcessTypes
<1>3. ASSUME NEW code \in 0 .. 2, Exit(code), invocation.mode = "batch" => code = 2,
             bindings' \in Vars, entries' = entries
      PROVE  Keeps
  <2>1. Uses /\ Course' /\ ExitTells'
    BY <1>1, <1>3, ExitsUnasked
  <2>2. ProcessTypes'
    BY <1>1, <1>3 DEF Exit, IInv, ProcessTypes, Stages
  <2> QED BY <2>1, <2>2 DEF Keeps
<1>4. CASE RefuseSettings
  BY <1>3, <1>4 DEF RefuseSettings, IInv, ProcessTypes
<1>5. CASE RunServer
  BY <1>3, <1>5 DEF RunServer, IInv, ProcessTypes
<1>6. CASE Start
  <2> DEFINE i == invocation
  <2>1. CASE Exit(0) /\ UNCHANGED <<bindings, entries>> /\ i.mode # "batch"
    BY <1>3, <2>1 DEF IInv, ProcessTypes
  <2>2. CASE bindings' = i.vars /\ Exit(2) /\ UNCHANGED entries
    BY <1>2, <1>3, <2>2
  <2>3. ASSUME bindings' = i.vars, exit' = exit, ~BadSettings(i),
               \/ i.mode = "repl" /\ stage' = "prompt" /\ UNCHANGED entries
               \/ i.mode = "batch" /\ stage' = "batch" /\ UNCHANGED entries
               \/ Reads(i) /\ ~NoExpression(i) /\ stage' = "single" /\ entries' = i.lines
        PROVE  Keeps
    <3>1. Uses
      BY <1>1, NoUse DEF IInv
    <3>2. \A c \in Calls : phase'[c] = "idle"
      BY <1>1 DEF evaluatorVars, Idle
    <3>3. entries' \in Seq(TextOf \cup EntryOf)
      <4>1. i.lines \in Seq(TextOf \cup EntryOf)
        BY <1>2, SeqMonotonic
      <4> QED BY <1>1, <2>3, <4>1 DEF IInv, ProcessTypes
    <3>4. ProcessTypes'
      BY <1>1, <1>2, <2>3, <3>3 DEF IInv, ProcessTypes, Stages
    <3>5. stage' = "single" => entries' \in Seq(TextOf) /\ 1 \in DOMAIN entries'
      <4>1. SUFFICES ASSUME Reads(i), ~NoExpression(i), entries' = i.lines PROVE entries' \in Seq(TextOf) /\ 1 \in DOMAIN entries'
        BY <2>3
      <4>2. i.lines # <<>>
        BY <4>1 DEF NoExpression
      <4>3. Len(i.lines) \in Nat /\ Len(i.lines) # 0 /\ DOMAIN i.lines = 1 .. Len(i.lines)
        BY <1>2, <4>2, EmptySeq, LenProperties
      <4> QED BY <1>2, <4>1, <4>3
    <3>6. Course'
      <4>1. invocation' = i /\ stage' \in {"single", "batch", "prompt"} /\ (stage' = "single" => Reads(i))
            /\ (stage' = "batch" => i.mode = "batch" /\ entries' = <<>>)
            /\ (stage' = "prompt" => i.mode = "repl")
        BY <1>1, <2>3
      <4>2. BadSettings(invocation)' = BadSettings(i) /\ Reads(invocation)' = Reads(i)
        BY <4>1 DEF BadSettings, Reads, TimeoutOf, EntriesOf, Setting
      <4> HIDE DEF i
      <4>3. stage' = "batch" => entries' \in Seq(EntryOf) /\ Len(entries') <= MaxBatch
        BY <4>1, EmptySeq, FrontEndsAssumption DEF FrontEndsAssumption
      <4> QED BY <2>3, <3>2, <3>5, <4>1, <4>2, <4>3 DEF Course, Idle
    <3>7. ExitTells'
      BY <2>3 DEF ExitTells
    <3> QED BY <3>1, <3>4, <3>6, <3>7 DEF Keeps
  <2>4. \/ Exit(0) /\ UNCHANGED <<bindings, entries>> /\ i.mode # "batch"
        \/ bindings' = i.vars /\ Exit(2) /\ UNCHANGED entries
        \/ /\ bindings' = i.vars /\ exit' = exit /\ ~BadSettings(i)
           /\ \/ i.mode = "repl" /\ stage' = "prompt" /\ UNCHANGED entries
              \/ i.mode = "batch" /\ stage' = "batch" /\ UNCHANGED entries
              \/ Reads(i) /\ ~NoExpression(i) /\ stage' = "single" /\ entries' = i.lines
    BY <1>6 DEF Start, HelpOrList, Usage, NoExpression, Reads
  <2> QED BY <2>1, <2>2, <2>3, <2>4
<1> QED BY <1>4, <1>5, <1>6

\* The only expression: rendered, shown, or asked for once and printed.
LEMMA SinglesKeep ==
    ASSUME IInv, Canonical \/ Show \/ AskValue \/ PrintSingle
    PROVE  Keeps
<1>1. /\ stage = "single" /\ invocation.mode \in {"canonical", "show", "value"} /\ ~BadSettings(invocation)
      /\ entries \in Seq(TextOf) /\ 1 \in DOMAIN entries /\ 1 \in Calls
      /\ \A c \in Calls : (c # 1 \/ invocation.mode = "canonical") => Idle(c)
      /\ UNCHANGED <<invocation, bindings, entries, transcript, output>>
  BY FrontEndsAssumption
  DEF FrontEndsAssumption, IInv, Course, Reads, Canonical, Show, AskValue, PrintSingle, processVars
<1>2. invocation \in Invocations /\ bindings \in Vars /\ invocation.precision \in PrecisionArgs
  BY InputAssumption DEF InputAssumption, IInv, ProcessTypes
<1>3. entries[1].expr \in Exprs
  <2>1. entries[1] \in TextOf
    BY <1>1, ElementOfSeq, LenProperties
  <2> QED BY <2>1 DEF TextOf
<1>4. ASSUME \A c \in Calls : Idle(c), NEW code \in 0 .. 1, Exit(code), UNCHANGED evaluatorVars
      PROVE  Keeps
  <2>1. Uses /\ Course' /\ ExitTells'
    BY <1>1, <1>4, ExitsUnasked
  <2>2. ProcessTypes'
    BY <1>1, <1>4 DEF Exit, IInv, ProcessTypes, Stages
  <2> QED BY <2>1, <2>2 DEF Keeps
<1>5. ASSUME Ask(1, entries[1].expr, invocation.precision), UNCHANGED <<stage, exit>>, invocation.mode # "canonical"
      PROVE  Keeps
  <2>1. PICK r \in AllRequests : Evaluator!Call(1, r)
    BY <1>1, <1>2, <1>3, <1>5, AskedIsRequest DEF Ask
  <2>2. Uses /\ \A c \in Calls : c # 1 => phase'[c] = phase[c]
    BY <1>1, <2>1, CallUses DEF IInv, EvaluatorTypes, Evaluator!Call
  <2>3. ProcessTypes' /\ ExitTells'
    BY <1>1, <1>5 DEF IInv, ProcessTypes, ExitTells
  <2>4. Course'
    <3>1. BadSettings(invocation)' = BadSettings(invocation) /\ Reads(invocation)' = Reads(invocation)
      BY <1>1 DEF BadSettings, Reads, TimeoutOf, EntriesOf, Setting
    <3> QED BY <1>1, <1>5, <2>2, <3>1 DEF Course, Idle, IInv
  <2> QED BY <2>2, <2>3, <2>4 DEF Keeps
<1>6. CASE Canonical
  <2>1. \A c \in Calls : Idle(c)
    BY <1>1, <1>6 DEF Canonical
  <2> QED BY <1>4, <1>6, <2>1 DEF Canonical
<1>7. CASE Show
  <2>1. \A c \in Calls : Idle(c)
    BY <1>1, <1>7 DEF Show, Idle
  <2>2. CASE Exit(0) /\ UNCHANGED evaluatorVars
    BY <1>4, <2>1, <2>2
  <2>3. CASE Exit(1) /\ UNCHANGED evaluatorVars
    BY <1>4, <2>1, <2>3
  <2>4. CASE Ask(1, entries[1].expr, invocation.precision) /\ UNCHANGED <<stage, exit>>
    BY <1>5, <1>7, <2>4 DEF Show
  <2> QED BY <1>7, <2>2, <2>3, <2>4 DEF Show
<1>8. CASE AskValue
  BY <1>5, <1>8 DEF AskValue, processVars
<1>9. CASE PrintSingle
  <2>1. /\ phase[1] = "answered" /\ stage' = "exited" /\ exit' = ExitCode(answer[1])
        /\ answer' = answer /\ phase' = phase /\ invocation.mode # "canonical"
    BY <1>1, <1>9 DEF PrintSingle, Exit, evaluatorVars, Idle
  <2>2. answer[1] \in Outcomes
    BY <1>1, <2>1 DEF IInv, EvaluatorTypes
  <2>3. /\ exit' \in {0, 1, 3} /\ (exit' = 0 <=> answer[1].tag = "ok")
        /\ exit' = 3 <=> answer[1] \in {Err("timeout"), Err("unavailable")}
    BY <2>1, <2>2, ExitCodes
  <2>4. Uses
    BY <1>9, NoUse DEF PrintSingle, IInv
  <2>5. ProcessTypes'
    BY <1>1, <2>1, <2>3 DEF IInv, ProcessTypes, Stages
  <2>6. \A c \in Calls : phase'[c] # "pending" /\ (phase'[c] = "answered" => c = 1)
    BY <1>1, <2>1 DEF Idle
  <2>7. Course'
    BY <2>1, <2>6 DEF Course
  <2>8. ExitTells'
    <3>1. invocation' = invocation
      BY <1>1
    <3> HIDE DEF Err
    <3> QED BY <1>1, <2>1, <2>3, <2>6, <3>1 DEF ExitTells
  <2> QED BY <2>4, <2>5, <2>7, <2>8 DEF Keeps
<1> QED BY <1>6, <1>7, <1>8, <1>9

\* Entries are asked under their own number, and printed when all are answered.
LEMMA BatchesKeep ==
    ASSUME IInv, ReadBatch \/ PrintBatch \/ \E n \in Calls : StartEntry(n)
    PROVE  Keeps
<1>1. /\ stage = "batch" /\ invocation.mode = "batch" /\ ~BadSettings(invocation) /\ entries \in Seq(EntryOf)
      /\ Len(entries) <= MaxBatch /\ \A c \in Calls : ~Idle(c) => c \in DOMAIN entries
      /\ UNCHANGED <<invocation, bindings, transcript>>
  BY DEF IInv, Course, ReadBatch, PrintBatch, StartEntry, processVars
<1>2. invocation \in Invocations /\ bindings \in Vars
  BY DEF IInv, ProcessTypes
<1>3. BadSettings(invocation)' = BadSettings(invocation)
  BY <1>1 DEF BadSettings, TimeoutOf, EntriesOf, Setting
<1>4. CASE ReadBatch
  <2>1. entries = <<>> /\ UNCHANGED evaluatorVars /\ output' = output
    BY <1>4 DEF ReadBatch
  <2>2. \A c \in Calls : Idle(c)
    BY <1>1, <2>1
  <2>3. CASE Exit(2) /\ UNCHANGED entries
    <3>1. Uses /\ Course' /\ ExitTells'
      BY <1>1, <2>1, <2>2, <2>3, ExitsUnasked
    <3>2. ProcessTypes'
      BY <1>1, <2>1, <2>3 DEF Exit, IInv, ProcessTypes, Stages
    <3> QED BY <3>1, <3>2 DEF Keeps
  <2>4. CASE ~Rejected(invocation) /\ entries' = EntriesIn(invocation.lines) /\ UNCHANGED <<stage, exit>>
    <3>0. Len(entries') <= MaxBatch
      BY <2>4, FrontEndsAssumption DEF FrontEndsAssumption, Rejected
    <3>1. entries' \in Seq(EntryOf) /\ entries' \in Seq(TextOf \cup EntryOf)
      <4>1. invocation.lines \in Seq(TextOf)
        BY <1>2, InputAssumption DEF InputAssumption
      <4> QED BY <2>4, <4>1, EntriesListLines, SeqMonotonic DEF Lists
    <3>2. Uses
      BY <2>1, NoUse DEF IInv
    <3>3. ProcessTypes' /\ ExitTells'
      BY <1>1, <2>1, <2>4, <3>1 DEF IInv, ProcessTypes, ExitTells
    <3>4. Course'
      BY <1>1, <1>3, <2>1, <2>2, <2>4, <3>0, <3>1 DEF Course, Idle, evaluatorVars
    <3> QED BY <3>2, <3>3, <3>4 DEF Keeps
  <2> QED BY <1>4, <2>3, <2>4 DEF ReadBatch
<1>5. ASSUME NEW n \in Calls, StartEntry(n)
      PROVE  Keeps
  <2>1. n \in DOMAIN entries /\ Ask(n, entries[n].expr, "none") /\ UNCHANGED <<stage, entries, output, exit>>
    BY <1>5 DEF StartEntry, processVars
  <2>2. entries[n].expr \in Exprs
    <3>1. entries[n] \in EntryOf
      BY <1>1, <2>1, ElementOfSeq, LenProperties
    <3> QED BY <3>1 DEF EntryOf
  <2>3. PICK r \in AllRequests : Evaluator!Call(n, r)
    BY <1>1, <1>2, <2>1, <2>2, AskedIsRequest DEF Ask, PrecisionArgs
  <2>4. Uses /\ \A c \in Calls : c # n => phase'[c] = phase[c]
    BY <2>3, CallUses DEF IInv, EvaluatorTypes, Evaluator!Call
  <2>5. ProcessTypes' /\ ExitTells'
    BY <1>1, <2>1 DEF IInv, ProcessTypes, ExitTells
  <2>6. Course'
    BY <1>1, <1>3, <2>1, <2>4 DEF Course, Idle
  <2> QED BY <2>4, <2>5, <2>6 DEF Keeps
<1>6. CASE PrintBatch
  <2>1. /\ \A n \in DOMAIN entries : phase[n] = "answered"
        /\ output' = Results /\ stage' = "exited" /\ UNCHANGED <<evaluatorVars, entries>>
        /\ exit' = IF \E n \in DOMAIN entries : Results[n].outcome.tag = "err" THEN 1 ELSE 0
    BY <1>6 DEF PrintBatch, Exit
  <2>2. \A c \in Calls : ~Idle(c) <=> phase[c] = "answered"
    BY <1>1, <2>1 DEF Idle
  <2>3. \A n \in DOMAIN entries : n \in Calls /\ entries[n] \in EntryOf /\ answer[n] \in Outcomes
    <3>1. \A n \in DOMAIN entries : entries[n] \in EntryOf
      BY <1>1, ElementOfSeq, LenProperties
    <3>2. \A n \in DOMAIN entries : n \in Calls
      BY <1>1, LenProperties, FrontEndsAssumption DEF FrontEndsAssumption
    <3> QED BY <2>1, <3>1, <3>2 DEF IInv, EvaluatorTypes
  <2>4. Uses
    BY <2>1, NoUse DEF IInv
  <2>5. output' \in Seq([line : Nat, outcome : Outcomes]) /\ DOMAIN output' = DOMAIN entries
        /\ \A n \in DOMAIN entries : output'[n].outcome = answer[n]
    <3>1. Len(entries) \in Nat /\ DOMAIN entries = 1 .. Len(entries)
      BY <1>1, LenProperties
    <3>2. \A n \in DOMAIN entries : [line |-> entries[n].line, outcome |-> answer[n]] \in [line : Nat, outcome : Outcomes]
      BY <2>3 DEF EntryOf
    <3>3. Results \in [1 .. Len(entries) -> [line : Nat, outcome : Outcomes]]
      BY <3>1, <3>2 DEF Results
    <3>4. Results \in Seq([line : Nat, outcome : Outcomes])
      BY <3>1, <3>3, ListedIsSequence
    <3> QED BY <2>1, <3>4 DEF Results
  <2>6. exit' = IF \E n \in DOMAIN output' : output'[n].outcome.tag = "err" THEN 1 ELSE 0
    BY <2>1, <2>5
  <2>7. ProcessTypes'
    BY <1>1, <2>1, <2>5 DEF IInv, ProcessTypes, Stages
  <2>8. phase' = phase /\ answer' = answer /\ invocation' = invocation
    BY <1>1, <2>1 DEF evaluatorVars
  <2>9. Course'
    BY <1>1, <2>1, <2>2, <2>8 DEF Course, Idle
  <2>10. ExitTells'
    <3>1. exit' \in {0, 1}
      BY <2>6
    <3>2. exit' = 0 => \A c \in Calls : phase'[c] = "answered" => answer'[c].tag = "ok"
      <4>1. SUFFICES ASSUME exit' = 0, NEW c \in Calls, phase[c] = "answered" PROVE answer[c].tag = "ok"
        BY <2>8
      <4>2. c \in DOMAIN entries
        BY <1>1, <4>1 DEF Idle
      <4>3. answer[c] \in Outcomes /\ answer[c].tag # "err"
        BY <2>3, <2>5, <2>6, <4>1, <4>2
      <4> QED BY <4>3 DEF Outcomes
    <3> QED BY <1>1, <2>6, <2>8, <3>1, <3>2 DEF ExitTells
  <2> QED BY <2>4, <2>7, <2>9, <2>10 DEF Keeps
<1> QED BY <1>4, <1>5, <1>6

\* A line of the REPL is the call of its number; bindings stay bindings.
LEMMA LinesKeep ==
    ASSUME IInv, Leave \/ PrintLine \/ \E line \in Lines : SetLiteral(line) \/ AskLine(line)
    PROVE  Keeps
<1>1. /\ stage \in {"prompt", "evaluating"} /\ invocation.mode = "repl" /\ ~BadSettings(invocation)
      /\ UNCHANGED <<invocation, entries, output>>
  BY DEF IInv, Course, Leave, PrintLine, SetLiteral, AskLine
<1>2. /\ invocation \in Invocations /\ bindings \in Vars /\ invocation.precision \in PrecisionArgs
      /\ transcript \in Seq([line : LineOf, outcome : Outcomes \cup {NoOutcome}])
  BY InputAssumption DEF InputAssumption, IInv, ProcessTypes
<1>3. BadSettings(invocation)' = BadSettings(invocation)
  BY <1>1 DEF BadSettings, TimeoutOf, EntriesOf, Setting
<1>4. ASSUME stage' \in {"prompt", "evaluating"}, exit' = exit, bindings' \in Vars,
             transcript' \in Seq([line : LineOf, outcome : Outcomes \cup {NoOutcome}]),
             stage' = "evaluating" => Len(transcript') \in Calls, Uses
      PROVE  Keeps
  <2>1. ProcessTypes' /\ ExitTells'
    BY <1>1, <1>4 DEF IInv, ProcessTypes, Stages, ExitTells
  <2>2. Course'
    BY <1>1, <1>3, <1>4 DEF Course
  <2> QED BY <1>4, <2>1, <2>2 DEF Keeps
<1>5. ASSUME NEW line \in Lines
      PROVE  LET t == Append(transcript, [line |-> line, outcome |-> NoOutcome]) IN
             t \in Seq([line : LineOf, outcome : Outcomes \cup {NoOutcome}]) /\ Len(t) = NextCall
  <2>1. line \in LineOf
    BY InputAssumption DEF InputAssumption
  <2>2. [line |-> line, outcome |-> NoOutcome] \in [line : LineOf, outcome : Outcomes \cup {NoOutcome}]
    BY <2>1
  <2> QED BY <1>2, <2>2, AppendProperties DEF NextCall
<1>6. ASSUME NEW line \in Lines, SetLiteral(line)
      PROVE  Keeps
  <2>1. UNCHANGED <<evaluatorVars, stage, exit>> /\ stage = "prompt" /\ bindings' = line.vars
        /\ transcript' = Append(transcript, [line |-> line, outcome |-> NoOutcome])
    BY <1>6 DEF SetLiteral, Log
  <2>2. line.vars \in Vars
    BY InputAssumption DEF InputAssumption, LineOf
  <2>3. Uses
    BY <2>1, NoUse DEF IInv
  <2> QED BY <1>4, <1>5, <2>1, <2>2, <2>3
<1>7. ASSUME NEW line \in Lines, AskLine(line)
      PROVE  Keeps
  <2>1. /\ stage' = "evaluating" /\ UNCHANGED <<bindings, exit>>
        /\ transcript' = Append(transcript, [line |-> line, outcome |-> NoOutcome])
        /\ Len(transcript) < Cardinality(Calls)
    BY <1>7 DEF AskLine, Log
  <2>2. line.expr \in Exprs
    BY InputAssumption DEF InputAssumption, LineOf
  <2>3. PICK p \in PrecisionArgs : Ask(NextCall, line.expr, p)
    BY <1>2, <1>7 DEF AskLine, PrecisionArgs
  <2>4. PICK r \in AllRequests : Evaluator!Call(NextCall, r)
    BY <1>1, <1>2, <2>2, <2>3, AskedIsRequest DEF Ask
  <2>5. NextCall \in Calls
    BY <1>2, <2>1, LenProperties, FrontEndsAssumption DEF FrontEndsAssumption, NextCall
  <2>6. Uses
    BY <2>4, <2>5, CallUses DEF IInv
  <2>7. transcript' \in Seq([line : LineOf, outcome : Outcomes \cup {NoOutcome}]) /\ Len(transcript') = NextCall
    BY <1>5, <2>1
  <2> QED BY <1>2, <1>4, <2>1, <2>5, <2>6, <2>7
<1>8. CASE PrintLine
  <2> DEFINE n == Len(transcript)
  <2>1. /\ stage = "evaluating" /\ phase[n] = "answered" /\ stage' = "prompt" /\ UNCHANGED <<evaluatorVars, exit>>
        /\ transcript' = [transcript EXCEPT ![n].outcome = answer[n]]
        /\ bindings' = IF transcript[n].line.do = "let" THEN Bind(answer[n]) ELSE bindings
    BY <1>8 DEF PrintLine
  <2>2. n \in Calls /\ n \in DOMAIN transcript
    <3>1. n \in Calls
      BY <2>1 DEF IInv, Course
    <3> QED BY <1>2, <3>1, LenProperties, FrontEndsAssumption DEF FrontEndsAssumption
  <2> HIDE DEF n
  <2>3. answer[n] \in Outcomes
    BY <2>1, <2>2 DEF IInv, EvaluatorTypes
  <2>4. transcript' \in Seq([line : LineOf, outcome : Outcomes \cup {NoOutcome}])
    <3> DEFINE S == [line : LineOf, outcome : Outcomes \cup {NoOutcome}]
               e == [transcript[n] EXCEPT !.outcome = answer[n]]
    <3>1. transcript[n] \in S
      BY <1>2, <2>2, ElementOfSeq, LenProperties
    <3>2. e \in S
      BY <2>3, <3>1
    <3>3. transcript' = [transcript EXCEPT ![n] = e]
      BY <2>1
    <3> HIDE DEF S, e
    <3>4. transcript \in Seq(S) /\ n \in 1 .. Len(transcript)
      BY <1>2, <2>2, LenProperties DEF S
    <3>5. transcript' \in Seq(S)
      BY <3>2, <3>3, <3>4, ExceptSeq
    <3> QED BY <3>5 DEF S
  <2>5. bindings' \in Vars
    BY <1>2, <2>1, FrontEndsAssumption DEF FrontEndsAssumption, Bind
  <2>6. Uses
    BY <2>1, NoUse DEF IInv
  <2> QED BY <1>4, <2>1, <2>4, <2>5, <2>6
<1>9. CASE Leave
  <2>1. stage' = "exited" /\ exit' \in {0, 1} /\ UNCHANGED <<evaluatorVars, transcript, bindings>>
    BY <1>9 DEF Leave, Exit
  <2>2. Uses
    BY <2>1, NoUse DEF IInv
  <2>3. ProcessTypes'
    BY <1>1, <2>1 DEF IInv, ProcessTypes, Stages
  <2>4. Course' /\ ExitTells'
    BY <1>1, <2>1 DEF Course, ExitTells
  <2> QED BY <2>2, <2>3, <2>4 DEF Keeps
<1> QED BY <1>6, <1>7, <1>8, <1>9

\* An evaluation returns, or the world changes, while the process waits; none
\* returns to a process that has exited, except from the REPL.
LEMMA EvaluatorKeeps ==
    ASSUME IInv, AdvanceWorld \/ \E c \in Calls : Answered(c)
    PROVE  Keeps
<1>1. UNCHANGED processVars /\ UNCHANGED <<invocation, stage, bindings, entries, transcript, output, exit>>
  BY DEF AdvanceWorld, Answered, processVars
<1>2. ProcessTypes'
  BY <1>1 DEF IInv, ProcessTypes
<1>3. BadSettings(invocation)' = BadSettings(invocation) /\ Reads(invocation)' = Reads(invocation)
  BY <1>1 DEF BadSettings, TimeoutOf, EntriesOf, Setting, Reads
<1>4. CASE AdvanceWorld
  <2>1. Uses
    BY <1>4, WorldUses DEF AdvanceWorld, IInv
  <2>2. phase' = phase /\ answer' = answer
    BY <1>4 DEF AdvanceWorld, Evaluator!AdvanceWorld
  <2>3. Course'
    BY <1>1, <1>3, <2>2 DEF IInv, Course, Idle
  <2>4. ExitTells'
    BY <1>1, <2>2 DEF IInv, ExitTells
  <2> QED BY <1>2, <2>1, <2>3, <2>4 DEF Keeps
<1>5. ASSUME NEW c \in Calls, Answered(c)
      PROVE  Keeps
  <2>1. Uses /\ phase[c] = "pending" /\ phase' = [phase EXCEPT ![c] = "answered"]
    BY <1>5, ReturnUses DEF Answered, IInv, Evaluator!Return
  <2>2. phase'[c] = "answered" /\ \A x \in Calls : x # c => phase'[x] = phase[x]
    BY <2>1 DEF IInv, EvaluatorTypes
  <2>3. Course'
    BY <1>1, <1>3, <2>1, <2>2 DEF IInv, Course, Idle
  <2>4. ExitTells'
    <3>1. stage = "exited" => invocation.mode = "repl" /\ exit \notin {2, 3}
      BY <2>1 DEF IInv, Course, ExitTells
    <3> QED BY <1>1, <3>1 DEF ExitTells
  <2> QED BY <1>2, <2>1, <2>3, <2>4 DEF Keeps
<1> QED BY <1>4, <1>5

\* Every step keeps the invariant.
LEMMA StepKeeps ==
    ASSUME IInv, [Next]_vars
    PROVE  Keeps
<1>1. CASE UNCHANGED vars
  <2>1. UNCHANGED evaluatorVars /\ UNCHANGED <<invocation, stage, bindings, entries, transcript, output, exit, phase, answer>>
    BY <1>1 DEF vars, processVars, evaluatorVars
  <2>2. Uses
    BY <2>1, NoUse DEF IInv
  <2>3. BadSettings(invocation)' = BadSettings(invocation) /\ Reads(invocation)' = Reads(invocation)
    BY <2>1 DEF BadSettings, TimeoutOf, EntriesOf, Setting, Reads
  <2>4. ProcessTypes' /\ ExitTells'
    BY <2>1 DEF IInv, ProcessTypes, ExitTells
  <2>5. Course'
    BY <2>1, <2>3 DEF IInv, Course, Idle
  <2> QED BY <2>2, <2>4, <2>5 DEF Keeps
<1> QED BY <1>1, StartsKeep, SinglesKeep, BatchesKeep, LinesKeep, EvaluatorKeeps DEF Next, Process

\* It holds at first, so it always does.
LEMMA InvariantAlways == Spec => []IInv /\ Evaluator!Init /\ [][Evaluator!Next]_(Evaluator!promiseVars)
<1>1. Init => IInv
  <2> SUFFICES ASSUME Init PROVE IInv
    OBVIOUS
  <2>1. EvaluatorTypes
    <3>1. SomeRequest \in AllRequests
      BY ConstantsAssumption DEF ConstantsAssumption, SomeRequest
    <3> QED BY <3>1, SameVocabulary, ConstantsAssumption, FrontEndsAssumption
        DEF ConstantsAssumption, FrontEndsAssumption, Init, Evaluator!Init, EvaluatorTypes, Worlds
  <2>2. ProcessTypes
    <3>1. bindings \in Vars
      BY InputAssumption DEF InputAssumption, Init
    <3> QED BY <3>1, EmptySeq DEF Init, ProcessTypes, Stages
  <2>3. Course /\ ExitTells
    BY DEF Init, Evaluator!Init, Course, Idle, ExitTells
  <2> QED BY <2>1, <2>2, <2>3 DEF IInv
<1>2. IInv /\ [Next]_vars => IInv' /\ [Evaluator!Next]_(Evaluator!promiseVars)
  BY StepKeeps DEF Keeps, Uses, IInv
<1>3. Init => Evaluator!Init
  BY DEF Init
<1> QED BY <1>1, <1>2, <1>3, PTL DEF Spec

\* Variables keep their types for any command line, batch file and REPL input.
THEOREM FrontEndsTypeCorrect == Spec => []TypeOK
<1>1. IInv => TypeOK
  BY DEF IInv, EvaluatorTypes, ProcessTypes, TypeOK
<1> QED BY <1>1, InvariantAlways, PTL

\* Whatever is typed, read or passed to the process, it uses the evaluator as
\* EvalPromise allows: one call after the other or side by side, never one
\* that runs or is over, and only requests the promise is about.
THEOREM UsesPromise == Spec => Evaluator!Init /\ [][Evaluator!Next]_(Evaluator!promiseVars)
  BY InvariantAlways, PTL

\* Exit codes tell what ExitTells says of them, for any input, number of
\* workers and outcome of any evaluation.
THEOREM ExitCodesTell == Spec => []ExitTells
<1>1. IInv => ExitTells
  BY DEF IInv
<1> QED BY <1>1, InvariantAlways, PTL

-----------------------------------------------------------------------------
(* What is printed.                                                        *)

\* A moment more to answer in allows no less.
LEMMA AllowedGrows ==
    ASSUME NEW r, NEW ws, NEW us, ws \subseteq us
    PROVE  Allowed(r, ws) \subseteq Allowed(r, us)
  BY DEF Allowed

AnswersAllowed == \A c \in Calls : phase[c] = "answered" => answer[c] \in Allowed(request[c], 0 .. world)

\* Answers are never changed, and what was right stays right.
LEMMA AnswersStayAllowed ==
    ASSUME IInv, AnswersAllowed, Uses
    PROVE  AnswersAllowed'
<1>1. world \in Nat /\ \A c \in Calls : since[c] \in Nat
  BY ConstantsAssumption DEF ConstantsAssumption, IInv, EvaluatorTypes, Worlds
<1>2. CASE UNCHANGED Evaluator!promiseVars
  BY <1>2 DEF AnswersAllowed, Evaluator!promiseVars
<1>3. CASE Evaluator!AdvanceWorld
  <2>1. 0 .. world \subseteq 0 .. world' /\ UNCHANGED <<phase, request, answer>>
    BY <1>1, <1>3 DEF Evaluator!AdvanceWorld
  <2> QED BY <2>1, AllowedGrows DEF AnswersAllowed
<1>4. ASSUME NEW c \in Calls, Evaluator!Return(c)
      PROVE  AnswersAllowed'
  <2>1. PICK o \in Allowed(request[c], since[c] .. world) : answer' = [answer EXCEPT ![c] = o]
    BY <1>4, SameVocabulary DEF Evaluator!Return
  <2>2. o \in Allowed(request[c], 0 .. world)
    <3>1. since[c] .. world \subseteq 0 .. world
      BY <1>1
    <3> QED BY <2>1, <3>1, AllowedGrows
  <2> QED BY <1>4, <2>1, <2>2 DEF AnswersAllowed, Evaluator!Return, IInv, EvaluatorTypes
<1>5. ASSUME NEW c \in Calls, NEW r, Evaluator!Call(c, r)
      PROVE  AnswersAllowed'
  BY <1>5 DEF AnswersAllowed, Evaluator!Call, IInv, EvaluatorTypes
<1> QED BY <1>2, <1>3, <1>4, <1>5 DEF Uses, Evaluator!Next

AskedFor(expr, known, precision) ==
    [expr |-> expr, vars |-> known, timeout |-> TimeoutOf(invocation), precision |-> precision]

\* Nothing is printed before the end of a batch, which asks for its entries
\* with the variables of the command line.
BatchCourse ==
    /\ stage # "exited" => output = <<>>
    /\ stage = "batch" =>
         /\ bindings = invocation.vars
         /\ entries # <<>> => entries = EntriesIn(invocation.lines) /\ ~Rejected(invocation)
         /\ \A c \in Calls : ~Idle(c) => request[c] = AskedFor(entries[c].expr, bindings, "none")

PrintInv == IInv /\ AnswersAllowed /\ BatchCourse /\ OutputNamesLines

\* What the entries' results name.
LEMMA ResultsNameLines ==
    ASSUME PrintInv, PrintBatch
    PROVE  OutputNamesLines'
<1>1. /\ stage = "batch" /\ entries # <<>> /\ \A n \in DOMAIN entries : phase[n] = "answered"
      /\ output' = Results /\ UNCHANGED <<evaluatorVars, invocation, entries>>
  BY DEF PrintBatch
<1>2. /\ invocation.lines \in Seq(TextOf) /\ bindings = invocation.vars
      /\ entries = EntriesIn(invocation.lines) /\ ~Rejected(invocation)
      /\ entries \in Seq(EntryOf) /\ Len(entries) <= MaxBatch
  BY <1>1, InputAssumption DEF InputAssumption, PrintInv, BatchCourse, IInv, ProcessTypes, Course
<1> DEFINE lines == invocation.lines
<1>3. Lists(entries, lines, Len(lines)) /\ Len(entries) \in Nat /\ DOMAIN entries = 1 .. Len(entries)
  BY <1>2, EntriesListLines, LenProperties
<1>4. Len(lines) \in Nat /\ DOMAIN lines = 1 .. Len(lines) /\ \A l \in DOMAIN lines : lines[l].kind \in {"expr", "long", "blank"}
  <2>1. \A l \in 1 .. Len(lines) : lines[l] \in TextOf
    BY <1>2, ElementOfSeq
  <2> QED BY <1>2, <2>1, LenProperties DEF TextOf
<1>5. \A n \in DOMAIN entries : entries[n].kind # "long"
  BY <1>2 DEF Rejected
<1>6. DOMAIN output' = DOMAIN entries /\ \A n \in DOMAIN entries : output'[n] = [line |-> entries[n].line, outcome |-> answer[n]]
  BY <1>1 DEF Results
<1>7. ASSUME NEW n \in DOMAIN entries
      PROVE  LET l == entries[n].line IN
             /\ l \in DOMAIN lines /\ lines[l].kind = "expr"
             /\ answer[n] \in Allowed(AskedFor(lines[l].expr, invocation.vars, "none"), 0 .. world)
  <2> DEFINE l == entries[n].line
  <2>1. l \in 1 .. Len(lines) /\ entries[n] = EntryAt(lines, l) /\ entries[n].kind # "blank"
    BY <1>3, <1>7 DEF Lists
  <2>2. entries[n].kind = lines[l].kind /\ entries[n].expr = lines[l].expr
    BY <2>1 DEF EntryAt
  <2>3. n \in Calls
    BY <1>2, <1>3, <1>7, FrontEndsAssumption DEF FrontEndsAssumption
  <2>4. request[n] = AskedFor(entries[n].expr, bindings, "none") /\ answer[n] \in Allowed(request[n], 0 .. world)
    BY <1>1, <1>7, <2>3 DEF PrintInv, BatchCourse, AnswersAllowed, Idle
  <2> HIDE DEF l
  <2> QED BY <1>2, <1>4, <1>5, <1>7, <2>1, <2>2, <2>4 DEF l
<1>8. \A n \in DOMAIN entries : n > 1 => entries[n - 1].line < entries[n].line
  BY <1>3 DEF Lists
<1>9. \A l \in DOMAIN lines : lines[l].kind = "expr" => \E n \in DOMAIN entries : entries[n].line = l
  BY <1>3, <1>4 DEF Lists
<1>10. world' = world /\ invocation' = invocation /\ TimeoutOf(invocation)' = TimeoutOf(invocation)
  BY <1>1 DEF evaluatorVars, TimeoutOf, Setting
<1>11. \A n \in DOMAIN entries : n > 1 => n - 1 \in DOMAIN entries
  BY <1>3
<1> HIDE DEF lines
<1>12. \A n \in DOMAIN output' :
          LET l == output'[n].line IN
          /\ n > 1 => output'[n - 1].line < l
          /\ l \in DOMAIN lines /\ lines[l].kind = "expr"
          /\ output'[n].outcome \in Allowed(AskedFor(lines[l].expr, invocation.vars, "none"), 0 .. world)
  BY <1>6, <1>7, <1>8, <1>11
<1>13. \A l \in DOMAIN lines : lines[l].kind = "expr" => \E n \in DOMAIN output' : output'[n].line = l
  BY <1>6, <1>9
<1> QED BY <1>10, <1>12, <1>13 DEF OutputNamesLines, AskedFor, lines

\* Other steps leave what was printed alone.
LEMMA OutputStays ==
    ASSUME IInv, OutputNamesLines, Uses, UNCHANGED <<invocation, output>>, stage' = "exited" => stage = "exited" \/ output = <<>>
    PROVE  OutputNamesLines'
<1>1. CASE stage' = "exited" /\ output # <<>>
  <2>1. world \in Nat /\ world' \in Nat /\ world <= world'
    BY ConstantsAssumption
    DEF ConstantsAssumption, IInv, EvaluatorTypes, Worlds, Uses, Evaluator!Next, Evaluator!AdvanceWorld, Evaluator!Call,
        Evaluator!Return, Evaluator!promiseVars
  <2>2. \A r : Allowed(r, 0 .. world) \subseteq Allowed(r, 0 .. world')
    <3>1. 0 .. world \subseteq 0 .. world'
      BY <2>1
    <3> QED BY <3>1, AllowedGrows
  <2>3. TimeoutOf(invocation)' = TimeoutOf(invocation)
    BY DEF TimeoutOf, Setting
  <2> HIDE DEF Allowed, TimeoutOf
  <2> QED BY <1>1, <2>2, <2>3 DEF OutputNamesLines
<1>2. CASE ~(stage' = "exited" /\ output # <<>>)
  BY <1>2 DEF OutputNamesLines
<1> QED BY <1>1, <1>2

\* Every step keeps what a batch prints in order.
LEMMA PrintKeeps ==
    ASSUME PrintInv, [Next]_vars
    PROVE  PrintInv'
<1>1. Keeps
  BY StepKeeps DEF PrintInv
<1>2. IInv' /\ AnswersAllowed'
  BY <1>1, AnswersStayAllowed DEF PrintInv, Keeps, Uses, IInv
<1>3. invocation' = invocation
  BY DEF Next, Process, vars, processVars, RefuseSettings, RunServer, Start, Canonical, Show, AskValue, PrintSingle, ReadBatch,
         PrintBatch, PrintLine, StartEntry, AdvanceWorld, Leave, Answered, SetLiteral, AskLine
<1>4. \A e, v, p : AskedFor(e, v, p)' = AskedFor(e', v', p')
  BY <1>3 DEF AskedFor, TimeoutOf, Setting
<1>5. CASE ReadBatch
  <2>1. stage = "batch" /\ entries = <<>> /\ UNCHANGED <<evaluatorVars, bindings, output>> /\ DOMAIN entries = {}
    BY <1>5 DEF ReadBatch
  <2>2. \A c \in Calls : Idle(c) /\ Idle(c)'
    BY <2>1 DEF PrintInv, IInv, Course, Idle, evaluatorVars
  <2>3. output = <<>>
    BY <2>1 DEF PrintInv, BatchCourse
  <2>4. OutputNamesLines'
    BY <2>1, <2>3 DEF OutputNamesLines
  <2>5. Rejected(invocation)' = Rejected(invocation)
    BY <1>3 DEF Rejected
  <2>6. BatchCourse'
    BY <1>3, <1>5, <2>1, <2>2, <2>3, <2>5 DEF PrintInv, BatchCourse, ReadBatch, Exit
  <2> QED BY <1>2, <2>4, <2>6 DEF PrintInv
<1>6. CASE PrintBatch
  <2>1. stage' = "exited"
    BY <1>6 DEF PrintBatch, Exit
  <2>2. BatchCourse'
    BY <2>1 DEF BatchCourse
  <2> QED BY <1>2, <1>6, <2>2, ResultsNameLines DEF PrintInv
<1>7. ASSUME NEW n \in Calls, StartEntry(n)
      PROVE  PrintInv'
  <2>1. /\ stage = "batch" /\ stage' = "batch" /\ n \in DOMAIN entries /\ UNCHANGED <<entries, bindings, output>>
        /\ Evaluator!Call(n, AskedFor(entries[n].expr, bindings, "none"))
    BY <1>7 DEF StartEntry, processVars, Ask, AskedFor
  <2>2. request'[n] = AskedFor(entries[n].expr, bindings, "none")
        /\ \A c \in Calls \ {n} : request'[c] = request[c] /\ phase'[c] = phase[c]
    BY <2>1 DEF Evaluator!Call, PrintInv, IInv, EvaluatorTypes
  <2>3. OutputNamesLines'
    BY <2>1 DEF OutputNamesLines
  <2>4. Rejected(invocation)' = Rejected(invocation) /\ TimeoutOf(invocation)' = TimeoutOf(invocation)
    BY <1>3 DEF Rejected, TimeoutOf, Setting
  <2>5. ASSUME NEW c \in Calls, ~Idle(c)'
        PROVE  request'[c] = AskedFor(entries[c].expr, bindings, "none")
    BY <2>1, <2>2, <2>5 DEF PrintInv, BatchCourse, Idle
  <2>6. BatchCourse'
    BY <1>3, <2>1, <2>4, <2>5 DEF PrintInv, BatchCourse, AskedFor
  <2> QED BY <1>2, <2>3, <2>6 DEF PrintInv
<1>8. CASE UNCHANGED processVars /\ (AdvanceWorld \/ (\E c \in Calls : Answered(c)) \/ AskValue \/ UNCHANGED vars)
  <2>1. UNCHANGED <<invocation, stage, bindings, entries, output>>
    BY <1>8 DEF processVars
  <2>2. OutputNamesLines'
    BY <1>1, <2>1, OutputStays DEF PrintInv, Keeps
  <2>3. Rejected(invocation)' = Rejected(invocation) /\ TimeoutOf(invocation)' = TimeoutOf(invocation)
    BY <1>3 DEF Rejected, TimeoutOf, Setting
  <2>4. stage = "batch" => request' = request /\ \A c \in Calls : Idle(c) <=> Idle(c)'
    BY <1>8 DEF AdvanceWorld, Answered, AskValue, vars, evaluatorVars, Evaluator!AdvanceWorld, Evaluator!Return, Idle, PrintInv, IInv, EvaluatorTypes
  <2>5. BatchCourse'
    BY <2>1, <2>3, <2>4 DEF PrintInv, BatchCourse, AskedFor
  <2> QED BY <1>2, <2>2, <2>5 DEF PrintInv
<1>9. CASE Start
  <2>1. stage = "start" /\ UNCHANGED <<evaluatorVars, output>> /\ output = <<>> /\ \A c \in Calls : Idle(c) /\ Idle(c)'
    BY <1>9 DEF Start, PrintInv, BatchCourse, IInv, Course, Idle, evaluatorVars
  <2>2. stage' = "batch" => bindings' = invocation.vars /\ entries' = <<>>
    BY <1>9, <2>1 DEF Start, Exit, PrintInv, IInv, Course
  <2> QED BY <1>2, <1>3, <2>1, <2>2 DEF PrintInv, BatchCourse, OutputNamesLines
<1>10. CASE RefuseSettings \/ RunServer \/ Canonical \/ Show \/ PrintSingle \/ Leave \/ PrintLine \/ \E line \in Lines : SetLiteral(line) \/ AskLine(line)
  <2>1. output' = output /\ output = <<>> /\ stage' # "batch"
    BY <1>10 DEF RefuseSettings, RunServer, Canonical, Show, PrintSingle, Leave, PrintLine, SetLiteral, AskLine, Exit, PrintInv, BatchCourse
  <2> QED BY <1>2, <2>1 DEF PrintInv, BatchCourse, OutputNamesLines
<1> QED BY <1>5, <1>6, <1>7, <1>8, <1>9, <1>10 DEF Next, Process, AdvanceWorld, Answered, AskValue, vars

\* Whatever the lines, the number of workers and their order, a batch prints
\* one allowed result for each line that has an expression, in the order of the
\* file and under the number the line has in it.
THEOREM BatchNamesItsLines == Spec => []OutputNamesLines
<1>1. Init => AnswersAllowed /\ BatchCourse /\ OutputNamesLines
  BY DEF Init, Evaluator!Init, AnswersAllowed, BatchCourse, OutputNamesLines
<1>2. IInv /\ AnswersAllowed /\ BatchCourse /\ OutputNamesLines => PrintInv
  BY DEF PrintInv
<1>3. PrintInv /\ [Next]_vars => PrintInv'
  BY PrintKeeps
<1>4. PrintInv => OutputNamesLines
  BY DEF PrintInv
<1> QED BY <1>1, <1>2, <1>3, <1>4, InvariantAlways, PTL DEF Spec

-----------------------------------------------------------------------------
(* The REPL's variables.  Nothing here but the last lemmas is about a step: *)
(* what a transcript binds is a matter of the transcript alone.             *)

\* Only the lines so far count.
LEMMA BoundSoFar ==
    ASSUME NEW i, NEW ts, NEW us, NEW n \in Nat, \A k \in 1 .. n : us[k] = ts[k]
    PROVE  BoundAfter(i, us, n) = BoundAfter(i, ts, n)
<1>1. \A k \in 1 .. n : (BindsAt(us, k) <=> BindsAt(ts, k)) /\ BoundAt(us, k) = BoundAt(ts, k)
  BY DEF BindsAt, BoundAt
<1>2. LastBinding(us, n) = LastBinding(ts, n)
  <2>1. ASSUME NEW k \in 1 .. n
        PROVE  (\A j \in k + 1 .. n : ~BindsAt(us, j)) <=> (\A j \in k + 1 .. n : ~BindsAt(ts, j))
    BY <1>1
  <2> QED BY <1>1, <2>1 DEF LastBinding
<1>3. LastBinding(ts, n) \subseteq 1 .. n
  BY DEF LastBinding
<1>4. CASE LastBinding(ts, n) # {}
  <2> DEFINE last == CHOOSE k \in LastBinding(ts, n) : TRUE
  <2>1. last \in 1 .. n
    BY <1>3, <1>4
  <2>2. BoundAfter(i, us, n) = BoundAt(us, last) /\ BoundAfter(i, ts, n) = BoundAt(ts, last)
    BY <1>2, <1>4 DEF BoundAfter
  <2> QED BY <1>1, <2>1, <2>2
<1>5. CASE LastBinding(ts, n) = {}
  BY <1>2, <1>5 DEF BoundAfter
<1> QED BY <1>4, <1>5

\* A line that binds is the last that does; another leaves all as it was.
LEMMA BoundOneMore ==
    ASSUME NEW i, NEW ts, NEW n \in Nat \ {0}
    PROVE  BoundAfter(i, ts, n) = IF BindsAt(ts, n) THEN BoundAt(ts, n) ELSE BoundAfter(i, ts, n - 1)
<1>1. CASE BindsAt(ts, n)
  <2>1. LastBinding(ts, n) = {n}
    <3>1. n \in LastBinding(ts, n)
      BY <1>1 DEF LastBinding
    <3>2. ASSUME NEW k \in LastBinding(ts, n), k # n
          PROVE  FALSE
      <4>1. n \in k + 1 .. n
        BY <3>2 DEF LastBinding
      <4> QED BY <1>1, <4>1 DEF LastBinding
    <3> QED BY <3>1, <3>2
  <2> QED BY <1>1, <2>1 DEF BoundAfter
<1>2. CASE ~BindsAt(ts, n)
  <2>1. LastBinding(ts, n) = LastBinding(ts, n - 1)
    <3>1. ASSUME NEW k \in LastBinding(ts, n)
          PROVE  k \in LastBinding(ts, n - 1)
      BY <1>2 DEF LastBinding
    <3>2. ASSUME NEW k \in LastBinding(ts, n - 1)
          PROVE  k \in LastBinding(ts, n)
      <4>1. k \in 1 .. n /\ \A j \in k + 1 .. n : j = n \/ j \in k + 1 .. n - 1
        BY DEF LastBinding
      <4> QED BY <1>2, <4>1 DEF LastBinding
    <3> QED BY <3>1, <3>2
  <2> QED BY <1>2, <2>1 DEF BoundAfter
<1> QED BY <1>1, <1>2

\* Nothing is bound by no lines.
LEMMA BoundAtFirst ==
    ASSUME NEW i, NEW ts
    PROVE  BoundAfter(i, ts, 0) = i.vars
<1>1. LastBinding(ts, 0) = {}
  BY DEF LastBinding
<1> QED BY <1>1 DEF BoundAfter

\* A line dealt with replays as before, whatever follows it and as time goes on.
LEMMA ReplayStays ==
    ASSUME NEW i, NEW ts, NEW us, NEW n \in Nat \ {0}, \A k \in 1 .. n : us[k] = ts[k],
           NEW v \in Nat, NEW w \in Nat, v <= w, Replays(i, ts, n, v)
    PROVE  Replays(i, us, n, w)
<1>1. BoundAfter(i, us, n - 1) = BoundAfter(i, ts, n - 1)
  BY BoundSoFar
<1>2. us[n] = ts[n]
  OBVIOUS
<1>3. \A r : Allowed(r, 0 .. v) \subseteq Allowed(r, 0 .. w)
  BY AllowedGrows
<1> QED BY <1>1, <1>2, <1>3 DEF Replays

\* Between two lines the variables are those of the transcript; the line that
\* is evaluated is the last one and was asked for with those before it.
ReplCourse ==
    /\ stage \in {"start", "single", "batch"} => transcript = <<>>
    /\ stage = "prompt" => bindings = BoundAfter(invocation, transcript, Len(transcript))
    /\ stage = "evaluating" =>
         \E n \in Nat \ {0} :
            /\ n = Len(transcript) /\ ~Idle(n)
            /\ transcript[n].outcome = NoOutcome /\ transcript[n].line.do \in {"eval", "let"}
            /\ bindings = BoundAfter(invocation, transcript, n - 1)
            /\ request[n] = LineRequest(invocation, transcript[n].line, bindings)
TalkInv == IInv /\ AnswersAllowed /\ ReplCourse /\ TranscriptReplays

\* What both states of a step have in common.
TalkStep ==
    /\ TalkInv /\ Keeps /\ AnswersAllowed' /\ invocation' = invocation
    /\ Len(transcript) \in Nat /\ DOMAIN transcript = 1 .. Len(transcript)
    /\ world \in Nat /\ world' \in Nat /\ world <= world'
LineRecords == [line : LineOf, outcome : Outcomes \cup {NoOutcome}]
LEMMA TalkStepIs ==
    ASSUME TalkInv, Keeps, AnswersAllowed', invocation' = invocation
    PROVE  TalkStep /\ transcript \in Seq(LineRecords) /\ transcript' \in Seq(LineRecords)
<1>1. transcript \in Seq(LineRecords) /\ transcript' \in Seq(LineRecords)
  BY DEF TalkInv, IInv, Keeps, ProcessTypes, LineRecords
<1>2. Len(transcript) \in Nat /\ DOMAIN transcript = 1 .. Len(transcript)
  BY <1>1, LenProperties
<1>3. world \in Nat /\ world' \in Nat
  BY ConstantsAssumption DEF ConstantsAssumption, TalkInv, IInv, Keeps, Uses, EvaluatorTypes, Worlds
<1>4. world <= world'
  BY <1>3
  DEF Keeps, Uses, Evaluator!Next, Evaluator!AdvanceWorld, Evaluator!Call, Evaluator!Return, Evaluator!promiseVars
<1> QED BY <1>1, <1>2, <1>3, <1>4 DEF TalkStep

\* A step that does not touch the transcript.
LEMMA TalkWaits ==
    ASSUME TalkInv, Keeps, AnswersAllowed', UNCHANGED <<invocation, transcript>>, ReplCourse'
    PROVE  TalkInv'
<1>1. TalkStep
  BY TalkStepIs
<1>2. IInv'
  BY DEF Keeps, Uses, IInv
<1>3. \A n \in DOMAIN transcript : Replays(invocation, transcript, n, world')
  BY <1>1, ReplayStays DEF TalkStep, TalkInv, TranscriptReplays
<1> QED BY <1>2, <1>3 DEF TalkInv, TranscriptReplays

\* A line that is added has no outcome yet, and those before it stay.
LEMMA LogAdds ==
    ASSUME TalkStep, NEW n, n = Len(transcript), NEW line \in Lines, Log(line, NoOutcome)
    PROVE  /\ n \in Nat /\ Len(transcript') = n + 1 /\ DOMAIN transcript' = 1 .. n + 1
           /\ transcript'[n + 1] = [line |-> line, outcome |-> NoOutcome]
           /\ \A k \in 1 .. n : transcript'[k] = transcript[k]
<1> DEFINE e == [line |-> line, outcome |-> NoOutcome]
<1>1. line \in LineOf
  BY InputAssumption DEF InputAssumption
<1>2. transcript \in Seq(LineRecords) /\ e \in LineRecords /\ transcript' = Append(transcript, e)
  BY <1>1 DEF TalkStep, TalkInv, IInv, ProcessTypes, Log, LineRecords
<1> HIDE DEF e
<1>3. e = [line |-> line, outcome |-> NoOutcome]
  BY DEF e
<1>4. /\ Len(transcript') = n + 1 /\ n \in Nat
      /\ transcript'[n + 1] = e /\ \A k \in 1 .. n : transcript'[k] = transcript[k]
  BY <1>2, AppendProperties, LenProperties
<1>5. transcript' \in Seq(LineRecords)
  BY <1>2, AppendProperties
<1> QED BY <1>3, <1>4, <1>5, LenProperties
LEMMA TalkGrows ==
    ASSUME TalkStep, NEW line \in Lines, Log(line, NoOutcome), ReplCourse'
    PROVE  TalkInv'
<1>1. PICK n \in Nat : n = Len(transcript)
  BY DEF TalkStep
<1>2. /\ DOMAIN transcript' = 1 .. n + 1
      /\ transcript'[n + 1] = [line |-> line, outcome |-> NoOutcome]
      /\ \A k \in 1 .. n : transcript'[k] = transcript[k]
  BY <1>1, LogAdds
<1>3. ASSUME NEW k \in 1 .. n
      PROVE  Replays(invocation', transcript', k, world')
  <2>1. Replays(invocation, transcript, k, world)
    BY <1>1 DEF TalkStep, TalkInv, TranscriptReplays
  <2>2. \A j \in 1 .. k : transcript'[j] = transcript[j]
    BY <1>2
  <2> QED BY <2>1, <2>2, ReplayStays DEF TalkStep
<1>4. Replays(invocation', transcript', n + 1, world')
  <2>1. transcript'[n + 1].outcome = NoOutcome
    BY <1>2
  <2> QED BY <2>1 DEF Replays
<1>5. TranscriptReplays'
  <2>1. \A k \in 1 .. n + 1 : Replays(invocation', transcript', k, world')
    BY <1>3, <1>4
  <2> QED BY <1>2, <2>1 DEF TranscriptReplays
<1>6. IInv'
  BY DEF TalkStep, Keeps, Uses, IInv
<1> QED BY <1>5, <1>6 DEF TalkInv, TalkStep

\* :let x = literal.
LEMMA SetKeepsTalk ==
    ASSUME TalkStep, NEW line \in Lines, SetLiteral(line)
    PROVE  TalkInv'
<1>1. PICK n \in Nat : n = Len(transcript)
  BY DEF TalkStep
<1>2. stage' = "prompt" /\ bindings' = line.vars /\ line.do = "set" /\ Log(line, NoOutcome)
  BY DEF SetLiteral
<1>3. Len(transcript') = n + 1 /\ transcript'[n + 1] = [line |-> line, outcome |-> NoOutcome]
  BY <1>1, <1>2, LogAdds
<1>4. BindsAt(transcript', n + 1) /\ BoundAt(transcript', n + 1) = line.vars
  BY <1>2, <1>3 DEF BindsAt, BoundAt
<1>5. BoundAfter(invocation', transcript', n + 1) = bindings'
  BY <1>2, <1>4, BoundOneMore
<1>6. ReplCourse'
  BY <1>2, <1>3, <1>5 DEF ReplCourse
<1> QED BY <1>2, <1>6, TalkGrows

\* A line is evaluated with what is bound before it.
LEMMA AskKeepsTalk ==
    ASSUME TalkStep, NEW line \in Lines, AskLine(line)
    PROVE  TalkInv'
<1>1. PICK n \in Nat : n = Len(transcript)
  BY DEF TalkStep
<1>2. /\ stage = "prompt" /\ stage' = "evaluating" /\ bindings' = bindings /\ line.do \in {"eval", "let"}
      /\ Log(line, NoOutcome)
      /\ Evaluator!Call(n + 1, LineRequest(invocation, line, bindings))
  BY <1>1 DEF AskLine, Ask, LineRequest, NextCall
<1>3. /\ Len(transcript') = n + 1 /\ transcript'[n + 1] = [line |-> line, outcome |-> NoOutcome]
      /\ \A k \in 1 .. n : transcript'[k] = transcript[k]
  BY <1>1, <1>2, LogAdds
<1>4. n + 1 \in Calls
  BY <1>2, <1>3 DEF TalkStep, Keeps, Course
<1>5. request'[n + 1] = LineRequest(invocation, line, bindings) /\ phase'[n + 1] = "pending"
  BY <1>2, <1>4 DEF Evaluator!Call, TalkStep, TalkInv, IInv, EvaluatorTypes
<1>6. BoundAfter(invocation', transcript', n) = bindings'
  <2>1. BoundAfter(invocation, transcript, n) = bindings
    BY <1>1, <1>2 DEF TalkStep, TalkInv, ReplCourse
  <2> QED BY <1>2, <1>3, <2>1, BoundSoFar DEF TalkStep
<1>7. ReplCourse'
  <2>1. n + 1 \in Nat \ {0} /\ (n + 1) - 1 = n /\ transcript'[n + 1].line = line /\ transcript'[n + 1].outcome = NoOutcome
    BY <1>3
  <2>2. request'[n + 1] = LineRequest(invocation', transcript'[n + 1].line, bindings')
    BY <1>2, <1>5, <2>1 DEF TalkStep
  <2>3. ~(phase'[n + 1] = "idle")
    BY <1>5
  <2> QED BY <1>2, <1>3, <1>6, <2>1, <2>2, <2>3 DEF ReplCourse, Idle
<1> QED BY <1>2, <1>7, TalkGrows

\* The outcome is printed, and a :let that has a scalar binds it.
LEMMA PrintKeepsTalk ==
    ASSUME TalkStep, PrintLine, transcript \in Seq(LineRecords), transcript' \in Seq(LineRecords)
    PROVE  TalkInv'
<1>1. PICK n \in Nat \ {0} :
        /\ n = Len(transcript)
        /\ transcript[n].outcome = NoOutcome /\ transcript[n].line.do \in {"eval", "let"}
        /\ bindings = BoundAfter(invocation, transcript, n - 1)
        /\ request[n] = LineRequest(invocation, transcript[n].line, bindings)
  BY DEF PrintLine, TalkStep, TalkInv, ReplCourse
<1>2. PICK t \in LineRecords : t = transcript[n]
  BY <1>1, ElementOfSeq DEF TalkStep
<1>3. /\ stage' = "prompt" /\ phase[n] = "answered" /\ world' = world /\ invocation' = invocation
      /\ transcript' = [transcript EXCEPT ![n].outcome = answer[n]]
      /\ bindings' = IF t.line.do = "let" THEN Bind(answer[n]) ELSE bindings
  BY <1>1, <1>2 DEF PrintLine, evaluatorVars
<1>4. /\ DOMAIN transcript' = 1 .. n /\ transcript'[n].line = t.line /\ transcript'[n].outcome = answer[n]
      /\ \A k \in 1 .. n - 1 : transcript'[k] = transcript[k]
  <2>1. [t EXCEPT !.outcome = answer[n]].line = t.line /\ [t EXCEPT !.outcome = answer[n]].outcome = answer[n]
    BY <1>2 DEF LineRecords
  <2>2. transcript' = [transcript EXCEPT ![n] = [t EXCEPT !.outcome = answer[n]]]
    BY <1>2, <1>3
  <2>3. n \in DOMAIN transcript /\ DOMAIN transcript = 1 .. n
    BY <1>1 DEF TalkStep
  <2> QED BY <2>1, <2>2, <2>3
<1>5. Len(transcript') = n
  BY <1>1, <1>4, LenProperties
<1>6. n \in Calls
  BY <1>1 DEF PrintLine, TalkStep, TalkInv, IInv, Course
<1>7. answer[n] \in Outcomes /\ answer[n] # NoOutcome /\ answer[n] \in Allowed(request[n], 0 .. world)
  BY <1>3, <1>6, FrontEndsAssumption DEF FrontEndsAssumption, TalkStep, TalkInv, IInv, EvaluatorTypes, AnswersAllowed
<1>8. BoundAfter(invocation, transcript', n - 1) = bindings
  BY <1>1, <1>4, BoundSoFar
<1>9. BoundAfter(invocation, transcript', n) = bindings'
  <2>1. BoundAfter(invocation, transcript', n) = IF BindsAt(transcript', n) THEN BoundAt(transcript', n) ELSE bindings
    BY <1>8, BoundOneMore
  <2>2. t.line.do \in {"eval", "let"}
    BY <1>1, <1>2
  <2>3. bindings' = IF BindsAt(transcript', n) THEN BoundAt(transcript', n) ELSE bindings
    BY <1>3, <1>4, <1>7, <2>2 DEF Bind, BindsAt, BoundAt
  <2> QED BY <2>1, <2>3
<1>10. ReplCourse'
  BY <1>3, <1>5, <1>9 DEF ReplCourse
<1>11. Replays(invocation, transcript', n, world)
  <2>1. answer[n] \in Allowed(LineRequest(invocation, t.line, BoundAfter(invocation, transcript', n - 1)), 0 .. world)
    BY <1>1, <1>2, <1>7, <1>8
  <2> QED BY <1>4, <2>1 DEF Replays
<1>12. ASSUME NEW k \in 1 .. n - 1
       PROVE  Replays(invocation, transcript', k, world)
  <2>1. Replays(invocation, transcript, k, world)
    BY <1>1 DEF TalkStep, TalkInv, TranscriptReplays
  <2>2. \A j \in 1 .. k : transcript'[j] = transcript[j]
    BY <1>4
  <2> QED BY <2>1, <2>2, ReplayStays DEF TalkStep
<1>13. TranscriptReplays'
  <2>1. \A k \in 1 .. n : Replays(invocation, transcript', k, world)
    BY <1>11, <1>12
  <2> QED BY <1>3, <1>4, <2>1 DEF TranscriptReplays
<1>14. IInv'
  BY DEF TalkStep, Keeps, Uses, IInv
<1> QED BY <1>10, <1>13, <1>14 DEF TalkInv, TalkStep

\* Every step keeps the dialogue true to its transcript.
LEMMA TalkKeeps ==
    ASSUME TalkInv, [Next]_vars
    PROVE  TalkInv'
<1>1. Keeps
  BY StepKeeps DEF TalkInv
<1>2. AnswersAllowed'
  BY <1>1, AnswersStayAllowed DEF TalkInv, Keeps
<1>3. ASSUME NEW line \in Lines, SetLiteral(line) \/ AskLine(line)
      PROVE  TalkInv'
  <2>1. invocation' = invocation
    BY <1>3 DEF SetLiteral, AskLine
  <2> QED BY <1>1, <1>2, <1>3, <2>1, TalkStepIs, SetKeepsTalk, AskKeepsTalk
<1>4. CASE PrintLine
  <2>1. invocation' = invocation
    BY <1>4 DEF PrintLine
  <2> QED BY <1>1, <1>2, <1>4, <2>1, TalkStepIs, PrintKeepsTalk
<1>5. CASE Leave \/ RefuseSettings \/ RunServer \/ Canonical \/ Show \/ PrintSingle \/ ReadBatch \/ PrintBatch \/ AskValue \/ \E n \in Calls : StartEntry(n)
  <2>1. UNCHANGED <<invocation, transcript>> /\ stage' \notin {"prompt", "evaluating"}
        /\ (stage' \in {"start", "single", "batch"} => stage \in {"start", "single", "batch"})
    BY <1>5 DEF Leave, RefuseSettings, RunServer, Canonical, Show, PrintSingle, ReadBatch, PrintBatch, AskValue, StartEntry, Exit, processVars
  <2>2. ReplCourse'
    BY <2>1 DEF TalkInv, ReplCourse
  <2> QED BY <1>1, <1>2, <2>1, <2>2, TalkWaits
<1>6. CASE Start
  <2>1. UNCHANGED <<invocation, transcript>> /\ transcript = <<>> /\ stage' # "evaluating"
        /\ (stage' = "prompt" => bindings' = invocation.vars)
    BY <1>6 DEF Start, Exit, TalkInv, ReplCourse
  <2>2. Len(transcript') = 0 /\ BoundAfter(invocation', transcript', 0) = invocation.vars
    BY <2>1, EmptySeq, BoundAtFirst
  <2>3. ReplCourse'
    BY <2>1, <2>2 DEF ReplCourse
  <2> QED BY <1>1, <1>2, <2>1, <2>3, TalkWaits
<1>7. CASE AdvanceWorld \/ (\E c \in Calls : Answered(c)) \/ UNCHANGED vars
  <2>1. UNCHANGED <<invocation, transcript, stage, bindings, request>>
    BY <1>7 DEF AdvanceWorld, Answered, vars, processVars, evaluatorVars, Evaluator!AdvanceWorld, Evaluator!Return
  <2>2. ASSUME NEW n \in Nat, phase[n] # "idle", n \in Calls
        PROVE  phase'[n] # "idle"
    BY <1>7, <2>2 DEF AdvanceWorld, Answered, vars, evaluatorVars, Evaluator!AdvanceWorld, Evaluator!Return, TalkInv, IInv, EvaluatorTypes
  <2>3. stage = "evaluating" => Len(transcript) \in Calls
    BY DEF TalkInv, IInv, Course
  <2>4. ReplCourse'
    BY <2>1, <2>2, <2>3 DEF TalkInv, ReplCourse, Idle
  <2> QED BY <1>1, <1>2, <2>1, <2>4, TalkWaits
<1> QED BY <1>3, <1>4, <1>5, <1>6, <1>7 DEF Next, Process

\* Whatever a user types, and however evaluations come out, every answer of the
\* REPL is right for the variables its transcript shows.
THEOREM ReplIsItsTranscript == Spec => []TranscriptReplays
<1>1. Init => AnswersAllowed /\ ReplCourse /\ TranscriptReplays
  BY DEF Init, Evaluator!Init, AnswersAllowed, ReplCourse, TranscriptReplays
<1>2. IInv /\ AnswersAllowed /\ ReplCourse /\ TranscriptReplays => TalkInv
  BY DEF TalkInv
<1>3. TalkInv /\ [Next]_vars => TalkInv'
  BY TalkKeeps
<1>4. TalkInv => TranscriptReplays
  BY DEF TalkInv
<1> QED BY <1>1, <1>2, <1>3, <1>4, InvariantAlways, PTL DEF Spec
=============================================================================
