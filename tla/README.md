# CalNexus in TLA+

TLA+ models of the calculation engine CalNexus: what its parts do, which
properties TLC checks of them on small instances, and which ones TLAPS proves for
all instances. Paths are relative to the repository; line numbers are those of the
commit the models were translated from. `PROJECT.json` maps every definition to
the lines it models, lists the hazards of the code line by line with the
properties that watch them, and gives for every property a mutation of the model
that it detects.

## 1. The system

An expression enters through the library API, the command line, the REPL, batch
mode or the server (HTTP, MCP) and takes the same path:

    evaluate_with_router (core/evaluator.rs)
      validate_inputs -> parse -> canonicalize -> is_nondeterministic?
         yes:            route -> domain.evaluate -> check_elapsed
         no:  cache.get_or_compute(key, || route -> domain.evaluate -> check_elapsed)

### Inventory

| component | source | state | operations | interacts with |
|---|---|---|---|---|
| Evaluation pipeline | core/evaluator.rs, core/cache.rs | L1 cache, one closure in flight per key, per call: deadline, `computed` flag | evaluate (regular and precision mode), get_or_compute, eviction | called by every front end; calls parser, canonicalizer, router |
| Parser | core/parser.rs | thread-local depth | parse, in passes with placeholders | mathexpr |
| Canonicalizer | core/canonicalizer.rs | none (thread-local depth) | fold, order, drop double negation, serialize | its string is the cache key, its AST is what is evaluated |
| Router | core/domain.rs, domains/factory.rs | list of domains by priority | register, route, is_nondeterministic | asks every domain's supports() |
| Domains | domains/*.rs over math/*.rs | none, except fx (rate provider) | supports, evaluate | called by the router's choice |
| Rate provider | domains/fx_provider.rs | L1 table, cache file, circuit breaker, chain of sources | rates() | fx domain, fx tools of the server, library API; other processes through the file |
| Server | server/*.rs | rate-limit windows, readiness, blocking tasks, phase | evaluate with a 30 s timeout, fx tools, drain | pipeline, rate provider |
| Command line, batch, REPL | cli.rs, main.rs, batch.rs, repl.rs | settings, variables, history | run one mode and exit; validate, evaluate in parallel, report in order; :let, evaluate | pipeline |
| Library API | api/*.rs | none; a rate provider per fx call | checks, forwarding | math, pipeline, rate provider |
| Output | output/*.rs | none | text, LaTeX, JSON, steps, canonical form | front ends |
| Catalogue, messages, wasm | function_catalog.rs, i18n.rs, wasm.rs | none | tables, texts, forwarding | front ends |

What is hard, and what has to be right:

- **Pipeline**: threads share the cache and the single-flight table; a leader's
  outcome reaches callers with other deadlines; time passes between any two
  steps; the rates and the clock change while calls run. One closure per key, no
  stranded follower, no error or oversized value in the cache, every answer right
  for its own request.
- **Canonicalizer, router, domains**: the canonical string stands for the
  expression in the cache and the canonical AST stands for it in the evaluation,
  so neither may forget or change anything, and what reads the outside world
  must not be cached.
- **Rate provider**: memory, file, network and breaker fail independently; the
  file is shared with other processes and survives crashes. No rates older than
  promised, rates once had are kept, an outage does not cost a timeout per call,
  nobody waits for ever, and the file is never torn.
- **Server**: timeouts over work that cannot be cancelled, a limiter with turning
  windows, a shutdown while requests are under way. A client gets the answer to
  its own request, once; a request that was read is not cut off by the drain.
- **Batch and REPL**: results of parallel workers in the order of the lines,
  variables as they were when a line was typed, exit codes.
- **Parser and output**: texts put aside as placeholders come back in their own
  places; what is shown means what was calculated.
- **Function libraries**: results at the edges of integer widths, calendars and
  domains of definition; the same function reached in several ways.

## 2. Modules

Concurrent components, each a state machine:

| module | models | state and actions |
|---|---|---|
| `EvalTypes` | requests, keys, outcomes | constants stand for what parser, canonicalizer, router and domains make of an expression |
| `EvalPromise` | what evaluate promises, without a cache | a call is made and is answered with an outcome that is right for it |
| `EvalPipeline` | core/evaluator.rs, core/cache.rs, any number of threads | `pc` per call is the stage of `evaluate_with_router`; `flight[k]` is the running closure of oxcache, `cache[k]` its entry, `computed` the `AtomicBool`, `late` the deadline; one action per stage, plus eviction, passing time and a changing world |
| `FxRates` | CachedRateProvider, ChainRateProvider, the breaker | one `pc` per provider (its single flight), `file` shared; one action per step of the closure, plus restart and clock |
| `FilePromise` | what write_cache_file promises | the file changes in one step to a whole snapshot, or not at all |
| `SnapshotFile` | write_cache_file and read_cache_file by system call | names, inodes, open files; create, write, rename, each failing or killed |
| `Server` | server/*.rs | `stage` and `status` of a request, `task` is its place in the blocking pool, `window` the limiter's; actions for the head and the body of a request, the handler's steps, timers, tasks, clients that leave, readiness, shutdown, drain and the drop of the runtime |
| `FrontEnds` | cli.rs, main.rs, batch.rs, repl.rs | `stage` of the process, `bindings` of the REPL, `entries` and `output` of a batch, `transcript`, `exit`; one action per step of a mode. Evaluation is `EvalPromise`, instantiated |
| `Session` | one process asking for one expression after another | `held` is the cache, `asked` and `answer` the last call; what canonicalizer, router and domains make of an expression comes as a constant |

What those parts make of an expression, as operators:

| module | models |
|---|---|
| `Ast` | AstNode: records of one shape |
| `Canonicalizer` | core/canonicalizer.rs: `Transform` is transform_inner, `Serialize` is serialize |
| `Router` | core/domain.rs, domains/factory.rs and every supports(): `Route`, `IsNondeterministic` |
| `DomainValues` | the expression evaluators of eight domains: `Evaluate(d, e, w)` is domain.evaluate in world `w` |
| `EvalSession` | `Session` with those four put in |

The function libraries, the domains over them, the parser and the output, as
operators; `Library` asks them one question per behaviour:

| module | models |
|---|---|
| `RustNumbers` | integers and their conversions, exact rationals, Euclid, powers, sieve, congruences, combinations |
| `NumberTheory` | math/number_theory.rs, math/combinatorics.rs and their domains |
| `Amounts` | math/unit.rs, unit_table.rs, fx.rs, fx_scenario.rs, server/fx_tools.rs |
| `Conversions` | the unit and fx domains, spelling hints |
| `Calendar`, `TimeDomain` | math/time.rs and civil_from_days; the time domain |
| `Floats` | f64 with infinities and NaN, math/scientific.rs, math/solvers.rs |
| `ScalarDomains` | the arithmetic, precision, scientific and complex domains |
| `LinearAlgebra`, `Decompositions` | math/linalg.rs, math/numerical.rs, vector and matrix domains |
| `Statistics`, `Distributions` | math/statistics.rs and the statistics domain |
| `Polynomials`, `Symbolic` | the polynomial and symbolic domains |
| `Parser` | core/parser.rs over sequences of atoms |
| `Output` | output/*.rs: what a result shows, LaTeX, steps |
| `Library` | one question to one of them, and its answer |

`*_proofs` hold the theorems (section 4); `MCEval`, `MCFx`, `MCSnapshotFile`,
`MCSession`, `MCServer`, `MCFrontEnds` and `MCLibrary` the instances for TLC.

Composition. `EvalPipeline` is shown to implement `EvalPromise`, and `FrontEnds`
calls the evaluator through `EvalPromise` only, so what is shown of the front ends
holds over the pipeline. `EvalPipeline` takes expressions as opaque and assumes of
them what `EvalSession` checks: that what may be cached does not read the world
(`CacheableIsWorldFree`) and, for `HonestAnswer` only, that requests with one key mean
the same (`FormsAreSound`), which the code keeps but for the look-alikes of section 6. `FxRates` replaces the file in one step, which is what
`FilePromise` says and `SnapshotFile` implements. `Server` models the life of a
request around an evaluation or a tool; what they compute is `EvalPipeline` and
`Amounts`.

## 3. Runs

All on small instances.

| run | instance | shows |
|---|---|---|
| `MCEvalPaths` | 2 calls, every kind of request, clock moves once | `TypeOK`; `CacheProvenance`: only admissible, world-free values of a request with that key are cached; `HonestAnswer`: an answer is one its own request allows; `EveryCallReturns` (liveness); `ImplementsPromise` (refinement of `EvalPromise`) |
| `MCEvalCrowd` | 3 calls over few keys, one of which means two things, an oversized value, an error | `SingleFlight`, `NoRedundantWork`, `NoLostFollower`; `MissIsOwnWork`: cache_hit = false tells the truth even when a key is ambiguous |
| `MCFxShared` | two processes, one long-lived, one one-shot and content with stale rates; two sources | `TypeOK`, `NoSilentlyStale`, `StaysAvailable`, `OutageIsPaced`, `EveryAskAnswered` (liveness) |
| `MCSnapshotFile` | two processes, one provider each | `FileTypeOK`, `AtomicReplace`, `ImplementsFilePromise` (refinement of `FilePromise`) |
| `MCSession` | expressions of eight domains with fx() and now() in every place, asked three times in a row with two cached results; as first question, every arithmetic tree of up to two operators over three numbers and two variables | `TypeOK`, `FreshAnswer`: no answer from another expression or another time; `CanonicalSound`: canonicalizing keeps domain and value and is idempotent; `KeyTellsMeaning`: questions that share a key mean the same, and the key of an arithmetic one could be evaluated in its place. `LookAlikes` are asked too: pairs that share a key and mean different things (a BigNumber and the power it is the value of, strings that close the bracket around them, calls named like literals). The property says that this is all that keys do not show |
| `MCServer` | three requests of two clients, one blocking thread, HTTP and MCP | `TypeOK`; `LimitPerWindow` and `RefusedOnlyOverLimit`: what the limiter is worth, and whom it refuses; `OwnAnswer`; `NobodyCutOff` while draining; `EveryRequestAnswered`, `ServerStops` (liveness) |
| `MCFrontEnds` | command lines of every mode, batches of up to four lines on two workers, REPL sessions of three lines | `TypeOK`, `ExitTells`, `OutputNamesLines`, `TranscriptReplays`, `EveryRunEnds` (liveness) |
| `MCLibrary` | some 70,000 questions | the seven laws below |

The properties of `MCLibrary` are action properties of the step that answers.
Each compares an answer with a definition that is not the program's, with a law,
or with another way to the same answer:

- `IntegersRight`: gcds divide and are divided, remainders are those asked for,
  logarithms are logarithms, and the least unless the powers of the base repeat
  within the square root of p, counts count; domain and API agree. Literals are never
  rounded silently; results of calls that fit an i64 are read back from an f64, and
  the law says of which number a function inside another gets to be the function.
- `MoneyRight`: conversions are undone by the way back and by any detour,
  temperatures meet at freezing and boiling, the bill of fx_budget keeps its
  bounds, the price of fx_pricing earns its margin at the worst rate allowed.
- `CalendarRight`: date_add and date_diff undo each other across short months and
  clock changes; wall clocks are those of the zone.
- `LinearRight`: products, inverses, factors, solutions, eigenvectors, regressions
  and tests are what their names say; a test does not depend on the scale's origin.
  Of f_inv with a d1 above 2 nothing is said when its iteration does not converge.
- `AlgebraRight`: roots multiply out, derivatives are slopes, integrals are undone,
  series are those of the functions; what is printed reads back, a power of a
  negative number as minus the power. A limit is the value of the series, or that of
  the leading terms where both sides of a quotient vanish. A quotient with a pole or
  another variable is answered as well (section 6); the law only says with what.
- `TextRight`: a tree written down in any style is the tree that is read; every number
  shown in text, LaTeX or JSON reads back, but for null in JSON's arrays and on the
  command line, which only says that there is none; the LaTeX of a tree has its numbers and
  names in order, and reads as the tree exactly where that needs no parentheses; the
  steps lead to the value.
- `NumbersRight`: domains that can evaluate one tree agree; special functions keep
  their functional equations across the branches of the code; a root lies where
  the sign changes.

Runs that refute something the repository says of itself:

| run | what is said | what the code does |
|---|---|---|
| `MCFxExpiry` (`SnapshotsExpire`) | a snapshot is valid for `CALNEXUS_FX_TTL_HOURS` (README.md:215) | L1 has no lifetime: a long-lived process serves its first table for ever; the TTL is only asked of the file |
| `MCSnapshotTorn` (`AtomicReplace`) | no concurrent read sees a torn write (fx_provider.rs:640) | two providers of one process share the temporary name; one renames what the other has truncated |
| `MCSessionProduct` (`FreshAnswer`) | the canonical form prevents wrong deduplication (tests/integration.rs:876) | A*B and B*A of matrices share a key; the second is answered with the first's result |
| `MCSessionWrapped` (`WrappedRatesEvaluate`) | mod and abs are not misrouted and fx evaluates them around a rate (fx.rs:17) | with the unit feature they go to the unit domain, which knows no fx |

### Bounds

- The only bounds on a history are constants: `MaxWorld` (changes of clock and
  rates), `MaxTime` (the clock of `FxRates` and of `Server`), `MaxAsks` and
  `MaxHeld` (a session), `Calls`, `Requests` and `Workers`. `Once` marks questions
  that are asked alone.
- Two or three calls are enough for the pipeline: every property relates at most
  a leader, a follower and one more caller of a key.
- In the runs of `FxRates`, Ttl < Cooldown < MaxTime, so that a snapshot expires
  during an outage, and the breaker opens, lets a probe through and opens again.
  `failures` keeps the last Threshold + 1 failed rounds, which is what
  `OutageIsPaced` looks at.
- In `MCServer` a request can outlive its timer, its client and the drain: all
  timeouts are 1, the window and `MaxTime` 2. A client can be admitted at 0, refused
  at 1 and admitted again at 2, so a limiter that lets one more through, or forgets
  a window, is seen; bursts of several on both sides of an edge are the theorem's.
- `Oversize` are the tables that L1 does not take (256 KiB). In the runs of `FxRates`
  those of the second source are from 1 on, and those of the first at 2, so a
  provider answers with tables it keeps and with some it does not.
- `Broken` are the strings with a bracket and quotation marks inside, spelled as
  the tokens a key shows of them.
- Widths and limits of the code are constants with small values: `MaxExact` (2^53),
  `Wide` (i64), `MaxSieve`, `MaxCount`, `MaxTable`, `MaxPowExponent`, `MaxPowBits`,
  `MAX_FACTORIAL_INPUT` 9, `MAX_BESSEL_ORDER` 4, `MAX_MATRIX_DIM` 3, `MaxDegree`,
  `MaxPrecision`, `MAX_EXPR_LEN`, `MAX_AST_DEPTH`, `MaxInstant`, `MaxSpan`. The
  questions include values on both sides of each.
- Numerical constants are coarse so that loops end by each of their exits:
  `MaxFloat` 2000, `Grid` 16 and `Fine` 4 (f64 rounds to multiples of 1/Grid in
  the solvers, of 1/Fine in the inverse distributions), `RootTol`, `InverseTol`
  1/4, `SlopeStep` 1/8, `IntegralTol` 1/16, `Tiny` 1/64, `NearOne` 7/8, `Least`
  1/1000, `RootSteps` and `InverseSteps` 12, `IntegralDepth` 4, `AiryTerms` 2.
- `EvalSession` stops after `MaxAsks` questions (a user stops asking), every call
  of `MCEval` is made once, a server and a process of `FrontEnds` end: those runs
  do not check for deadlock. That nothing hangs is `EveryCallReturns`,
  `EveryRequestAnswered`, `ServerStops` and `EveryRunEnds`. The runs of `FxRates`,
  `SnapshotFile` and `Library` check for deadlock.

### Fairness

- `EvalPipeline`: weak fairness of every step of a call that has been made. A call
  runs on a thread of its own and no step waits for anything but the closure of
  its key, whose leader is such a call. Nothing forces a call to be made, an
  entry to be evicted, or time to pass.
- `FxRates`: weak fairness of the steps of a running closure; every request to a
  source ends after HTTP_TIMEOUT. Which way it ends is free.
- `SnapshotFile`: weak fairness of a writer's system calls; writers need not start.
- `Server`: weak fairness of the clock, of timers and handlers, of the pool taking
  a task when a thread is free, and of the steps of shutdown once it began. A task
  need not end, a client need not ask or send its body, and nobody has to stop the
  server.
- `FrontEnds`: weak fairness of the process and of its evaluations; the user need
  not type.
- `Session` and `Library` have none: their properties are all safety.

## 4. Proofs

Every theorem holds for all values of the constants that satisfy the named
assumptions, which TLC evaluates in the runs. An invariant that is not inductive is
strengthened; the strengthenings are named here because they say why the code is
right.

**Pipeline** (`EvalPipeline_proofs`; `ConstantsAssumption`, `NullsAssumption`,
`CacheableIsWorldFree`), for any calls, expressions, keys, values and timeouts:

- `TypeCorrect`; `TypeInv` adds to the types which stages hold an outcome.
- `SingleFlightCorrect`, `NoRedundantWorkCorrect`, `NoLostFollowerCorrect`. None is
  inductive alone. `Coordinated` says that `flight` and `pc` agree in both
  directions (the flight of a key names the call inside its closure; a waiting
  call's key has a flight), that a key in flight is not cached, and that only
  requests that use the cache are on the cache's path.
- `CacheProvenanceCorrect`, `MissIsOwnWorkCorrect`, `HonestAnswerCorrect`. `Holds`
  says where the outcome a call holds comes from: its own evaluation in a world
  since it was made, or, without the flag, that of a request with its key.
  `HonestAnswer` needs in addition that keys are sound (`FormsAreSound`);
  `MissIsOwnWork` does not.
- `RefinesPromise`: initial states and steps map to those of `EvalPromise`.

**Rates** (`FxRates_proofs`; `RatesAssumption`), for any providers, processes,
sources, TTL, threshold and cooldown:

- `TypeCorrect`. Ages are differences with the clock, so the types need
  `NoneFromFuture` and `SavesWhatItGot`.
- `NoSilentlyStaleCorrect`. `StampedTruly`: the stamp in the file is the time its
  table was fetched, so an unexpired stamp bounds the age of the table.
- `StaysAvailableCorrect`, an action property. `HasRates`: after an answer with a
  table that fits into L1 there is one in memory, and memory is only emptied by the
  end of the process. After a larger one there need not be: the next ask of an
  outage may fail although rates were had.
- `OutageIsPacedCorrect`. `Counted` makes the breaker agree with the history: a
  closed one has counted every failed round, an open one was opened by the last of
  them, and a round running under it was admitted after the cooldown.

**Snapshot file** (`SnapshotFile_proofs`; `FileAssumption`), for any writers,
processes, inodes and snapshots: `FileTypeCorrect`; `AtomicReplaceCorrect` and
`RefinesFilePromise`, both from `TempNamesDistinct`: one provider per process.
`NamesApart` (no two names lead to one inode) and `OwnsTemp` (the temporary name of
a writer at work leads to its own file, complete once it is closed) are inductive
under it. Without it the theorem is false, which is what `MCSnapshotTorn` shows.

**Server** (`Server_proofs`; `ServerAssumption`, `AsksAssumption`), for any
requests, clients, threads, limits and timeouts:

- `ServerTypeCorrect`.
- `LimiterIsWorthIt`: fewer than 2 * Limit within the length of a window, since a
  window begins with the first request it counts; and `RefusedRightly`. `Limiter` relates the counter of a
  client to the history of its admissions: they lie in windows that are a Window
  apart, the counter counts the last of them, and Limit admissions lead into the
  next window.
- `AnswersAreOwn`: a late task changes nothing of an answer that was given.
- `DrainingIsPolite`. `InTime`: nobody waits beyond a deadline. The timer begins when
  the body has been read, and DrainTimeout is not shorter than RequestTimeout, so
  who was read before shutdown is answered or out of time when the drain ends. A
  request whose body comes later is cut off with a timer that still runs, or without
  one: the code waits for bodies without a limit of its own (http.rs:142).
  `Unhandled`: before its handler begins a request has no task.

**Front ends** (`FrontEnds_proofs`; `FrontEndsAssumption`, `InputAssumption`), for
any command lines, inputs and expressions:

- `UsesPromise`: every step of a process is a step of `EvalPromise` or none of its
  business, so the front ends may be put over whatever implements it.
- `FrontEndsTypeCorrect`, `ExitCodesTell`. `Course`: where a process is tells what
  it has asked for.
- `BatchNamesItsLines`. `AnswersAllowed` (an answer stays allowed as time goes on)
  and `BatchCourse` (an entry is asked for with the variables of the command line).
- `ReplIsItsTranscript`. `ReplCourse`: the variables in memory are those that can
  be told from the transcript.

**Session** (`Session_proofs`; `SessionAssumption`, `QuestionAssumption`), for any
expressions, size of the cache and eviction: `SessionTypeCorrect`; `FreshAnswers`,
under `KeysTellResults(Questions)`: questions that share a key have one value, the
same in every world. `HeldIsTrue` says that whatever is held is the result of some
question of its key. The hypothesis is what `KeyTellsMeaning` checks of the code's
canonicalizer, router and domains in `MCSession`, for the expressions asked there in
one session; for those of `MCSessionProduct`, and for the look-alikes, it is false, and
in `MCSessionProduct` so is `FreshAnswer`.

**Algorithms** (`Arithmetic_proofs`; `NumbersAssumption`), for every integer or
rational. The recursive functions each call themselves once on something smaller,
so one lemma (`Recursion`) shows that they have values and one (`ByMeasure`) allows
induction on a measure; both rest on every set of naturals having a least element,
the one instance of induction the provers accept here.

- Division: `RemaindersTruncate`, `NormalIsModulo`. Euclid: `EuclidIsRight` (Bezout),
  `GcdsAgree`, `GcdIsGreatest`, `LcmIsLeast`. Modular arithmetic: `InversesAreRight`,
  `PowersAreRight`, `SieveIsRight`, and `CrtIsRight` for positive moduli (with a
  single negative modulus the code returns a negative number).
- Rationals: `LowestTerms`, `OneForm`, `ProductsAreExact`, `SumsAreExact`; f64:
  `RoundingIsNearest`, `ReadingKeepsOrder`, `RoundsToNearest`.
- Counting: `CombinationsAreExact` (comb divides after every factor, and Pascal's
  triangle says that no division leaves a remainder), `ShortcutsOfComb`,
  `PermutationsCombine`; sequences of outcomes: `FirstFailure`.

**Dates and amounts** (`Measures_proofs`; `ClockAssumption` in addition):

- `LeapYears`, `CivilDates`, `DatesRoundTrip`: the calendar and civil_from_days are
  inverse to each other on all integers. `MonthsAreAdded`, `InstantsSurvive`,
  `WallClocks`, `DifferencesUndoSums` (in a zone whose clock changes twice for the
  units below a day, without a change for days and weeks).
- `FieldLaws`, `OrderLaws`: the rationals, reduced crosswise as the code does, are
  an ordered field. A rational is shown to be the reduced pair of any fraction it
  equals, and the laws are shown of fractions.
- `UnitsAgree`: `UnitRight`, the law of units in `MoneyRight`, for every amount and
  any two names.
- `BudgetsHold`: `BudgetRight`, the law of fx_budget in `MoneyRight`, for every
  request and every table of positive rates. A conversion is one multiplication by
  a rate (`ConvertIs`), so the bill is the fees times one rate and its bounds are
  those of 1 + by. That rates are positive is a hypothesis: the code accepts what
  a provider sends.
- `CurrenciesAgree`: `CurrencyRight` and `RateRight`, the laws of fx and
  fx_rate, for every amount, table and two codes. Rates are quotients of those of the
  base, so those on the way multiply to the rate (`RatesCompose`).
- `PricesHold`: `PricingRight`, the law of fx_pricing, for every request and table.
  Before rounding the price keeps the goal exactly and what it keeps grows with it
  (`PriceIs`); rounding to cents moves a number by half a cent at most
  (`WithinACent`) and keeps an order (`RoundingKeepsOrder`), which gives the margin on
  the answer; and what numbers are apart adds up and scales (`NearAdds`,
  `NearScales`), which gives the tolerance of its sums.

Model-checked only, because the provers cannot do it:

- Liveness: `EveryCallReturns`, `EveryAskAnswered`, `EveryRequestAnswered`,
  `ServerStops`, `EveryRunEnds`, and the fairness of the two promises.
- `CanonicalSound`, `KeyTellsMeaning` and the seven laws of `MCLibrary` as wholes:
  trees and lists of any depth need RECURSIVE operators, and induction over them.
  Of the laws, the parts about integers, rationals, dates, units, currencies, budgets
  and prices are proved as above.

## 5. Abstractions

- **Numbers.** An f64 is an exact rational. Kept are the rounding of a BigNumber
  into f64, overflow beyond `MaxFloat`, infinities and NaN (in `Floats` and what
  rests on it), rounding to a grid inside solvers and inverse distributions, and
  rounding to decimals. Float noise of single operations is not: addition is
  associative, steps show numbers of one decimal.
- **Transcendental functions** have rational stand-ins with the same functional
  equations (sin is a wave of straight lines, exp(x) is (4 + x)/(4 - x)); what is
  translated is what the code makes of them. In `Distributions` logarithms appear
  as products and densities as squares; p values are left out.
- **Roots** are kept as signed squares, angles as cosines, eigenvectors as
  directions, Q, R and singular values as signed squares; tolerances are tests
  for zero. Eigenvalues and polynomial roots are asked for where they are
  rational; block triangular matrices are their own Schur form; U and Vt and the
  normalization of complex vectors are left out. pi is 4 and e is 5/3, in trees of
  calculus too, where the two names are constants. Boole's and Simpson's rule stand
  for the Gauss-Kronrod pair. The cap of polylog is never met.
- **Texts** are atoms: the parser sees sequences of atoms, a format is what can be
  read back from it, a unit or currency is a name. Some units stand for each
  dimension; time zones are fixed offsets and one city with summer time.
- **External**, modelled from how the code uses them: oxcache (single flight, byte
  weights: eviction may take any entry at any time), limiteron (breaker and rate
  limiter), tokio and axum, the file system, jiff, mathexpr's grammar.
- The clock of `FxRates` does not run backwards, and the stamp of a fetch is the
  moment it ended. An expression without value is NaN in the solvers, as in the
  code. A CASE is read in order, as Rust reads a match.
- `Library` is sequential: one question, one answer. A program keeps to one `part`
  of it, which only keeps the number of states down.
- Not modelled: the e-graph simplifier (off by default), the function catalogue,
  translations, wasm bindings, metrics, argument parsing, layout and wording.

## 6. Differences met while modelling

Beside the four runs above. None of these has a run of its own; those that can be
expressed are in the models as the code has them.

Evaluation and cache. `%` and abs of a BigNumber go to the unit domain and are
rounded to f64. A BigNumber and a Number of the same digits, and `list(1,2)` and
`[1,2]`, have one canonical string, and so have 4^2, folded, and the BigNumber of its
value. Strings are written without escapes (canonicalizer.rs:302), so
`convert(2, "m) (str km")` has the key of `convert(2, "m", "km")`. Two fx() or now() calls of one expression can
read different tables or instants (domains/fx.rs:252). `is_prime(10^18+9)` and
`gcd(2^63,4)` through evaluate are computed from folded f64. Variables bound to inf
or NaN pass unchecked. In the precision domain `0^(-1)` of a BigNumber panics.

Rates. A cache file that cannot be read is reported as "no local cache" though
fx_provider.rs:606 calls it damaged. The providers that `api::applied::fx` builds
per call have a breaker each, which never opens. Rates are not checked to be
positive. fx(5,"XXX","XXX") succeeds for an unknown code while fx_rate fails.
target_profit_rate is a margin, actual_profit_rate a markup (fx_scenario.rs:191,201).

Numbers. sqrt_bigint is wrong beyond 2^64, so discrete_log misses
(number_theory.rs:202); its comment says least x, the table keeps the largest j of
equal powers: discrete_log(1, 1, 7) is 2. A call inside a call hands its result on
through an f64 (domains/number_theory.rs:165,407), so gcd(lcm(a, b), c) is that of a
neighbour of lcm(a, b) once this is beyond 2^53.
crt with a single negative modulus returns a negative number. f64_to_bigint lets
2^63 through. min of a list drops a NaN silently.

Statistics. f_inv does not converge away from p = 0.5: f_inv(0.05, 4, 4) is
83333333 instead of 0.157 (math/statistics.rs:417). binom_pmf(0, n, 0) and
binom_pmf(n, n, 1) are NaN, poisson with lambda 0 gives 0 for k = 0, binom_pmf
truncates a fractional k where poisson_pmf gives 0. sigma < 0 is not checked.
chi2_test of [0] panics, and so do the API's pearson and chi2 for unequal lengths.
linear_regression of mismatched lengths is silently (0, 0, 0).

Linear algebra. pade_exp of a matrix that is not symmetric is right to second order
only (numerical.rs:490); its shift by a negative scale gives exp(-A) for norms
above 2^61. eig_general of a repeated eigenvalue returns one vector twice, and
null_vector_complex a zero vector of a regular matrix. lstsq of a zero matrix with
NaN on the right returns 0. A ragged Matrix panics or is reshaped silently
(linalg.rs:22).

Symbolic. limit applies L'Hopital's rule to any failed quotient: limit((x+1)/x, x, 0)
is 1, limit(y/(1+x), x, 0) is 0 (symbolic.rs:774 documents 0/0 and infinities
only). The integral of 1/x is ln(x). taylor(x^2, x, 3) fails.
simplify((-2)^x) prints -2^x. factor() truncates roots. poly_add drops the names
of variables, the API's poly_div by zero returns [NaN], a quartic without a root of
its resolvent has no roots. solve_equation and root() turn errors into NaN:
root(1/v, v, -1, 1) is 1.

Text. `2*3+4i` is 2*complex(3,4), `2i` takes the first letter of an identifier,
strings inside list literals become variables, `3x!` is (3x)!, `log10(x)!` and
`2e3x` fail, `[[1,2],3]` is refused, spans of errors are those of the trimmed text
(parser.rs:147). LaTeX writes trees without parentheses, so that (x+1)*2 becomes
`x + 1 \cdot 2` (latex.rs:278-289), drops the arguments it has no form for and cuts
exponents that are not digits (latex.rs:299-346). --steps does not know factorial
and mod, its lcm saturates where the domain overflows, and a BigNumber of 2^53 + 1
passes its check against lost precision. precision(2, 2/3) prints 0.67 as text and
0.66 as LaTeX. 0/0 is NaN in arithmetic and a division by zero in precision,
complex and the steps. A NaN in a matrix is null in JSON where types.rs:157 says
it is a string.

Front ends. A precision over the limit exits with 1 where API_REFERENCE:483 and
SERVER:174 say 2. --latex and --steps are exclusive in USER_GUIDE:177 only. The limit
of 4096 characters of a batch line counts bytes. precision_eval ignores its digits.
parse_date of a date and time drops time and zone, civil datetimes ignore offsets,
parse_chinese_datetime never matches.

## 7. What is left

In the order of what it would say about the system: the laws of polynomials and
matrices over sequences instead of trees, where the provers can follow; float noise
in the arithmetic domain, for which the rationals would have to be replaced; a run
of the fx tools behind `Server`, with the provider of `FxRates` between them.
