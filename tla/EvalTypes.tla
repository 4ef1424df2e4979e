------------------------------ MODULE EvalTypes ------------------------------
(***************************************************************************)
(* Vocabulary shared by the evaluation promise and the evaluation          *)
(* pipeline: requests, canonical forms, outcomes and the cache key.        *)
(*                                                                         *)
(* An expression is an element of Exprs; what the parser, the             *)
(* canonicalizer, the router and the domains make of it is given by the    *)
(* constants below.  Canonicalizer, Router and DomainValues model those    *)
(* parts, EvalSession puts them together; here only what the pipeline can  *)
(* tell apart is kept.                                                     *)
(***************************************************************************)
EXTENDS Naturals

CONSTANTS
    Calls,        \* invocations of evaluate by CLI, REPL, batch workers and server tasks
    Exprs,        \* source expressions
    Forms,        \* canonical strings
    Vars,         \* variable environments (EvalContext.vars)
    Timeouts,     \* EvalContext.timeout values; 0 is rejected
    Values,       \* evaluation results
    Requests,     \* the requests callers make
    MaxWorld,     \* bound on changes of the wall clock / rate table
    Parsable,     \* expressions parse accepts
    Foldable,     \* expressions canonicalize accepts (constant folding succeeds)
    Routable,     \* expressions some registered domain supports
    Detected,     \* expressions router.is_nondeterministic recognises
    Oversize,     \* values whose estimated size exceeds MAX_CACHEABLE_BYTES
    FormOf,       \* canonical string of an expression
    Meaning       \* what domain.evaluate returns: expr, mode, vars, world

Worlds == 0 .. MaxWorld

Ok(v)  == [tag |-> "ok", val |-> v]
Err(e) == [tag |-> "err", val |-> e]

ErrorKinds == {"timeout", "precision", "parse", "canonicalize", "route", "domain", "unavailable"}
Outcomes   == [tag : {"ok"}, val : Values] \cup [tag : {"err"}, val : ErrorKinds]

TimedOut == Err("timeout")

\* precision = None / Some(p) with p <= MAX_PRECISION / Some(p) above it
PrecisionArgs == {"none", "within", "above"}
Modes         == {"regular", "precision"}

AllRequests == [expr : Exprs, vars : Vars, timeout : Timeouts, precision : PrecisionArgs]
SomeRequest == CHOOSE r \in Requests : TRUE

Mode(r) == IF r.precision = "none" THEN "regular" ELSE "precision"

\* build_cache_key: the "precision:" prefix, the canonical string, the hash of
\* the variables and the timeout.  The precision itself is not part of the key.
Keys   == Modes \X Forms \X Vars \X Timeouts
\* Mutant: nor are the variables.
KeyWithoutVars(r) == <<Mode(r), FormOf[r.expr], CHOOSE v \in Vars : TRUE, r.timeout>>
Key(r) == <<Mode(r), FormOf[r.expr], r.vars, r.timeout>>

\* What evaluating request r yields while the world is w.
Value(r, w) == Meaning[r.expr][Mode(r)][r.vars][w]

\* router.is_nondeterministic guards the regular mode only.
Bypasses(r) == Mode(r) = "regular" /\ r.expr \in Detected

\* A request that gets as far as the dispatch, and one that a domain evaluates.
Accepted(r) ==
    /\ r.timeout # 0
    /\ r.precision # "above"
    /\ r.expr \in Parsable \cap Foldable
Evaluable(r) == Accepted(r) /\ (Mode(r) = "regular" => r.expr \in Routable)

\* Outcomes that are right for r when the world ranged over ws while it ran.
Rejections(r) ==
    (IF r.precision = "above" THEN {Err("precision")} ELSE {})
    \cup (IF r.expr \notin Parsable THEN {Err("parse")} ELSE {})
    \cup (IF r.expr \notin Foldable THEN {Err("canonicalize")} ELSE {})
    \cup (IF Mode(r) = "regular" /\ r.expr \notin Routable THEN {Err("route")} ELSE {})

Allowed(r, ws) ==
    {TimedOut} \cup Rejections(r)
    \cup (IF Evaluable(r) THEN {Value(r, w) : w \in ws} ELSE {})

ASSUME ConstantsAssumption ==
    /\ MaxWorld \in Nat
    /\ Requests \subseteq AllRequests /\ Requests # {}
    /\ Timeouts \subseteq Nat
    /\ Oversize \subseteq Values
    /\ FormOf \in [Exprs -> Forms]
    /\ Meaning \in [Exprs -> [Modes -> [Vars -> [Worlds -> Outcomes]]]]

\* What the cache relies on: whatever may be cached does not read the world.
\* The precision domain supports no clock or rate function, and the router
\* recognises every expression of the other domains that reads one.
ASSUME CacheableIsWorldFree ==
    \A r \in Requests, u, w \in Worlds :
        Evaluable(r) /\ ~Bypasses(r) => Value(r, u) = Value(r, w)

\* What the cache key promises: requests that share it mean the same.
\* (EvalSession checks it of the code's keys, and finds where it fails.)
FormsAreSound ==
    \A q, r \in Requests, w \in Worlds :
        Key(q) = Key(r) /\ Accepted(q) /\ Accepted(r) =>
            /\ Evaluable(q) <=> Evaluable(r)
            /\ Evaluable(q) => Value(q, w) = Value(r, w)
=============================================================================
