------------------------------- MODULE Session -------------------------------
(***************************************************************************)
(* One process asking the evaluator for one expression after another       *)
(* (core/evaluator.rs, eval_regular_mode, over core/cache.rs), for any     *)
(* expressions and whatever canonicalizer, router and domains make of      *)
(* them.  The evaluator caches the result of the canonical AST under the   *)
(* canonical string, so the string must say all there is to know about     *)
(* the result; what reads the clock or the rate table must not be cached.  *)
(***************************************************************************)
EXTENDS Naturals, FiniteSets

CONSTANTS
    AllQuestions,  \* what is asked: see QuestionAssumption
    NoQuestion,    \* asked before anything is
    Failure,     \* the result of an evaluation that fails
    MaxWorld,    \* bound: changes of the clock and the rate table
    MaxAsks,     \* bound: expressions asked for in one session
    MaxHeld      \* results the cache holds before it evicts one

\* A question is an expression with what becomes of it: its canonical string,
\* whether canonicalizing fails, its domain ("none" if none takes it), whether
\* it bypasses the cache, and its value in each world.  A session that asks a
\* question marked `once` asks no other: a bound.
Questions == {q \in AllQuestions : ~q.once}
Askable   == AllQuestions \cup {NoQuestion}
Keys      == {q.key : q \in AllQuestions}
DomainsOf == {q.domain : q \in AllQuestions} \cup {"none"}
Results   == {q.value[w] : q \in AllQuestions, w \in 0 .. MaxWorld} \ {Failure}

ASSUME SessionAssumption == {MaxWorld, MaxAsks, MaxHeld} \subseteq Nat /\ MaxHeld > 0
ASSUME QuestionAssumption ==
    /\ NoQuestion \notin AllQuestions
    /\ \A q \in AllQuestions : {q.fails, q.bypasses, q.once} \subseteq BOOLEAN

VARIABLES
    world,       \* what now() and fx() read
    held,        \* L1: canonical string -> result
    asks,        \* how many expressions were asked for
    asked,       \* the last of them
    at,          \* the world it was evaluated in
    answer       \* what evaluate returned for it: result, domain, cache_hit
vars == <<world, held, asks, asked, at, answer>>

Answer(r, d, hit) == [result |-> r, domain |-> d, hit |-> hit]
NoKeys == [k \in {} |-> Failure]

Init ==
    /\ world = 0 /\ held = NoKeys /\ asks = 0
    /\ asked = NoQuestion /\ at = 0
    /\ answer = Answer(Failure, "none", FALSE)

Answering(q, r, d, hit) ==
    /\ asks' = asks + 1 /\ asked' = q /\ at' = world
    /\ answer' = Answer(r, d, hit)
    /\ UNCHANGED world

Fresh(q) == q.value[world]
Cacheable(q) == ~q.fails /\ ~q.bypasses /\ q.domain # "none"

\* canonicalize or route refuses the expression; the latter even when the key
\* is held, as the router is asked again after a hit
Refuse(q) ==
    /\ q.fails \/ q.domain = "none"
    /\ Answering(q, Failure, "none", FALSE)
    /\ UNCHANGED held

\* is_nondeterministic: neither read nor written
AskAround(q) ==
    /\ ~q.fails /\ q.domain # "none" /\ q.bypasses
    /\ Answering(q, Fresh(q), q.domain, FALSE)
    /\ UNCHANGED held

AskHit(q) ==
    /\ Cacheable(q) /\ q.key \in DOMAIN held
    /\ Answering(q, held[q.key], q.domain, TRUE)
    /\ UNCHANGED held

\* Mutant: errors are held too.
AskMissHoldsErrors(q) ==
    /\ Cacheable(q) /\ q.key \notin DOMAIN held
    /\ Answering(q, Fresh(q), q.domain, FALSE)
    /\ held' = [k \in {q.key} |-> Fresh(q)]
\* A result is held, and when the cache is full others give way to it; an
\* error is not.
AskMiss(q) ==
    /\ Cacheable(q) /\ q.key \notin DOMAIN held
    /\ Answering(q, Fresh(q), q.domain, FALSE)
    /\ IF Fresh(q) = Failure THEN UNCHANGED held
       ELSE \E kept \in SUBSET DOMAIN held :
               /\ Cardinality(kept) < MaxHeld
               /\ Cardinality(DOMAIN held) < MaxHeld => kept = DOMAIN held
               /\ held' = [k \in kept \cup {q.key} |-> IF k \in kept THEN held[k] ELSE Fresh(q)]

\* the clock moves on, the rate table is replaced
AdvanceWorld ==
    /\ world < MaxWorld
    /\ world' = world + 1
    /\ UNCHANGED <<held, asks, asked, at, answer>>

Ends == asks = MaxAsks \/ (asks > 0 /\ asked.once)
Next ==
    \/ ~Ends /\ \E q \in IF asks = 0 /\ world = 0 THEN AllQuestions ELSE Questions :
                    Refuse(q) \/ AskAround(q) \/ AskHit(q) \/ AskMiss(q)
    \/ AdvanceWorld
Spec == Init /\ [][Next]_vars
-----------------------------------------------------------------------------
\* Types of all variables; at most MaxHeld results are held and none of them
\* is an error.
TypeOK ==
    /\ world \in 0 .. MaxWorld /\ at \in 0 .. world
    /\ asks \in 0 .. MaxAsks /\ asked \in Askable
    /\ held \in [DOMAIN held -> Results] /\ Cardinality(DOMAIN held) <= MaxHeld
    /\ DOMAIN held \subseteq Keys
    /\ answer \in [result : Results \cup {Failure}, domain : DomainsOf, hit : BOOLEAN]

\* The answer is what the expression evaluates to in the world it was asked
\* in, whatever was asked before: a result cached for another expression of
\* the same canonical string, or in an older world, never shows.
FreshAnswer ==
    asks > 0 => answer.result = IF asked.fails \/ asked.domain = "none" THEN Failure ELSE asked.value[at]

\* What FreshAnswer rests on: questions that share a key have the same value,
\* and have it in every world.
KeysTellResults(qs) ==
    \A q, r \in qs :
        Cacheable(q) /\ Cacheable(r) /\ q.key = r.key =>
            \A v, w \in 0 .. MaxWorld : q.value[v] = r.value[w]
=============================================================================
