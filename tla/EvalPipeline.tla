---------------------------- MODULE EvalPipeline ----------------------------
(***************************************************************************)
(* core/evaluator.rs on top of core/cache.rs: any number of threads run    *)
(* evaluate_with_router against one CacheManager.                          *)
(*                                                                         *)
(*   submit -> parse -> canonicalize -> dispatch                           *)
(*     dispatch -> route -> eval -> check -> done            (bypass)      *)
(*     dispatch -> lookup -> resolve -> done                 (hit)         *)
(*     dispatch -> lookup -> route -> eval -> check -> publish -> resolve  *)
(*     dispatch -> lookup -> waiting -> resolve              (follower)    *)
(*                                                                         *)
(* Time is abstracted to one bit per call: whether its own elapsed time  *)
(* already exceeds its timeout (Expire may set it between any two steps).  *)
(* The clock and the rate table, which now() and fx() read, are `world`.   *)
(***************************************************************************)
EXTENDS EvalTypes

CONSTANTS NoOutcome, NoCall, NoValue

VARIABLES
    world,     \* version of the clock / rate table
    pc,        \* per call: the stage it is about to run
    req,       \* per call: its request
    late,      \* per call: start.elapsed() > ctx.timeout
    result,    \* per call: the outcome it holds
    computed,  \* per call: the AtomicBool its closure sets
    hit,       \* per call: the cache-hit element of its answer
    cache,     \* per key: the cached value or NoValue
    flight,    \* per key: the call that runs the closure or NoCall
    since      \* history, per call: the world when it was made

vars == <<world, pc, req, late, result, computed, hit, cache, flight, since>>

ASSUME NullsAssumption == NoCall \notin Calls /\ NoValue \notin Values /\ NoOutcome \notin Outcomes

Stages == {"idle", "submit", "canonicalize", "lookup", "waiting", "route", "eval",
           "check", "publish", "resolve", "done"}
Closure == {"route", "eval", "check", "publish"}

KeyOf(c)      == Key(req[c])
\* Mutant: the dispatch does not ask is_nondeterministic.
UsesCacheAlways(c) == TRUE
UsesCache(c)  == ~Bypasses(req[c])
InClosure(c)  == pc[c] \in Closure /\ UsesCache(c)

Init ==
    /\ world = 0
    /\ pc = [c \in Calls |-> "idle"]
    /\ req = [c \in Calls |-> SomeRequest]
    /\ late = [c \in Calls |-> FALSE]
    /\ result = [c \in Calls |-> NoOutcome]
    /\ computed = [c \in Calls |-> FALSE]
    /\ hit = [c \in Calls |-> FALSE]
    /\ cache = [k \in Keys |-> NoValue]
    /\ flight = [k \in Keys |-> NoCall]
    /\ since = [c \in Calls |-> 0]
-----------------------------------------------------------------------------
GoTo(c, stage) == pc' = [pc EXCEPT ![c] = stage]
Settle(c, outcome, stage) ==
    /\ result' = [result EXCEPT ![c] = outcome]
    /\ GoTo(c, stage)

\* `check_elapsed(start, ctx.timeout)?`: an error leaves by `exit`.
CheckElapsed(c, next, exit) ==
    \/ ~late[c] /\ GoTo(c, next) /\ UNCHANGED result
    \/ late[c] /\ Settle(c, TimedOut, exit)

\* Where an error of the closure, or its result, goes: a leader's is handed to
\* get_or_compute, that of a bypassing request is returned.
\* Mutant: every error is returned at once.
ExitAtOnce(c) == "done"
Exit(c) == IF UsesCache(c) THEN "publish" ELSE "done"

Submit(c, r) ==
    /\ pc[c] = "idle"
    /\ GoTo(c, "submit")
    /\ req' = [req EXCEPT ![c] = r]
    /\ since' = [since EXCEPT ![c] = world]
    /\ UNCHANGED <<world, late, result, computed, hit, cache, flight>>

\* validate_inputs, then parse and the first deadline check.
Parse(c) ==
    /\ pc[c] = "submit"
    /\ IF req[c].timeout = 0 THEN Settle(c, TimedOut, "done")
       ELSE IF req[c].precision = "above" THEN Settle(c, Err("precision"), "done")
       ELSE IF req[c].expr \notin Parsable THEN Settle(c, Err("parse"), "done")
       ELSE CheckElapsed(c, "canonicalize", "done")
    /\ UNCHANGED <<world, req, late, computed, hit, cache, flight, since>>

\* canonicalize, the second check, and the dispatch: the precision mode and
\* deterministic expressions go through the cache.
Canonicalize(c) ==
    /\ pc[c] = "canonicalize"
    /\ IF req[c].expr \notin Foldable THEN Settle(c, Err("canonicalize"), "done")
       ELSE CheckElapsed(c, IF UsesCache(c) THEN "lookup" ELSE "route", "done")
    /\ UNCHANGED <<world, req, late, computed, hit, cache, flight, since>>
-----------------------------------------------------------------------------
(* cache.get_or_compute: hit, or join the running closure, or run it.      *)
LookupHit(c) ==
    /\ pc[c] = "lookup"
    /\ cache[KeyOf(c)] # NoValue
    /\ Settle(c, Ok(cache[KeyOf(c)]), "resolve")
    /\ UNCHANGED <<world, req, late, computed, hit, cache, flight, since>>

\* Mutant: the flag is set on the way into get_or_compute.
LookupJoinFlagged(c) ==
    /\ pc[c] = "lookup"
    /\ cache[KeyOf(c)] = NoValue
    /\ flight[KeyOf(c)] # NoCall
    /\ GoTo(c, "waiting")
    /\ computed' = [computed EXCEPT ![c] = TRUE]
    /\ UNCHANGED <<world, req, late, result, hit, cache, flight, since>>
LookupJoin(c) ==
    /\ pc[c] = "lookup"
    /\ cache[KeyOf(c)] = NoValue
    /\ flight[KeyOf(c)] # NoCall
    /\ GoTo(c, "waiting")
    /\ UNCHANGED <<world, req, late, result, computed, hit, cache, flight, since>>

\* Mutants: a lookup that misses does not look for a running closure; one that
\* finds no running closure does not look into the cache again.
LookupLeadAlone(c) ==
    /\ pc[c] = "lookup"
    /\ cache[KeyOf(c)] = NoValue
    /\ GoTo(c, "route")
    /\ flight' = [flight EXCEPT ![KeyOf(c)] = c]
    /\ computed' = [computed EXCEPT ![c] = TRUE]
    /\ UNCHANGED <<world, req, late, result, hit, cache, since>>
LookupLeadBlindly(c) ==
    /\ pc[c] = "lookup"
    /\ flight[KeyOf(c)] = NoCall
    /\ GoTo(c, "route")
    /\ flight' = [flight EXCEPT ![KeyOf(c)] = c]
    /\ computed' = [computed EXCEPT ![c] = TRUE]
    /\ UNCHANGED <<world, req, late, result, hit, cache, since>>
LookupLead(c) ==
    /\ pc[c] = "lookup"
    /\ cache[KeyOf(c)] = NoValue
    /\ flight[KeyOf(c)] = NoCall
    /\ GoTo(c, "route")
    /\ flight' = [flight EXCEPT ![KeyOf(c)] = c]
    /\ computed' = [computed EXCEPT ![c] = TRUE]
    /\ UNCHANGED <<world, req, late, result, hit, cache, since>>

\* The precision mode builds its domain instead of routing.
Route(c) ==
    /\ pc[c] = "route"
    /\ IF Mode(req[c]) = "regular" /\ req[c].expr \notin Routable
         THEN Settle(c, Err("route"), Exit(c))
         ELSE CheckElapsed(c, "eval", Exit(c))
    /\ UNCHANGED <<world, req, late, computed, hit, cache, flight, since>>

\* domain.evaluate; the check after it is a step of its own because the
\* deadline may pass while it runs.
Evaluate(c) ==
    /\ pc[c] = "eval"
    /\ LET outcome == Value(req[c], world)
       IN Settle(c, outcome, IF outcome.tag = "ok" THEN "check" ELSE Exit(c))
    /\ UNCHANGED <<world, req, late, computed, hit, cache, flight, since>>

CheckAfter(c) ==
    /\ pc[c] = "check"
    /\ CheckElapsed(c, Exit(c), Exit(c))
    /\ UNCHANGED <<world, req, late, computed, hit, cache, flight, since>>

\* The leader's return from the closure: a value that is admitted is cached,
\* an error never is, and every follower gets the leader's outcome.
\* Mutants: errors are admitted; any size is admitted.
AdmitErrors(k, outcome) == [cache EXCEPT ![k] = outcome.val]
AdmitOversize(k, outcome) ==
    IF outcome.tag = "ok" THEN [cache EXCEPT ![k] = outcome.val] ELSE cache
Followers(c) == {f \in Calls : pc[f] = "waiting" /\ KeyOf(f) = KeyOf(c)}
Admit(k, outcome) ==
    IF outcome.tag = "ok" /\ outcome.val \notin Oversize
    THEN [cache EXCEPT ![k] = outcome.val] ELSE cache

Publish(c) ==
    /\ pc[c] = "publish"
    /\ cache' = Admit(KeyOf(c), result[c])
    /\ flight' = [flight EXCEPT ![KeyOf(c)] = NoCall]
    /\ pc' = [f \in Calls |-> IF f \in Followers(c) \cup {c} THEN "resolve" ELSE pc[f]]
    /\ result' = [f \in Calls |-> IF f \in Followers(c) THEN result[c] ELSE result[f]]
    /\ UNCHANGED <<world, req, late, computed, hit, since>>

\* After get_or_compute: errors are returned as they are; the regular mode
\* routes again for the domain's name, which can fail for a value that an
\* expression with the same key has cached.
Resolve(c) ==
    /\ pc[c] = "resolve"
    /\ IF /\ result[c].tag = "ok"
          /\ Mode(req[c]) = "regular"
          /\ req[c].expr \notin Routable
         THEN Settle(c, Err("route"), "done")
         ELSE GoTo(c, "done") /\ UNCHANGED result
    /\ hit' = [hit EXCEPT ![c] = ~computed[c]]
    /\ UNCHANGED <<world, req, late, computed, cache, flight, since>>
-----------------------------------------------------------------------------
(* Environment: the byte budget evicts, deadlines pass, the world moves.   *)
Evict(k) ==
    /\ cache[k] # NoValue
    /\ cache' = [cache EXCEPT ![k] = NoValue]
    /\ UNCHANGED <<world, pc, req, late, result, computed, hit, flight, since>>

\* A deadline that passes where no later check looks at it changes nothing.
Expire(c) ==
    /\ pc[c] \in {"submit", "canonicalize", "lookup", "route", "eval", "check"}
    /\ ~late[c]
    /\ late' = [late EXCEPT ![c] = TRUE]
    /\ UNCHANGED <<world, pc, req, result, computed, hit, cache, flight, since>>

AdvanceWorld ==
    /\ world < MaxWorld
    /\ world' = world + 1
    /\ UNCHANGED <<pc, req, late, result, computed, hit, cache, flight, since>>

Lookup(c) == LookupHit(c) \/ LookupJoin(c) \/ LookupLead(c)

Step(c) ==
    \/ Parse(c) \/ Canonicalize(c) \/ Lookup(c)
    \/ Route(c) \/ Evaluate(c) \/ CheckAfter(c) \/ Publish(c) \/ Resolve(c)

Next ==
    \/ \E c \in Calls : Step(c) \/ Expire(c) \/ \E r \in Requests : Submit(c, r)
    \/ \E k \in Keys : Evict(k)
    \/ AdvanceWorld

\* Threads are scheduled; calls need not be made and deadlines need not pass.
Fairness == \A c \in Calls : WF_vars(Step(c))

Spec == Init /\ [][Next]_vars /\ Fairness
-----------------------------------------------------------------------------
Promise == INSTANCE EvalPromise WITH
    phase   <- [c \in Calls |-> CASE pc[c] = "idle" -> "idle"
                                    [] pc[c] = "done" -> "answered"
                                    [] OTHER -> "pending"],
    request <- req,
    answer  <- [c \in Calls |-> IF pc[c] = "done" THEN result[c] ELSE NoOutcome]

\* Types of all variables.
TypeOK ==
    /\ world \in Worlds
    /\ pc \in [Calls -> Stages]
    /\ req \in [Calls -> Requests]
    /\ late \in [Calls -> BOOLEAN]
    /\ result \in [Calls -> Outcomes \cup {NoOutcome}]
    /\ computed \in [Calls -> BOOLEAN]
    /\ hit \in [Calls -> BOOLEAN]
    /\ cache \in [Keys -> Values \cup {NoValue}]
    /\ flight \in [Keys -> Calls \cup {NoCall}]
    /\ since \in [Calls -> Worlds]

\* Single flight (test_get_or_compute_single_flight_dedup_exact_one): two
\* calls never run the closure for one key at the same time, whatever the
\* order in which they miss, evict, fail and time out.
SingleFlight ==
    \A c, d \in Calls :
        c # d /\ InClosure(c) /\ InClosure(d) => KeyOf(c) # KeyOf(d)

\* A key is never being computed while the cache already holds it.
NoRedundantWork == \A c \in Calls : InClosure(c) => cache[KeyOf(c)] = NoValue

\* A follower is never left behind: while it waits, another call is inside
\* the closure of the same key and is the one whose outcome it will get.
NoLostFollower ==
    \A f \in Calls : pc[f] = "waiting" =>
        \E l \in Calls \ {f} : InClosure(l) /\ flight[KeyOf(f)] = l /\ KeyOf(l) = KeyOf(f)

\* The cache holds only values: each one is what evaluating some request with
\* that key yields at any time, so no error, no timed-out evaluation, no
\* oversized result and nothing read from the clock or the rate table.
CacheProvenance ==
    \A k \in Keys : cache[k] # NoValue =>
        /\ cache[k] \notin Oversize
        /\ \E r \in Requests :
             /\ Key(r) = k /\ Evaluable(r) /\ ~Bypasses(r)
             /\ \A w \in Worlds : Value(r, w) = Ok(cache[k])

\* An answer flagged cache_hit = false (API_REFERENCE: it was really
\* evaluated) is the call's own expression, evaluated while it ran; this
\* holds even when two expressions share a key and do not mean the same.
MissIsOwnWork ==
    \A c \in Calls : pc[c] = "done" /\ ~hit[c] /\ result[c].tag = "ok" =>
        \E w \in since[c] .. world : result[c] = Value(req[c], w)

\* Every answer is one the promise allows for that request, given the world
\* since the call (needs FormsAreSound).
HonestAnswer ==
    \A c \in Calls : pc[c] = "done" =>
        result[c] \in Allowed(req[c], since[c] .. world)

\* Calls are always answered: nobody waits for a leader for ever.
EveryCallReturns ==
    \A c \in Calls : pc[c] \notin {"idle", "done"} ~> pc[c] = "done"

\* The pipeline with its cache implements the cache-free promise.
ImplementsPromise == Promise!Spec
=============================================================================
