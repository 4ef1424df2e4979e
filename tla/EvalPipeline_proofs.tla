------------------------- MODULE EvalPipeline_proofs -------------------------
(***************************************************************************)
(* What TLAPS proves of EvalPipeline for any set of calls, requests,       *)
(* forms, values and any meaning of the expressions.                       *)
(***************************************************************************)
EXTENDS EvalPipeline, TLAPS

-----------------------------------------------------------------------------
(* Facts about the vocabulary.                                             *)

\* The fields of a request are of the types AllRequests gives them.
LEMMA RequestFields ==
    ASSUME NEW r \in Requests
    PROVE  /\ r.expr \in Exprs /\ r.vars \in Vars /\ r.timeout \in Timeouts
           /\ r.precision \in PrecisionArgs
           /\ Mode(r) \in Modes
           /\ Key(r) \in Keys
  BY ConstantsAssumption DEF ConstantsAssumption, AllRequests, Mode, Modes, Key, Keys

\* Evaluating a request in any world yields an outcome.
LEMMA ValueIsOutcome ==
    ASSUME NEW r \in Requests, NEW w \in Worlds
    PROVE  Value(r, w) \in Outcomes
  BY RequestFields, ConstantsAssumption DEF ConstantsAssumption, Value

\* An error of a known kind is an outcome, tagged as one.
LEMMA ErrIsOutcome ==
    ASSUME NEW e \in ErrorKinds
    PROVE  Err(e) \in Outcomes /\ Err(e).tag = "err"
  BY DEF Err, Outcomes

\* A value wrapped by Ok is an outcome and can be unwrapped.
LEMMA OkIsOutcome ==
    ASSUME NEW v \in Values
    PROVE  Ok(v) \in Outcomes /\ Ok(v).tag = "ok" /\ Ok(v).val = v
  BY DEF Ok, Outcomes

\* Every outcome is Ok of a value or Err of a kind.
LEMMA OutcomeShape ==
    ASSUME NEW o \in Outcomes
    PROVE  \/ o.tag = "ok" /\ o.val \in Values /\ o = Ok(o.val)
           \/ o.tag = "err" /\ o.val \in ErrorKinds /\ o = Err(o.val)
  BY DEF Ok, Err, Outcomes

\* A timeout is an error outcome.
LEMMA TimedOutShape == TimedOut \in Outcomes /\ TimedOut.tag = "err"
  BY ErrIsOutcome DEF TimedOut, ErrorKinds

\* There is a request for a call that has not been made yet.
LEMMA SomeRequestExists == SomeRequest \in Requests
  BY ConstantsAssumption DEF ConstantsAssumption, SomeRequest

-----------------------------------------------------------------------------
(* Type correctness.                                                       *)

\* A call past its evaluation, or past a rejection, holds an outcome.
Settled ==
    \A c \in Calls : pc[c] \in {"check", "publish", "resolve", "done"} => result[c] \in Outcomes
TypeInv == TypeOK /\ Settled

\* Every step of every call keeps the types.
LEMMA TypeInvInductive ==
    ASSUME TypeInv, [Next]_vars
    PROVE  TypeInv'
<1> USE DEF TypeInv, TypeOK, Settled, Stages, GoTo, Settle
<1>0. /\ TimedOut \in Outcomes
      /\ \A e \in ErrorKinds : Err(e) \in Outcomes
      /\ \A v \in Values : Ok(v) \in Outcomes
      /\ \A r \in Requests, w \in Worlds : Value(r, w) \in Outcomes
      /\ \A r \in Requests : Key(r) \in Keys
  BY TimedOutShape, ErrIsOutcome, OkIsOutcome, ValueIsOutcome, RequestFields
<1>1. ASSUME NEW c \in Calls, NEW r \in Requests, Submit(c, r) PROVE TypeInv'
  BY <1>1 DEF Submit
<1>2. ASSUME NEW c \in Calls, Parse(c) PROVE TypeInv'
  BY <1>0, <1>2 DEF Parse, CheckElapsed, ErrorKinds
<1>3. ASSUME NEW c \in Calls, Canonicalize(c) PROVE TypeInv'
  BY <1>0, <1>3 DEF Canonicalize, CheckElapsed, ErrorKinds
<1>4. ASSUME NEW c \in Calls, Lookup(c) PROVE TypeInv'
  <2>1. CASE LookupHit(c)
    BY <1>0, <2>1 DEF LookupHit, KeyOf
  <2>2. CASE LookupJoin(c)
    BY <2>2 DEF LookupJoin
  <2>3. CASE LookupLead(c)
    BY <2>3 DEF LookupLead
  <2> QED BY <1>4, <2>1, <2>2, <2>3 DEF Lookup
<1>5. ASSUME NEW c \in Calls, Route(c) PROVE TypeInv'
  BY <1>0, <1>5 DEF Route, CheckElapsed, ErrorKinds, Exit
<1>6. ASSUME NEW c \in Calls, Evaluate(c) PROVE TypeInv'
  BY <1>0, <1>6 DEF Evaluate, Exit
<1>7. ASSUME NEW c \in Calls, CheckAfter(c) PROVE TypeInv'
  BY <1>0, <1>7 DEF CheckAfter, CheckElapsed, Exit
<1>8. ASSUME NEW c \in Calls, Publish(c) PROVE TypeInv'
  <2>1. result[c] \in Outcomes
    BY <1>8 DEF Publish
  <2>2. cache' \in [Keys -> Values \cup {NoValue}]
    BY <1>8, <2>1, OutcomeShape DEF Publish, Admit
  <2>3. flight' \in [Keys -> Calls \cup {NoCall}]
    BY <1>8 DEF Publish
  <2> QED BY <1>8, <2>1, <2>2, <2>3 DEF Publish, Followers
<1>9. ASSUME NEW c \in Calls, Resolve(c) PROVE TypeInv'
  BY <1>0, <1>9 DEF Resolve, ErrorKinds
<1>10. ASSUME NEW k \in Keys, Evict(k) PROVE TypeInv'
  BY <1>10 DEF Evict
<1>11. ASSUME NEW c \in Calls, Expire(c) PROVE TypeInv'
  BY <1>11 DEF Expire
<1>12. CASE AdvanceWorld
  BY <1>12, ConstantsAssumption DEF AdvanceWorld, Worlds, ConstantsAssumption
<1>13. CASE UNCHANGED vars
  BY <1>13 DEF vars
<1> QED
  BY <1>1, <1>2, <1>3, <1>4, <1>5, <1>6, <1>7, <1>8, <1>9, <1>10, <1>11, <1>12, <1>13
  DEF Next, Step

\* Every reachable state has the types TypeOK states.
THEOREM TypeCorrect == Spec => []TypeOK
<1>1. Init => TypeInv
  BY SomeRequestExists, ConstantsAssumption
  DEF Init, TypeInv, TypeOK, Settled, Stages, ConstantsAssumption, Worlds
<1>2. TypeInv => TypeOK
  BY DEF TypeInv
<1> QED BY <1>1, <1>2, TypeInvInductive, PTL DEF Spec

\* The type invariant, with what a settled call holds, is always true.
LEMMA TypeInvCorrect == Spec => []TypeInv
<1>1. Init => TypeInv
  BY SomeRequestExists, ConstantsAssumption
  DEF Init, TypeInv, TypeOK, Settled, Stages, ConstantsAssumption, Worlds
<1> QED BY <1>1, TypeInvInductive, PTL DEF Spec

-----------------------------------------------------------------------------
(* Single flight: who may run the closure of a key.                        *)

\* The flight table and the calls inside a closure name each other, nothing
\* is cached under a key that is being computed, and a follower's key has a
\* leader.  This is inductive; SingleFlight alone is not.
FlightNamesLeader ==
    \A k \in Keys : flight[k] # NoCall =>
        flight[k] \in Calls /\ InClosure(flight[k]) /\ KeyOf(flight[k]) = k
LeaderInFlight ==
    \A c \in Calls : InClosure(c) =>
        flight[KeyOf(c)] = c /\ cache[KeyOf(c)] = NoValue /\ computed[c]
FollowerHasFlight ==
    \A c \in Calls : pc[c] = "waiting" => flight[KeyOf(c)] # NoCall
CachePath ==
    \A c \in Calls : pc[c] \in {"lookup", "waiting", "publish", "resolve"} => UsesCache(c)
\* The closure's flag, and the hit flag, belong to calls that use the cache.
FlagsOfCache ==
    \A c \in Calls :
        /\ pc[c] \in {"idle", "submit", "canonicalize", "lookup", "waiting"} => ~computed[c]
        /\ pc[c] # "done" => ~hit[c]
        /\ computed[c] \/ hit[c] => UsesCache(c)
Coordinated == FlightNamesLeader /\ LeaderInFlight /\ FollowerHasFlight /\ CachePath
                   /\ FlagsOfCache

\* Every step keeps flight table and pcs in agreement: the flight of a key
\* names the call inside its closure, and a waiting call has such a flight.
LEMMA CoordinatedInductive ==
    ASSUME TypeInv, Coordinated, [Next]_vars
    PROVE  Coordinated'
<1> USE NullsAssumption
    DEF TypeInv, TypeOK, Coordinated, FlightNamesLeader, LeaderInFlight, FollowerHasFlight,
        CachePath, FlagsOfCache, InClosure, KeyOf, UsesCache, Closure, GoTo, Settle, NullsAssumption
<1>0. \A r \in Requests : Key(r) \in Keys
  BY RequestFields
<1>1. ASSUME NEW c \in Calls, NEW r \in Requests, Submit(c, r) PROVE Coordinated'
  BY <1>0, <1>1 DEF Submit
<1>2. ASSUME NEW c \in Calls, Parse(c) PROVE Coordinated'
  BY <1>0, <1>2 DEF Parse, CheckElapsed
<1>3. ASSUME NEW c \in Calls, Canonicalize(c) PROVE Coordinated'
  <2>1. req' = req /\ flight' = flight /\ cache' = cache /\ computed' = computed
        /\ hit' = hit
    BY <1>3 DEF Canonicalize
  <2>2. /\ pc' \in [Calls -> {"done", "lookup", "route"} \cup Stages]
        /\ \A d \in Calls \ {c} : pc'[d] = pc[d]
        /\ pc'[c] \in {"done", "lookup", "route"}
        /\ pc'[c] = "lookup" => ~Bypasses(req[c])
        /\ pc'[c] = "route" => Bypasses(req[c])
        /\ pc[c] = "canonicalize"
    BY <1>3 DEF Canonicalize, CheckElapsed
  <2> QED BY <1>0, <2>1, <2>2
<1>4. ASSUME NEW c \in Calls, Lookup(c) PROVE Coordinated'
  <2>1. CASE LookupHit(c)
    BY <1>0, <2>1 DEF LookupHit
  <2>2. CASE LookupJoin(c)
    BY <1>0, <2>2 DEF LookupJoin
  <2>3. CASE LookupLead(c)
    BY <1>0, <2>3 DEF LookupLead
  <2> QED BY <1>4, <2>1, <2>2, <2>3 DEF Lookup
<1>5. ASSUME NEW c \in Calls, Route(c) PROVE Coordinated'
  BY <1>0, <1>5 DEF Route, CheckElapsed, Exit
<1>6. ASSUME NEW c \in Calls, Evaluate(c) PROVE Coordinated'
  BY <1>0, <1>6 DEF Evaluate, Exit
<1>7. ASSUME NEW c \in Calls, CheckAfter(c) PROVE Coordinated'
  BY <1>0, <1>7 DEF CheckAfter, CheckElapsed, Exit
<1>8. ASSUME NEW c \in Calls, Publish(c) PROVE Coordinated'
  <2>1. FlightNamesLeader'
    BY <1>0, <1>8 DEF Publish, Followers
  <2>2. LeaderInFlight'
    BY <1>0, <1>8 DEF Publish, Followers, Admit
  <2>3. FollowerHasFlight'
    BY <1>0, <1>8 DEF Publish, Followers
  <2>4. CachePath'
    BY <1>0, <1>8 DEF Publish, Followers
  <2>5. FlagsOfCache'
    BY <1>0, <1>8 DEF Publish, Followers
  <2> QED BY <2>1, <2>2, <2>3, <2>4, <2>5
<1>9. ASSUME NEW c \in Calls, Resolve(c) PROVE Coordinated'
  BY <1>0, <1>9 DEF Resolve
<1>10. ASSUME NEW k \in Keys, Evict(k) PROVE Coordinated'
  BY <1>0, <1>10 DEF Evict
<1>11. ASSUME NEW c \in Calls, Expire(c) PROVE Coordinated'
  BY <1>11 DEF Expire
<1>12. CASE AdvanceWorld
  BY <1>12 DEF AdvanceWorld
<1>13. CASE UNCHANGED vars
  BY <1>13 DEF vars
<1> QED
  BY <1>1, <1>2, <1>3, <1>4, <1>5, <1>6, <1>7, <1>8, <1>9, <1>10, <1>11, <1>12, <1>13
  DEF Next, Step

\* Flight table and pcs always agree.
LEMMA CoordinatedCorrect == Spec => []Coordinated
<1>1. Init => Coordinated
  BY NullsAssumption DEF Init, Coordinated, FlightNamesLeader, LeaderInFlight,
     FollowerHasFlight, CachePath, FlagsOfCache, InClosure, Closure
<1> QED BY <1>1, CoordinatedInductive, TypeInvCorrect, PTL DEF Spec

\* Two calls never run the closure of one key at once, for any number of calls.
THEOREM SingleFlightCorrect == Spec => []SingleFlight
<1>1. TypeInv /\ Coordinated => SingleFlight
  BY DEF Coordinated, LeaderInFlight, SingleFlight
<1> QED BY <1>1, CoordinatedCorrect, TypeInvCorrect, PTL

\* A key is never computed while it is cached.
THEOREM NoRedundantWorkCorrect == Spec => []NoRedundantWork
<1>1. Coordinated => NoRedundantWork
  BY DEF Coordinated, LeaderInFlight, NoRedundantWork
<1> QED BY <1>1, CoordinatedCorrect, PTL

\* Every waiting follower has a leader that is still inside the closure.
THEOREM NoLostFollowerCorrect == Spec => []NoLostFollower
<1>1. TypeInv /\ Coordinated => NoLostFollower
  <2> SUFFICES ASSUME TypeInv, Coordinated, NEW f \in Calls, pc[f] = "waiting"
               PROVE  \E l \in Calls \ {f} :
                         InClosure(l) /\ flight[KeyOf(f)] = l /\ KeyOf(l) = KeyOf(f)
    BY DEF NoLostFollower
  <2>1. KeyOf(f) \in Keys
    BY RequestFields DEF TypeInv, TypeOK, KeyOf
  <2>2. flight[KeyOf(f)] # NoCall
    BY DEF Coordinated, FollowerHasFlight
  <2>3. /\ flight[KeyOf(f)] \in Calls
        /\ InClosure(flight[KeyOf(f)])
        /\ KeyOf(flight[KeyOf(f)]) = KeyOf(f)
    BY <2>1, <2>2 DEF Coordinated, FlightNamesLeader
  <2> QED BY <2>3 DEF InClosure, Closure
<1> QED BY <1>1, CoordinatedCorrect, TypeInvCorrect, PTL
-----------------------------------------------------------------------------
(* What the outcomes and the cache hold.                                   *)

\* o is what the closure of r may return when the world ranges over ws.
Yields(r, o, ws) ==
    \/ o = TimedOut
    \/ o = Err("route") /\ ~Evaluable(r)
    \/ Evaluable(r) /\ \E w \in ws : o = Value(r, w)

Span(c) == since[c] .. world

SpanGrows == \A c \in Calls : since[c] <= world
GetsThere ==
    /\ \A c \in Calls : pc[c] \in {"lookup", "waiting", "route", "eval", "check", "publish", "resolve"}
                            => Accepted(req[c])
    /\ \A c \in Calls : pc[c] = "canonicalize" =>
            req[c].timeout # 0 /\ req[c].precision # "above" /\ req[c].expr \in Parsable
    /\ \A c \in Calls : pc[c] \in {"eval", "check"} => Evaluable(req[c])
Evaluated ==
    \A c \in Calls : pc[c] = "check" => \E w \in Span(c) : result[c] = Value(req[c], w)
Published ==
    \A c \in Calls : pc[c] = "publish" => Yields(req[c], result[c], Span(c))
\* At resolve a call holds its own outcome or that of a request with its key.
Shared ==
    \A c \in Calls : pc[c] = "resolve" =>
        /\ computed[c] => Yields(req[c], result[c], Span(c))
        /\ \E r \in Requests : /\ Key(r) = KeyOf(c) /\ Accepted(r) /\ ~Bypasses(r)
                               /\ Yields(r, result[c], Worlds)
Finished ==
    \A c \in Calls : pc[c] = "done" =>
        /\ ~hit[c] /\ result[c].tag = "ok" => \E w \in Span(c) : result[c] = Value(req[c], w)
        /\ FormsAreSound => result[c] \in Allowed(req[c], Span(c))
Holds == SpanGrows /\ GetsThere /\ Evaluated /\ Published /\ Shared /\ Finished
                   /\ CacheProvenance

\* What is accepted and yet not evaluable is a regular request no domain takes.
LEMMA AcceptedUnroutable ==
    ASSUME NEW r \in Requests, Accepted(r), ~Evaluable(r)
    PROVE  Mode(r) = "regular" /\ r.expr \notin Routable
  BY DEF Evaluable

\* What a request with the same key yields is right for r as well.
LEMMA SharedIsAllowed ==
    ASSUME NEW r \in Requests, NEW q \in Requests, NEW o, NEW ws \in SUBSET Worlds, ws # {},
           Key(q) = Key(r), Accepted(q), Accepted(r), ~Bypasses(r),
           Yields(q, o, Worlds), FormsAreSound
    PROVE  o \in Allowed(r, ws)
<1>1. CASE o = TimedOut
  BY <1>1 DEF Allowed
<1>2. CASE o = Err("route") /\ ~Evaluable(q)
  <2>1. ~Evaluable(r)
    BY <1>2, ConstantsAssumption DEF FormsAreSound, Worlds, ConstantsAssumption
  <2> QED BY <1>2, <2>1, AcceptedUnroutable DEF Allowed, Rejections
<1>3. CASE Evaluable(q) /\ \E w \in Worlds : o = Value(q, w)
  <2>1. PICK w \in Worlds : o = Value(q, w)
    BY <1>3
  <2>2. Evaluable(r) /\ o = Value(r, w)
    BY <1>3, <2>1 DEF FormsAreSound
  <2>3. PICK u \in ws : TRUE
    OBVIOUS
  <2>4. o = Value(r, u)
    BY <2>2, <2>3, CacheableIsWorldFree
  <2> QED BY <2>2, <2>3, <2>4 DEF Allowed
<1> QED BY <1>1, <1>2, <1>3 DEF Yields

\* What evaluating a request yields is allowed for it.
LEMMA OwnIsAllowed ==
    ASSUME NEW r \in Requests, NEW o, NEW ws \in SUBSET Worlds,
           Accepted(r), Yields(r, o, ws)
    PROVE  o \in Allowed(r, ws)
  BY AcceptedUnroutable DEF Yields, Allowed, Rejections

\* A value a request yields is its value in one of the worlds.
LEMMA YieldedValue ==
    ASSUME NEW r \in Requests, NEW o, NEW ws \in SUBSET Worlds,
           Yields(r, o, ws), o.tag = "ok"
    PROVE  Evaluable(r) /\ \E w \in ws : o = Value(r, w)
  BY TimedOutShape, ErrIsOutcome DEF Yields, ErrorKinds

\* More worlds, more outcomes a request may yield.
LEMMA YieldsGrows ==
    ASSUME NEW r, NEW o, NEW ws, NEW us, ws \subseteq us, Yields(r, o, ws)
    PROVE  Yields(r, o, us)
  BY DEF Yields

\* More worlds, more outcomes allowed for a request.
LEMMA AllowedGrows ==
    ASSUME NEW r, NEW ws, NEW us, ws \subseteq us
    PROVE  Allowed(r, ws) \subseteq Allowed(r, us)
  BY DEF Allowed

\* The worlds a call has seen so far are worlds.
LEMMA SpanIsWorlds ==
    ASSUME TypeOK, NEW c \in Calls
    PROVE  Span(c) \subseteq Worlds
  BY ConstantsAssumption DEF TypeOK, Span, Worlds, ConstantsAssumption

\* Steps of one call that touch neither the cache nor another call: what is
\* left to show is what the call itself holds afterwards.
LEMMA LocalStep ==
    ASSUME TypeInv, TypeInv', Holds, NEW c \in Calls,
           world' = world, since' = since, req' = req, cache' = cache,
           \A d \in Calls \ {c} :
               pc'[d] = pc[d] /\ result'[d] = result[d] /\ computed'[d] = computed[d] /\ hit'[d] = hit[d],
           pc'[c] \in {"lookup", "waiting", "route", "eval", "check", "publish", "resolve"}
               => Accepted(req[c]),
           pc'[c] = "canonicalize" =>
               req[c].timeout # 0 /\ req[c].precision # "above" /\ req[c].expr \in Parsable,
           pc'[c] \in {"eval", "check"} => Evaluable(req[c]),
           pc'[c] = "check" => \E w \in Span(c) : result'[c] = Value(req[c], w),
           pc'[c] = "publish" => Yields(req[c], result'[c], Span(c)),
           pc'[c] = "resolve" =>
               /\ computed'[c] => Yields(req[c], result'[c], Span(c))
               /\ \E r \in Requests : /\ Key(r) = KeyOf(c) /\ Accepted(r) /\ ~Bypasses(r)
                                      /\ Yields(r, result'[c], Worlds),
           pc'[c] = "done" =>
               /\ ~hit'[c] /\ result'[c].tag = "ok" => \E w \in Span(c) : result'[c] = Value(req[c], w)
               /\ FormsAreSound => result'[c] \in Allowed(req[c], Span(c))
    PROVE  Holds'
<1>1. SpanGrows'
  BY DEF Holds, SpanGrows
<1>2. GetsThere'
  BY DEF Holds, GetsThere
<1>3. Evaluated'
  BY DEF Holds, Evaluated, Span
<1>4. Published'
  BY DEF Holds, Published, Span
<1>5. Shared'
  BY DEF Holds, Shared, Span, KeyOf
<1>6. Finished'
  BY DEF Holds, Finished, Span
<1>7. CacheProvenance'
  BY DEF Holds, CacheProvenance
<1> QED BY <1>1, <1>2, <1>3, <1>4, <1>5, <1>6, <1>7 DEF Holds

\* Every step keeps what is known of outcomes: those calls hold, those the
\* cache holds, and those a leader is about to publish.
LEMMA HoldsInductive ==
    ASSUME TypeInv, TypeInv', Coordinated, Holds, [Next]_vars
    PROVE  Holds'
<1> USE DEF GoTo, Settle
<1>0. \A c \in Calls : /\ req[c] \in Requests
                       /\ Span(c) \subseteq Worlds
                       /\ world \in Span(c)
  BY SpanIsWorlds, ConstantsAssumption
  DEF TypeInv, TypeOK, Holds, SpanGrows, Span, Worlds, ConstantsAssumption
<1>1. ASSUME NEW c \in Calls, NEW r \in Requests, Submit(c, r) PROVE Holds'
  <2> USE <1>1 DEF Submit, TypeInv, TypeOK, Holds
  <2>1. SpanGrows'
    BY ConstantsAssumption DEF SpanGrows, Worlds, ConstantsAssumption
  <2>2. GetsThere'
    BY DEF GetsThere
  <2>3. Evaluated'
    BY DEF Evaluated, Span
  <2>4. Published'
    BY DEF Published, Span
  <2>5. Shared'
    BY DEF Shared, Span, KeyOf
  <2>6. Finished'
    BY DEF Finished, Span
  <2>7. CacheProvenance'
    BY DEF CacheProvenance
  <2> QED BY <2>1, <2>2, <2>3, <2>4, <2>5, <2>6, <2>7
<1>2. ASSUME NEW c \in Calls, Parse(c) PROVE Holds'
  <2>1. CASE pc'[c] = "canonicalize"
    BY <1>2, <2>1, LocalStep DEF Parse, CheckElapsed, TypeInv, TypeOK
  <2>2. CASE pc'[c] = "done"
    <3>1. result'[c] \in {TimedOut} \cup Rejections(req[c])
      BY <1>2, <2>2 DEF Parse, CheckElapsed, TypeInv, TypeOK, Rejections
    <3>2. result'[c].tag = "err"
      BY <3>1, TimedOutShape, ErrIsOutcome DEF Rejections, ErrorKinds
    <3>3. result'[c] \in Allowed(req[c], Span(c))
      BY <3>1 DEF Allowed
    <3> QED BY <1>2, <2>2, <3>2, <3>3, LocalStep DEF Parse, CheckElapsed, TypeInv, TypeOK
  <2> QED BY <1>2, <2>1, <2>2 DEF Parse, CheckElapsed, TypeInv, TypeOK
<1>3. ASSUME NEW c \in Calls, Canonicalize(c) PROVE Holds'
  <2>1. CASE pc'[c] \in {"route", "lookup"}
    <3>1. Accepted(req[c])
      BY <1>3, <2>1 DEF Canonicalize, CheckElapsed, TypeInv, TypeOK, Accepted, Holds, GetsThere
    <3> QED BY <1>3, <2>1, <3>1, LocalStep DEF Canonicalize, CheckElapsed, TypeInv, TypeOK
  <2>2. CASE pc'[c] = "done"
    <3>1. result'[c] \in {TimedOut} \cup Rejections(req[c])
      BY <1>3, <2>2 DEF Canonicalize, CheckElapsed, TypeInv, TypeOK, Rejections
    <3>2. result'[c].tag = "err"
      BY <3>1, TimedOutShape, ErrIsOutcome DEF Rejections, ErrorKinds
    <3>3. result'[c] \in Allowed(req[c], Span(c))
      BY <3>1 DEF Allowed
    <3> QED BY <1>3, <2>2, <3>2, <3>3, LocalStep DEF Canonicalize, CheckElapsed, TypeInv, TypeOK
  <2> QED BY <1>3, <2>1, <2>2 DEF Canonicalize, CheckElapsed, TypeInv, TypeOK
<1>4. ASSUME NEW c \in Calls, Lookup(c) PROVE Holds'
  <2>1. CASE LookupHit(c)
    <3>1. PICK r \in Requests :
            /\ Key(r) = KeyOf(c) /\ Evaluable(r) /\ ~Bypasses(r)
            /\ \A w \in Worlds : Value(r, w) = Ok(cache[KeyOf(c)])
      BY <1>0, <2>1, RequestFields DEF LookupHit, Holds, CacheProvenance, KeyOf
    <3>2. Yields(r, Ok(cache[KeyOf(c)]), Worlds)
      BY <1>0, <3>1 DEF Yields
    <3>3. ~computed[c]
      BY <2>1 DEF LookupHit, Coordinated, FlagsOfCache
    <3> QED
      BY <2>1, <3>1, <3>2, <3>3, LocalStep
      DEF LookupHit, TypeInv, TypeOK, Holds, GetsThere, Evaluable
  <2>2. CASE LookupJoin(c)
    BY <2>2, LocalStep DEF LookupJoin, TypeInv, TypeOK, Holds, GetsThere
  <2>3. CASE LookupLead(c)
    BY <2>3, LocalStep DEF LookupLead, TypeInv, TypeOK, Holds, GetsThere
  <2> QED BY <1>4, <2>1, <2>2, <2>3 DEF Lookup
<1>5. ASSUME NEW c \in Calls, Route(c) PROVE Holds'
  <2>1. Accepted(req[c]) /\ pc[c] = "route"
    BY <1>5 DEF Route, Holds, GetsThere
  <2>2. CASE pc'[c] = "eval"
    <3>1. Evaluable(req[c])
      BY <1>5, <2>1, <2>2 DEF Route, CheckElapsed, TypeInv, TypeOK, Evaluable, Exit
    <3> QED BY <1>5, <2>1, <2>2, <3>1, LocalStep DEF Route, CheckElapsed, TypeInv, TypeOK
  <2>3. CASE pc'[c] # "eval"
    <3>1. /\ Yields(req[c], result'[c], Span(c)) /\ result'[c].tag = "err"
          /\ pc'[c] \in {"publish", "done"}
      BY <1>5, <2>1, <2>3, TimedOutShape, ErrIsOutcome
      DEF Route, CheckElapsed, TypeInv, TypeOK, Evaluable, Exit, Yields, ErrorKinds
    <3>2. result'[c] \in Allowed(req[c], Span(c))
      BY <1>0, <2>1, <3>1, OwnIsAllowed
    <3> QED
      BY <1>5, <2>1, <3>1, <3>2, LocalStep DEF Route, CheckElapsed, TypeInv, TypeOK
  <2> QED BY <2>2, <2>3
<1>6. ASSUME NEW c \in Calls, Evaluate(c) PROVE Holds'
  <2>1. Accepted(req[c]) /\ Evaluable(req[c]) /\ pc[c] = "eval"
    BY <1>6 DEF Evaluate, Holds, GetsThere
  <2>2. result'[c] = Value(req[c], world) /\ pc'[c] \in {"check", "publish", "done"}
    BY <1>6 DEF Evaluate, TypeInv, TypeOK, Exit
  <2>3. Yields(req[c], result'[c], Span(c)) /\ \E w \in Span(c) : result'[c] = Value(req[c], w)
    BY <1>0, <2>1, <2>2 DEF Yields
  <2>4. result'[c] \in Allowed(req[c], Span(c))
    BY <1>0, <2>1, <2>3, OwnIsAllowed
  <2> QED
    BY <1>6, <2>1, <2>2, <2>3, <2>4, LocalStep DEF Evaluate, TypeInv, TypeOK
<1>7. ASSUME NEW c \in Calls, CheckAfter(c) PROVE Holds'
  <2>1. /\ Accepted(req[c]) /\ Evaluable(req[c]) /\ pc[c] = "check"
        /\ \E w \in Span(c) : result[c] = Value(req[c], w)
    BY <1>7 DEF CheckAfter, Holds, GetsThere, Evaluated
  <2>2. /\ Yields(req[c], result'[c], Span(c)) /\ pc'[c] \in {"publish", "done"}
        /\ result'[c].tag = "ok" => \E w \in Span(c) : result'[c] = Value(req[c], w)
    BY <1>7, <2>1, TimedOutShape DEF CheckAfter, CheckElapsed, TypeInv, TypeOK, Yields, Exit
  <2>3. result'[c] \in Allowed(req[c], Span(c))
    BY <1>0, <2>1, <2>2, OwnIsAllowed
  <2> QED
    BY <1>7, <2>1, <2>2, <2>3, LocalStep DEF CheckAfter, CheckElapsed, TypeInv, TypeOK
<1>8. ASSUME NEW c \in Calls, Publish(c) PROVE Holds'
  <2> USE DEF TypeInv, TypeOK
  <2>0. /\ pc[c] = "publish" /\ Accepted(req[c]) /\ UsesCache(c)
        /\ Yields(req[c], result[c], Span(c)) /\ Key(req[c]) \in Keys
        /\ Yields(req[c], result[c], Worlds)
    BY <1>0, <1>8, YieldsGrows, RequestFields
    DEF Publish, Holds, GetsThere, Published, Coordinated, CachePath
  <2>1. SpanGrows'
    BY <1>8 DEF Publish, Holds, SpanGrows
  <2>2. GetsThere'
    BY <1>8, <2>0 DEF Publish, Followers, Holds, GetsThere
  <2>3. Evaluated'
    BY <1>8, <2>0 DEF Publish, Followers, Holds, Evaluated, Span
  <2>4. Published'
    BY <1>8, <2>0 DEF Publish, Followers, Holds, Published, Span
  <2>5. Shared'
    <3> SUFFICES ASSUME NEW d \in Calls, pc'[d] = "resolve"
                 PROVE  /\ computed[d] => Yields(req[d], result'[d], Span(d))
                        /\ \E r \in Requests : /\ Key(r) = KeyOf(d) /\ Accepted(r) /\ ~Bypasses(r)
                                               /\ Yields(r, result'[d], Worlds)
      BY <1>8 DEF Publish, Shared, Span, KeyOf
    <3>1. CASE d = c
      BY <1>0, <1>8, <2>0, <3>1 DEF Publish, Followers, UsesCache, KeyOf
    <3>2. CASE d \in Followers(c)
      <4>1. KeyOf(d) = KeyOf(c) /\ result'[d] = result[c] /\ ~computed[d]
        BY <1>8, <3>2 DEF Publish, Followers, Coordinated, FlagsOfCache
      <4> QED BY <1>0, <2>0, <4>1 DEF UsesCache, KeyOf
    <3>3. CASE d # c /\ d \notin Followers(c)
      <4>1. pc[d] = "resolve" /\ result'[d] = result[d]
        BY <1>8, <3>3 DEF Publish
      <4> QED BY <4>1 DEF Holds, Shared
    <3> QED BY <3>1, <3>2, <3>3
  <2>6. Finished'
    BY <1>8, <2>0 DEF Publish, Followers, Holds, Finished, Span
  <2>7. CacheProvenance'
    <3>1. CASE cache' = cache
      BY <3>1 DEF Holds, CacheProvenance
    <3>2. CASE cache' # cache
      <4>1. /\ result[c].tag = "ok" /\ result[c].val \notin Oversize
            /\ cache' = [cache EXCEPT ![KeyOf(c)] = result[c].val]
        BY <1>8, <3>2 DEF Publish, Admit
      <4>2. PICK w \in Worlds : result[c] = Value(req[c], w)
        BY <2>0, <4>1, YieldedValue
      <4>3. Evaluable(req[c])
        BY <2>0, <4>1, YieldedValue
      <4>4. result[c] = Ok(result[c].val)
        BY <1>0, <4>1, <4>2, ValueIsOutcome, OutcomeShape
      <4>5. \A u \in Worlds : Value(req[c], u) = Ok(result[c].val)
        BY <1>0, <2>0, <4>2, <4>3, <4>4, CacheableIsWorldFree DEF UsesCache
      <4> QED
        BY <1>0, <2>0, <4>1, <4>3, <4>5 DEF Holds, CacheProvenance, UsesCache, KeyOf
    <3> QED BY <3>1, <3>2
  <2> QED BY <2>1, <2>2, <2>3, <2>4, <2>5, <2>6, <2>7 DEF Holds
<1>9. ASSUME NEW c \in Calls, Resolve(c) PROVE Holds'
  <2>0. pc[c] = "resolve" /\ Accepted(req[c]) /\ UsesCache(c)
    BY <1>9 DEF Resolve, Holds, GetsThere, Coordinated, CachePath
  <2>1. PICK r \in Requests :
          /\ Key(r) = KeyOf(c) /\ Accepted(r) /\ ~Bypasses(r)
          /\ Yields(r, result[c], Worlds)
    BY <2>0 DEF Holds, Shared
  <2>2. CASE result'[c] = result[c]
    <3>1. FormsAreSound => result'[c] \in Allowed(req[c], Span(c))
      BY <1>0, <2>0, <2>1, <2>2, SharedIsAllowed DEF KeyOf, UsesCache
    <3>2. ~hit'[c] /\ result'[c].tag = "ok" => \E w \in Span(c) : result'[c] = Value(req[c], w)
      <4>1. ~hit'[c] => computed[c]
        BY <1>9 DEF Resolve, TypeInv, TypeOK
      <4>2. computed[c] => Yields(req[c], result[c], Span(c))
        BY <2>0 DEF Holds, Shared
      <4> QED BY <1>0, <2>2, <4>1, <4>2, YieldedValue
    <3> QED
      BY <1>9, <3>1, <3>2, LocalStep DEF Resolve, TypeInv, TypeOK
  <2>3. CASE result'[c] # result[c]
    <3>1. result'[c] = Err("route") /\ Mode(req[c]) = "regular" /\ req[c].expr \notin Routable
      BY <1>9, <2>3 DEF Resolve, TypeInv, TypeOK
    <3>2. result'[c].tag = "err" /\ result'[c] \in Allowed(req[c], Span(c))
      BY <3>1, ErrIsOutcome DEF ErrorKinds, Allowed, Rejections
    <3> QED
      BY <1>9, <3>2, LocalStep DEF Resolve, TypeInv, TypeOK
  <2> QED BY <2>2, <2>3
<1>10. ASSUME NEW k \in Keys, Evict(k) PROVE Holds'
  <2>1. CacheProvenance'
    BY <1>10 DEF Evict, TypeInv, TypeOK, Holds, CacheProvenance
  <2> QED
    BY <1>10, <2>1 DEF Evict, Holds, SpanGrows, GetsThere, Evaluated, Published, Shared,
       Finished, Span, KeyOf
<1>11. ASSUME NEW c \in Calls, Expire(c) PROVE Holds'
  BY <1>11 DEF Expire, Holds, SpanGrows, GetsThere, Evaluated, Published, Shared,
     Finished, Span, KeyOf, CacheProvenance
<1>12. CASE AdvanceWorld
  <2>1. /\ UNCHANGED <<pc, req, result, computed, hit, cache, since>>
        /\ \A c \in Calls : Span(c) \subseteq Span(c)'
    BY <1>12, ConstantsAssumption
    DEF AdvanceWorld, Span, TypeInv, TypeOK, Worlds, ConstantsAssumption
  <2>2. SpanGrows'
    BY <1>12, ConstantsAssumption
    DEF AdvanceWorld, TypeInv, TypeOK, Worlds, ConstantsAssumption, Holds, SpanGrows
  <2>3. Evaluated'
    BY <2>1 DEF Holds, Evaluated
  <2>4. Published'
    BY <2>1, YieldsGrows DEF Holds, Published
  <2>5. Shared'
    BY <2>1, YieldsGrows DEF Holds, Shared, KeyOf
  <2>6. Finished'
    BY <2>1, AllowedGrows DEF Holds, Finished
  <2> QED
    BY <2>1, <2>2, <2>3, <2>4, <2>5, <2>6 DEF Holds, GetsThere, CacheProvenance
<1>13. CASE UNCHANGED vars
  BY <1>13 DEF vars, Holds, SpanGrows, GetsThere, Evaluated, Published, Shared,
     Finished, Span, KeyOf, CacheProvenance
<1> QED
  BY <1>1, <1>2, <1>3, <1>4, <1>5, <1>6, <1>7, <1>8, <1>9, <1>10, <1>11, <1>12, <1>13
  DEF Next, Step

\* What is known of outcomes is always true.
LEMMA HoldsCorrect == Spec => []Holds
<1>1. Init => Holds
  BY DEF Init, Holds, SpanGrows, GetsThere, Evaluated, Published, Shared, Finished,
     CacheProvenance
<1> QED BY <1>1, HoldsInductive, CoordinatedCorrect, TypeInvCorrect, PTL DEF Spec

\* The cache holds only values, each the value, at any time, of a request with
\* its key; no error, nothing oversized and nothing read from the world.
THEOREM CacheProvenanceCorrect == Spec => []CacheProvenance
<1>1. Holds => CacheProvenance
  BY DEF Holds
<1> QED BY <1>1, HoldsCorrect, PTL

\* An answer that is not flagged as a hit is the call's own evaluation.
THEOREM MissIsOwnWorkCorrect == Spec => []MissIsOwnWork
<1>1. Holds => MissIsOwnWork
  BY DEF Holds, Finished, MissIsOwnWork, Span
<1> QED BY <1>1, HoldsCorrect, PTL

\* If requests with one key mean the same, every answer is an allowed one.
THEOREM HonestAnswerCorrect == FormsAreSound => (Spec => []HonestAnswer)
<1> SUFFICES ASSUME FormsAreSound PROVE Spec => []HonestAnswer
  OBVIOUS
<1>1. Holds => HonestAnswer
  BY DEF Holds, Finished, HonestAnswer, Span
<1> QED BY <1>1, HoldsCorrect, PTL
-----------------------------------------------------------------------------
(* The pipeline implements the promise (safety part; TLC checks liveness). *)

\* The promise and the pipeline mean the same by an allowed outcome.
LEMMA PromiseAllows ==
    ASSUME NEW r, NEW ws PROVE Promise!Allowed(r, ws) = Allowed(r, ws)
  BY DEF Promise!Allowed, Allowed, Promise!Rejections, Rejections, Promise!TimedOut, TimedOut,
     Promise!Err, Err, Promise!Mode, Mode, Promise!Evaluable, Evaluable, Promise!Accepted,
     Accepted, Promise!Value, Value

\* Every step of the pipeline is a step of the promise or leaves it alone.
LEMMA StepImplements ==
    ASSUME TypeInv, TypeInv', Coordinated, Holds', FormsAreSound, [Next]_vars
    PROVE  [Promise!Next]_(Promise!promiseVars)
<1> DEFINE ph == [c \in Calls |-> CASE pc[c] = "idle" -> "idle"
                                    [] pc[c] = "done" -> "answered"
                                    [] OTHER -> "pending"]
           an == [c \in Calls |-> IF pc[c] = "done" THEN result[c] ELSE NoOutcome]
<1> USE DEF TypeInv, TypeOK, Stages
<1>1. ASSUME NEW c \in Calls, NEW r \in Requests, Submit(c, r)
      PROVE  Promise!Call(c, r)
  BY <1>1 DEF Submit, GoTo, Promise!Call
<1>2. ASSUME NEW c \in Calls, pc[c] \notin {"idle", "done"}, pc'[c] = "done",
             \A d \in Calls \ {c} : pc'[d] = pc[d] /\ result'[d] = result[d],
             UNCHANGED <<world, req, since>>
      PROVE  Promise!Return(c)
  <2>1. result'[c] \in Promise!Allowed(req[c], since[c] .. world)
    BY <1>2, PromiseAllows DEF Holds, Finished, Span
  <2>2. ph' = [ph EXCEPT ![c] = "answered"] /\ ph[c] = "pending"
    BY <1>2
  <2>3. an' = [an EXCEPT ![c] = result'[c]]
    BY <1>2
  <2> QED BY <1>2, <2>1, <2>2, <2>3 DEF Promise!Return
<1>3. ASSUME \A d \in Calls :
                 \/ pc'[d] = pc[d] /\ result'[d] = result[d]
                 \/ pc[d] \notin {"idle", "done"} /\ pc'[d] \notin {"idle", "done"},
             UNCHANGED <<world, req, since>>
      PROVE  UNCHANGED Promise!promiseVars
  <2>1. ph' = ph /\ an' = an
    BY <1>3
  <2> QED BY <1>3, <2>1 DEF Promise!promiseVars
<1>4. ASSUME NEW c \in Calls, Step(c)
      PROVE  Promise!Return(c) \/ UNCHANGED Promise!promiseVars
  <2>1. CASE Publish(c)
    BY <2>1, <1>3 DEF Publish, Followers
  <2>2. CASE ~Publish(c)
    <3>1. /\ pc[c] \notin {"idle", "done"} /\ pc'[c] # "idle"
          /\ \A d \in Calls \ {c} : pc'[d] = pc[d] /\ result'[d] = result[d]
          /\ UNCHANGED <<world, req, since>>
      BY <1>4, <2>2 DEF Step, Parse, Canonicalize, Lookup, LookupHit, LookupJoin, LookupLead,
         Route, Evaluate, CheckAfter, Resolve, CheckElapsed, Settle, GoTo, Exit
    <3> QED BY <3>1, <1>2, <1>3
  <2> QED BY <2>1, <2>2
<1>5. ASSUME NEW c \in Calls, Expire(c) PROVE UNCHANGED Promise!promiseVars
  BY <1>5, <1>3 DEF Expire
<1>6. ASSUME NEW k \in Keys, Evict(k) PROVE UNCHANGED Promise!promiseVars
  BY <1>6, <1>3 DEF Evict
<1>7. CASE AdvanceWorld
  BY <1>7 DEF AdvanceWorld, Promise!Next, Promise!AdvanceWorld
<1>8. CASE UNCHANGED vars
  BY <1>8, <1>3 DEF vars
<1> QED
  BY <1>1, <1>4, <1>5, <1>6, <1>7, <1>8 DEF Next, Promise!Next

\* If requests with one key mean the same, the pipeline, with its cache, its
\* single flight and its deadlines, is seen from outside as EvalPromise.
THEOREM RefinesPromise ==
    FormsAreSound => (Spec => Promise!Init /\ [][Promise!Next]_(Promise!promiseVars))
<1> SUFFICES ASSUME FormsAreSound
             PROVE  Spec => Promise!Init /\ [][Promise!Next]_(Promise!promiseVars)
  OBVIOUS
<1>1. Init => Promise!Init
  BY DEF Init, Promise!Init, Promise!SomeRequest, SomeRequest
<1>2. TypeInv /\ TypeInv' /\ Coordinated /\ Holds' /\ [Next]_vars
        => [Promise!Next]_(Promise!promiseVars)
  BY StepImplements
<1> QED BY <1>1, <1>2, TypeInvCorrect, CoordinatedCorrect, HoldsCorrect, PTL DEF Spec
=============================================================================
