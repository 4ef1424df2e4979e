---------------------------- MODULE Session_proofs ----------------------------
(***************************************************************************)
(* Session keeps its types, and its answers are fresh if keys tell results *)
(* and nothing that reads the world is cached: for any expressions, any    *)
(* size of the cache and whatever it evicts.                               *)
(***************************************************************************)
EXTENDS Session, TLAPS, FiniteSetTheorems

\* Asking q, the last disjuncts of Next.
Asks(q) == Refuse(q) \/ AskAround(q) \/ AskHit(q) \/ AskMiss(q)
LEMMA StepIs ==
    ASSUME [Next]_vars
    PROVE  \/ ~Ends /\ \E q \in AllQuestions : Asks(q) /\ (q \in Questions \/ (asks = 0 /\ world = 0))
           \/ AdvanceWorld
           \/ UNCHANGED vars
<1>1. CASE UNCHANGED vars
  BY <1>1
<1>2. CASE AdvanceWorld
  BY <1>2
<1>3. CASE ~Ends /\ \E q \in IF asks = 0 /\ world = 0 THEN AllQuestions ELSE Questions : Asks(q)
  BY <1>3 DEF Questions
<1> QED BY <1>1, <1>2, <1>3 DEF Next, Asks

\* A value a question has is a result, or the failure.
LEMMA ValuesAreResults ==
    ASSUME NEW q \in AllQuestions, NEW w \in 0 .. MaxWorld
    PROVE  q.value[w] \in Results \cup {Failure} /\ q.key \in Keys /\ q.domain \in DomainsOf
  BY DEF Results, Keys, DomainsOf

TypeInv == TypeOK /\ IsFiniteSet(DOMAIN held)

\* When a result is held, what gives way leaves room for it.
LEMMA HoldKeeps ==
    ASSUME TypeInv, NEW k \in Keys, NEW r \in Results, NEW kept \in SUBSET DOMAIN held,
           Cardinality(kept) < MaxHeld,
           held' = [j \in kept \cup {k} |-> IF j \in kept THEN held[j] ELSE r]
    PROVE  /\ held' \in [DOMAIN held' -> Results] /\ DOMAIN held' \subseteq Keys
           /\ IsFiniteSet(DOMAIN held') /\ Cardinality(DOMAIN held') <= MaxHeld
<1>1. DOMAIN held' = kept \cup {k}
  OBVIOUS
<1>2. \A j \in kept : held[j] \in Results /\ j \in Keys
  BY DEF TypeInv, TypeOK
<1>3. IsFiniteSet(kept) /\ Cardinality(kept) \in Nat
  BY FS_Subset, FS_CardinalityType DEF TypeInv
<1>4. IsFiniteSet(kept \cup {k}) /\ Cardinality(kept \cup {k}) <= Cardinality(kept) + 1
  <2>1. IsFiniteSet(kept \cup {k}) /\ (Cardinality(kept \cup {k}) = Cardinality(kept) \/ Cardinality(kept \cup {k}) = Cardinality(kept) + 1)
    BY <1>3, FS_AddElement
  <2> QED BY <1>3, <2>1
<1>5. Cardinality(kept) + 1 <= MaxHeld /\ Cardinality(kept \cup {k}) \in Nat
  BY <1>3, <1>4, FS_CardinalityType, SessionAssumption DEF SessionAssumption
<1> QED BY <1>1, <1>2, <1>3, <1>4, <1>5, SessionAssumption DEF SessionAssumption

\* Asking keeps the types.
LEMMA AskKeepsTypes ==
    ASSUME TypeInv, ~Ends, NEW q \in AllQuestions, Asks(q)
    PROVE  TypeInv'
<1>1. q.value[world] \in Results \cup {Failure} /\ q.key \in Keys /\ q.domain \in DomainsOf
  BY ValuesAreResults DEF TypeInv, TypeOK
<1>2. asks + 1 \in 0 .. MaxAsks /\ "none" \in DomainsOf
  BY SessionAssumption DEF SessionAssumption, TypeInv, TypeOK, Ends, DomainsOf
<1>3. ASSUME NEW r \in Results \cup {Failure}, NEW d \in DomainsOf, NEW hit \in BOOLEAN, Answering(q, r, d, hit),
             held' \in [DOMAIN held' -> Results], DOMAIN held' \subseteq Keys, IsFiniteSet(DOMAIN held'), Cardinality(DOMAIN held') <= MaxHeld
      PROVE  TypeInv'
  <2>1. world' = world /\ at' = world /\ asks' = asks + 1 /\ asked' = q /\ answer' = [result |-> r, domain |-> d, hit |-> hit]
    BY <1>3 DEF Answering, Answer
  <2>2. answer' \in [result : Results \cup {Failure}, domain : DomainsOf, hit : BOOLEAN]
    BY <1>3, <2>1
  <2>3. world' \in 0 .. MaxWorld /\ at' \in 0 .. world'
    BY <2>1, SessionAssumption DEF SessionAssumption, TypeInv, TypeOK
  <2> QED BY <1>2, <1>3, <2>1, <2>2, <2>3 DEF TypeInv, TypeOK, Askable
<1>4. held \in [DOMAIN held -> Results] /\ DOMAIN held \subseteq Keys /\ IsFiniteSet(DOMAIN held) /\ Cardinality(DOMAIN held) <= MaxHeld
  BY DEF TypeInv, TypeOK
<1>5. CASE Refuse(q)
  <2>1. Answering(q, Failure, "none", FALSE) /\ held' = held
    BY <1>5 DEF Refuse
  <2> QED BY <1>2, <1>3, <1>4, <2>1
<1>6. CASE AskAround(q)
  <2>1. Answering(q, q.value[world], q.domain, FALSE) /\ held' = held
    BY <1>6 DEF AskAround, Fresh
  <2> QED BY <1>1, <1>3, <1>4, <2>1
<1>7. CASE AskHit(q)
  <2>1. Answering(q, held[q.key], q.domain, TRUE) /\ held' = held /\ q.key \in DOMAIN held
    BY <1>7 DEF AskHit
  <2>2. held[q.key] \in Results
    BY <1>4, <2>1
  <2> QED BY <1>1, <1>3, <1>4, <2>1, <2>2
<1>8. CASE AskMiss(q)
  <2>1. Answering(q, q.value[world], q.domain, FALSE)
    BY <1>8 DEF AskMiss, Fresh
  <2>2. CASE held' = held
    BY <1>1, <1>3, <1>4, <2>1, <2>2
  <2>3. CASE held' # held
    <3>1. PICK kept \in SUBSET DOMAIN held :
            /\ Cardinality(kept) < MaxHeld /\ q.value[world] # Failure
            /\ held' = [k \in kept \cup {q.key} |-> IF k \in kept THEN held[k] ELSE q.value[world]]
      BY <1>8, <2>3 DEF AskMiss, Fresh
    <3> QED BY <1>1, <1>3, <2>1, <3>1, HoldKeeps
  <2> QED BY <2>2, <2>3
<1> QED BY <1>5, <1>6, <1>7, <1>8 DEF Asks

LEMMA TypesAlways == Spec => []TypeInv
<1>1. Init => TypeInv
  <2> SUFFICES ASSUME Init PROVE TypeInv
    OBVIOUS
  <2>1. DOMAIN held = {} /\ held \in [DOMAIN held -> Results] /\ IsFiniteSet(DOMAIN held) /\ Cardinality(DOMAIN held) = 0
    BY FS_EmptySet DEF Init, NoKeys
  <2> QED BY <2>1, SessionAssumption DEF SessionAssumption, Init, Answer, TypeInv, TypeOK, Askable, DomainsOf
<1>2. TypeInv /\ [Next]_vars => TypeInv'
  <2> SUFFICES ASSUME TypeInv, [Next]_vars PROVE TypeInv'
    OBVIOUS
  <2>1. CASE AdvanceWorld
    BY <2>1, SessionAssumption DEF SessionAssumption, AdvanceWorld, TypeInv, TypeOK
  <2>2. CASE UNCHANGED vars
    BY <2>2 DEF vars, TypeInv, TypeOK
  <2> QED BY <2>1, <2>2, StepIs, AskKeepsTypes
<1> QED BY <1>1, <1>2, PTL DEF Spec

\* Variables keep their types, and the cache its size, for any expressions.
THEOREM SessionTypeCorrect == Spec => []TypeOK
<1>1. TypeInv => TypeOK
  BY DEF TypeInv
<1> QED BY <1>1, TypesAlways, PTL
-----------------------------------------------------------------------------
\* Whatever is held is the result of a question of its key, in some world; but
\* for the one question of a session that ends with it.
HeldIsTrue ==
    \/ asks > 0 /\ asked.once
    \/ \A k \in DOMAIN held : \E q \in Questions, w \in 0 .. MaxWorld :
           Cacheable(q) /\ q.key = k /\ held[k] = q.value[w]

LEMMA AskKeepsFresh ==
    ASSUME KeysTellResults(Questions), TypeInv, HeldIsTrue, ~Ends,
           NEW q \in AllQuestions, Asks(q), q \in Questions \/ (asks = 0 /\ world = 0), asks = 0 => held = NoKeys
    PROVE  HeldIsTrue' /\ FreshAnswer' /\ asks' > 0
<1>1. world \in 0 .. MaxWorld /\ asks \in Nat
  BY SessionAssumption DEF SessionAssumption, TypeInv, TypeOK
<1>2. \A k \in DOMAIN held : \E p \in Questions, w \in 0 .. MaxWorld : Cacheable(p) /\ p.key = k /\ held[k] = p.value[w]
  BY <1>1 DEF HeldIsTrue, Ends
<1>3. asks' = asks + 1 /\ asked' = q /\ at' = world
  BY DEF Asks, Refuse, AskAround, AskHit, AskMiss, Answering
<1>4. ASSUME NEW k \in DOMAIN held', q.once \notin BOOLEAN \/ ~q.once
      PROVE  \E p \in Questions, w \in 0 .. MaxWorld : Cacheable(p) /\ p.key = k /\ held'[k] = p.value[w]
  <2>1. CASE k \in DOMAIN held /\ held'[k] = held[k]
    BY <1>2, <2>1
  <2>2. CASE ~(k \in DOMAIN held /\ held'[k] = held[k])
    <3>1. AskMiss(q) /\ held' # held
      BY <2>2 DEF Asks, Refuse, AskAround, AskHit
    <3>2. PICK kept \in SUBSET DOMAIN held :
            held' = [j \in kept \cup {q.key} |-> IF j \in kept THEN held[j] ELSE q.value[world]]
      BY <3>1 DEF AskMiss, Fresh
    <3>3. k = q.key /\ held'[k] = q.value[world] /\ Cacheable(q)
      BY <2>2, <3>1, <3>2 DEF AskMiss
    <3>4. q \in Questions
      BY <1>4, QuestionAssumption DEF QuestionAssumption, Questions
    <3> QED BY <1>1, <3>3, <3>4
  <2> QED BY <2>1, <2>2
<1>5. HeldIsTrue'
  <2>1. CASE q.once
    BY <1>1, <1>3, <2>1 DEF HeldIsTrue
  <2>2. CASE ~q.once
    BY <1>4, <2>2 DEF HeldIsTrue
  <2> QED BY <2>1, <2>2
<1>6. answer'.result = IF q.fails \/ q.domain = "none" THEN Failure ELSE q.value[world]
  <2>1. CASE Refuse(q)
    BY <2>1 DEF Refuse, Answering, Answer
  <2>2. CASE AskAround(q)
    BY <2>2 DEF AskAround, Fresh, Answering, Answer
  <2>3. CASE AskMiss(q)
    BY <2>3 DEF AskMiss, Fresh, Answering, Answer, Cacheable
  <2>4. CASE AskHit(q)
    <3>1. q.key \in DOMAIN held /\ Cacheable(q) /\ answer'.result = held[q.key]
      BY <2>4 DEF AskHit, Answering, Answer
    <3>2. q \in Questions
      BY <3>1 DEF NoKeys
    <3>3. PICK p \in Questions, w \in 0 .. MaxWorld : Cacheable(p) /\ p.key = q.key /\ held[q.key] = p.value[w]
      BY <1>2, <3>1
    <3>4. p.value[w] = q.value[world]
      BY <1>1, <3>1, <3>2, <3>3 DEF KeysTellResults
    <3> QED BY <3>1, <3>3, <3>4 DEF Cacheable
  <2> QED BY <2>1, <2>2, <2>3, <2>4 DEF Asks
<1> QED BY <1>1, <1>3, <1>5, <1>6 DEF FreshAnswer

\* If questions that share a cache key have one value, the same in every world,
\* then every answer is what evaluating the question itself would have given,
\* whatever was asked before and whatever the cache evicts.
THEOREM FreshAnswers == KeysTellResults(Questions) => (Spec => []FreshAnswer)
<1> SUFFICES ASSUME KeysTellResults(Questions) PROVE Spec => []FreshAnswer
  OBVIOUS
<1> DEFINE Inv == HeldIsTrue /\ FreshAnswer /\ (asks = 0 => held = NoKeys)
<1>1. Init => Inv
  BY DEF Init, HeldIsTrue, FreshAnswer, NoKeys
<1>2. TypeInv /\ Inv /\ [Next]_vars => Inv'
  <2> SUFFICES ASSUME TypeInv, Inv, [Next]_vars PROVE Inv'
    OBVIOUS
  <2>1. CASE AdvanceWorld \/ UNCHANGED vars
    BY <2>1 DEF AdvanceWorld, vars, HeldIsTrue, FreshAnswer
  <2>2. CASE ~Ends /\ \E q \in AllQuestions : Asks(q) /\ (q \in Questions \/ (asks = 0 /\ world = 0))
    <3>1. HeldIsTrue' /\ FreshAnswer' /\ asks' > 0
      BY <2>2, AskKeepsFresh
    <3> QED BY <3>1
  <2> QED BY <2>1, <2>2, StepIs
<1>3. Inv => FreshAnswer
  OBVIOUS
<1> HIDE DEF Inv
<1> QED BY <1>1, <1>2, <1>3, TypesAlways, PTL DEF Spec
=============================================================================
