----------------------------- MODULE EvalSession -----------------------------
(***************************************************************************)
(* A session with the parts put in that Session takes as given: what       *)
(* canonicalizer, router and domains make of an expression.                *)
(***************************************************************************)
EXTENDS DomainValues, Session, FiniteSetsExt, TLC

CONSTANTS
    Exprs,       \* the expressions asked for, as the parser delivers them
    Once         \* others, which are all a session asks for

\* What becomes of an expression on its way to the cache.
Question(e, once) ==
    LET c == Canonical(e)
        d == Route(c) IN
    [expr |-> e, canonical |-> c, key |-> Serialize(c), domain |-> d,
     fails |-> Failed(c), bypasses |-> IsNondeterministic(c),
     value |-> [w \in 0 .. MaxWorld |-> Evaluate(d, c, w)],
     once |-> once]
QuestionsAsked == {Question(e, FALSE) : e \in Exprs} \cup {Question(e, TRUE) : e \in Once}

(***************************************************************************)
(* Properties; those of one expression are looked at when it is the first. *)
(***************************************************************************)
\* Canonicalization keeps which domain answers and what it answers, errors
\* included, and is idempotent (its module comment): a canonical AST is its own
\* canonical form, so the form shown by --canonical, asked for again, hits.
CanonicalSound == asks = 1 =>
    LET d == Route(asked.expr) IN
    /\ IF asked.fails THEN Evaluate(d, asked.expr, world) = Error
       ELSE asked.domain = d /\ asked.value[world] = Evaluate(d, asked.expr, world)
    /\ ~asked.fails => Canonical(asked.canonical) = asked.canonical

\* What a key says when it is read back as an expression over Env.
RECURSIVE ReadKey(_)
ReadKey(t) ==
    LET part(i) == ReadKey((CHOOSE p \in t.args : p[1] = i)[2])
        repeated(p) == ApplyIn("arithmetic", IF t.head = "+" THEN "*" ELSE "^",
                               ReadKey(p[2]), <<p[1], 1>>)
        unit == IF t.head = "+" THEN Zero ELSE <<1, 1>>
    IN  CASE t.head = ""           -> t.num
          [] t.head \in DOMAIN Env -> Env[t.head]
          [] Commutes(t.head)      ->
                FoldSet(LAMBDA p, q : ApplyIn("arithmetic", t.head, q, repeated(p)), unit, t.args)
          [] t.head = "-" /\ Cardinality(t.args) = 1 -> Negated(part(1))
          [] OTHER -> ApplyIn("arithmetic", t.head, part(1), part(2))

\* What the key of e does not show: whether digits are those of a BigNumber,
\* where a string with brackets inside ends, and whether a call with the name
\* of a literal is one.
Unshown(e) ==
    {<<n.kind, n.head, n.num>> : n \in {m \in NodesOutside(e, {}) :
        \/ m.kind = "bignumber"
        \/ m.kind = "str" /\ m.head \in DOMAIN Broken
        \/ m.kind = "call" /\ m.head \in {"list", "matrix", "complex", "str"}}}

ShownWithValue == {<<q.key, Unshown(q.canonical), q.value>> : q \in {r \in AllQuestions : Cacheable(r)}}

\* The cache key tells the result: questions asked in one session that share
\* it have one value in every world, and the key of an arithmetic expression
\* can be evaluated in its place.  Of all questions, those that share a key
\* have one value unless they differ in what is Unshown, as do 4^2 and the
\* BigNumber 16, which the code does confuse.  (The order of the factors of a
\* matrix product is not shown either: MCSessionProduct.)
KeyTellsMeaning ==
    /\ asks = 0 => KeysTellResults(Questions)
    /\ asks = 0 => Cardinality(ShownWithValue) = Cardinality({<<s[1], s[2]>> : s \in ShownWithValue})
    /\ asks = 1 /\ ~asked.fails /\ asked.domain = "arithmetic" =>
         Scalar(ReadKey(asked.key[1])) = asked.value[world]

(***************************************************************************)
(* What a comment of the code says of the router.                          *)
(***************************************************************************)
\* fx.rs: mod and abs wrapped around fx() are evaluated by the fx domain
\* ("`abs(x)`...; needed for abs(-fx(...))"), and never misroute it.
WrappedRatesEvaluate == asks > 0 =>
    LET c == asked.canonical IN
    Supports("fx", c) /\ Evaluate("fx", c, at) # Error => answer.result = Evaluate("fx", c, at)
=============================================================================
