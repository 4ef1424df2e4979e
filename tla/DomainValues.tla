---------------------------- MODULE DomainValues ----------------------------
(***************************************************************************)
(* What the domains make of an expression: the scalar evaluators of the    *)
(* arithmetic, precision, statistics, time, unit and fx domains, and the   *)
(* list and matrix arithmetic of the vector and matrix domains.            *)
(*                                                                         *)
(* All errors are one result, Error.  The library functions kept are the   *)
(* ones that mix with other domains: mod and abs (the parser's % and       *)
(* abs(...)), precision, the statistics of one list, convert, fx and now;  *)
(* the last two read the world w, a rate table or a clock.                 *)
(***************************************************************************)
EXTENDS Canonicalizer, Router, TLC

CONSTANTS
    Env,             \* EvalContext.vars: variable name -> rational
    MAX_MATRIX_DIM   \* 1000 in the code

ASSUME EnvAssumption == DOMAIN Env \subseteq STRING /\ MAX_MATRIX_DIM \in Nat \ {0}

Result(tag, rows) == [tag |-> tag, rows |-> rows]
Error             == Result("error", <<>>)
Scalar(q)  == IF q = Undefined THEN Error ELSE Result("scalar", <<<<q>>>>)
Exact(q)   == IF q = Undefined THEN Error ELSE Result("exact", <<<<q>>>>)
Vector(s)  == Result("vector", <<s>>)
MatrixOf(m) == Result("matrix", m)

AllDefined(s) == \A i \in DOMAIN s : s[i] # Undefined
SeqSum(s)     == FoldFunction(LAMBDA a, b : Apply("+", a, b), Zero, s)

(***************************************************************************)
(* Scalars                                                                 *)
(***************************************************************************)
\* convert takes two names of units as string literals; one dimension is kept
Lengths == ("m" :> <<1, 1>>) @@ ("km" :> <<1000, 1>>)
ConvertArgs(args, q) ==
    IF Len(args) = 3 /\ \A i \in {2, 3} : args[i].kind = "str" /\ args[i].head \in DOMAIN Lengths
    THEN Apply("/", Apply("*", q, Lengths[args[2].head]), Lengths[args[3].head])
    ELSE Undefined

ReadBigNumber(d, q) ==
    CASE d = "precision"                         -> q
      [] d \in {"vector", "time", "unit", "fx"}  -> Rounded(q)
      [] OTHER                                   -> Undefined

ApplyIn(d, op, a, b) ==
    IF a = Undefined \/ b = Undefined THEN Undefined
    ELSE IF d = "precision" /\ op = "mod" /\ ~(IsInteger(a) /\ IsInteger(b)) THEN Undefined
    ELSE Apply(op, a, b)

Negated(q)  == IF q = Undefined THEN q ELSE <<-q[1], q[2]>>
Absolute(q) == IF q = Undefined THEN q ELSE <<Magnitude(q[1]), q[2]>>

TakesModAbs(d) == d \in {"arithmetic", "precision", "unit", "fx"}

\* eval_basic_stat on the values of a non-empty list
ListStatistic(name, s) ==
    CASE name = "sum"  -> SeqSum(s)
      [] name = "mean" -> Apply("/", SeqSum(s), <<Len(s), 1>>)

RECURSIVE ScalarIn(_, _, _)
ScalarIn(d, e, w) ==
    LET arg(i) == ScalarIn(d, e.kids[i], w)
        elems  == [i \in DOMAIN e.kids[1].kids |-> ScalarIn(d, e.kids[1].kids[i], w)]
    IN  CASE e.kind = "number"    -> e.num
          [] e.kind = "bignumber" -> ReadBigNumber(d, e.num)
          [] e.kind = "variable"  -> IF e.head \in DOMAIN Env THEN Env[e.head] ELSE Undefined
          [] e.kind = "binary"    -> ApplyIn(d, e.head, arg(1), arg(2))
          [] e.kind = "neg"       -> Negated(arg(1))
          [] e.kind = "call" /\ e.head = "mod" /\ TakesModAbs(d) -> ApplyIn(d, "mod", arg(1), arg(2))
          [] e.kind = "call" /\ e.head = "abs" /\ TakesModAbs(d) -> Absolute(arg(1))
          [] e.kind = "call" /\ e.head \in {"sum", "mean"} /\ d = "statistics" ->
                IF IsList(e.kids[1]) /\ elems # <<>> /\ AllDefined(elems)
                THEN ListStatistic(e.head, elems) ELSE Undefined
          [] e.kind = "call" /\ e.head = "convert" /\ d = "unit" -> ConvertArgs(e.kids, arg(1))
          [] e.kind = "call" /\ e.head = "fx" /\ d = "fx"    -> ApplyIn(d, "*", arg(1), <<w + 2, 1>>)
          [] e.kind = "call" /\ e.head = "now" /\ d = "time" -> <<w, 1>>
          [] OTHER -> Undefined

(***************************************************************************)
(* Lists and matrices                                                      *)
(***************************************************************************)
\* list_to_vector and the scalar evaluator of the vector domain, which
\* knows no function calls
VectorScalar(e) == IF \E n \in NodesOutside(e, {}) : n.kind = "call"
                   THEN Undefined ELSE ScalarIn("vector", e, 0)
Elements(e)     == [i \in DOMAIN e.kids |-> VectorScalar(e.kids[i])]

VectorLiteral(s) == IF AllDefined(s) THEN Vector(s) ELSE Error
PairWise(op, s, t) == IF Len(s) # Len(t) THEN Error
                 ELSE Vector([i \in DOMAIN s |-> Apply(op, s[i], t[i])])
Scaled(q, s)  == [i \in DOMAIN s |-> Apply("*", q, s[i])]

\* the operands as sequences of values; ll, rl: which of them are lists
OnSequences(op, ll, rl, s, t) ==
    CASE ~AllDefined(s \o t) -> Error
      [] ll /\ rl /\ op \in {"+", "-", "*"} -> PairWise(op, s, t)
      [] ll /\ ~rl /\ op = "*" -> Vector(Scaled(t[1], s))
      [] ~ll /\ rl /\ op = "*" -> Vector(Scaled(s[1], t))
      [] OTHER -> Error
AsSequence(e) == IF IsList(e) THEN Elements(e) ELSE <<VectorScalar(e)>>
VectorBinary(op, l, r) == OnSequences(op, IsList(l), IsList(r), AsSequence(l), AsSequence(r))

VectorValue(e) ==
    CASE IsList(e) -> VectorLiteral(Elements(e))
      [] e.kind = "binary" /\ (IsList(e.kids[1]) \/ IsList(e.kids[2])) ->
            VectorBinary(e.head, e.kids[1], e.kids[2])
      [] e.kind = "neg" /\ IsList(e.kids[1]) -> VectorBinary("*", Num(-1), e.kids[1])
      [] OTHER -> Scalar(VectorScalar(e))

EntryWise(op, a, b) ==
    IF Len(a) # Len(b) \/ Len(a[1]) # Len(b[1]) THEN Error
    ELSE MatrixOf([i \in DOMAIN a |-> [j \in DOMAIN a[1] |-> Apply(op, a[i][j], b[i][j])]])
RowsByColumns(a, b) ==
    IF Len(a[1]) # Len(b) THEN Error
    ELSE MatrixOf([i \in DOMAIN a |-> [j \in DOMAIN b[1] |->
            SeqSum([k \in DOMAIN b |-> Apply("*", a[i][k], b[k][j])])]])
ScaledBy(op, m, q) ==
    MatrixOf([i \in DOMAIN m |-> [j \in DOMAIN m[1] |-> Apply(op, m[i][j], q)]])

MatrixBinary(op, a, b) ==
    LET am == a.tag = "matrix"  bm == b.tag = "matrix"  p == a.rows[1][1]  q == b.rows[1][1]
    IN  CASE Error \in {a, b}                 -> Error
          [] ~am /\ ~bm                       -> Scalar(Apply(op, p, q))
          [] am /\ bm /\ op \in {"+", "-"}    -> EntryWise(op, a.rows, b.rows)
          [] am /\ bm /\ op = "*"             -> RowsByColumns(a.rows, b.rows)
          [] ~am /\ bm /\ op = "*"            -> ScaledBy("*", b.rows, p)
          [] am /\ ~bm /\ op = "*"            -> ScaledBy("*", a.rows, q)
          [] am /\ ~bm /\ op = "/" /\ q[1] # 0 -> ScaledBy("/", a.rows, q)
          [] OTHER                            -> Error

\* validate_matrix_dimensions; the parser lets no literal without an element pass
MatrixRows(rows) ==
    IF /\ Len(rows) <= MAX_MATRIX_DIM /\ Len(rows[1]) <= MAX_MATRIX_DIM
       /\ \A i \in DOMAIN rows : Len(rows[i]) = Len(rows[1]) /\ AllDefined(rows[i])
    THEN MatrixOf(rows) ELSE Error
MatrixLiteral(e) ==
    MatrixRows([i \in DOMAIN e.kids |-> [j \in DOMAIN e.kids[i].kids |-> ScalarIn("matrix", e.kids[i].kids[j], 0)]])

RECURSIVE MatrixValue(_)
MatrixValue(e) ==
    CASE e.kind = "matrix" -> MatrixLiteral(e)
      [] e.kind = "binary" -> MatrixBinary(e.head, MatrixValue(e.kids[1]), MatrixValue(e.kids[2]))
      [] e.kind = "neg"    -> MatrixBinary("*", Scalar(<<-1, 1>>), MatrixValue(e.kids[1]))
      [] OTHER             -> Scalar(ScalarIn("matrix", e, 0))

(***************************************************************************)
(* domain.evaluate.  Only the precision domain looks at precision(N, e),   *)
(* and only at the root.                                                   *)
(***************************************************************************)
PrecisionBody(e) == IF e.kind = "call" /\ e.head = "precision" THEN e.kids[2] ELSE e

Evaluate(d, e, w) ==
    CASE d = "precision" -> Exact(ScalarIn(d, PrecisionBody(e), w))
      [] d = "vector"    -> VectorValue(e)
      [] d = "matrix"    -> MatrixValue(e)
      [] d \in {"arithmetic", "statistics", "time", "unit", "fx"} -> Scalar(ScalarIn(d, e, w))
      [] OTHER           -> Error
=============================================================================
