--------------------------- MODULE LinearAlgebra ----------------------------
(***************************************************************************)
(* Vectors and matrices: math/vector.rs, math/matrix.rs and the functions  *)
(* of the vector and matrix domains, on top of the list and matrix         *)
(* arithmetic of DomainValues.  A vector is a sequence of rationals.       *)
(*                                                                         *)
(* A length or a cosine is a square root; it is kept as a "root", the      *)
(* signed square of its value, which tells zero, sign and order apart.     *)
(* Determinant and inverse are the library's (nalgebra).                   *)
(***************************************************************************)
EXTENDS Conversions

CONSTANT MAX_MATRIX_DIM      \* 1000 in the code

D == INSTANCE DomainValues WITH NameOrder <- <<>>, Broken <- <<>>, Features <- {}

SumOf(s)       == FoldLeft(Plus, Zero, s)
SquareOf(q)    == Times(q, q)
SignedSquare(q) == IF q[1] < 0 THEN Minus(Zero, SquareOf(q)) ELSE SquareOf(q)
Column(m, j)   == [i \in DOMAIN m |-> m[i][j]]
Square(m)      == Len(m) = Len(m[1])

SumProduct(a, b)       == SumOf([i \in DOMAIN a |-> Times(a[i], b[i])])
MagnitudeSquared(v)    == SumProduct(v, v)
Dot(a, b)              == IF Len(a) = Len(b) THEN Ok(SumProduct(a, b)) ELSE BadArguments
Cross(a, b) ==
    IF Len(a) # 3 \/ Len(b) # 3 THEN BadArguments
    ELSE Ok([i \in 1 .. 3 |-> LET j == (i % 3) + 1  k == (j % 3) + 1 IN Minus(Times(a[j], b[k]), Times(a[k], b[j]))])
ScalarTriple(a, b, c)  == IF Len(a) # 3 THEN BadArguments ELSE AndThen(Cross(b, c), LAMBDA v : Dot(a, v))
ScalarMulVec(v, q)     == [i \in DOMAIN v |-> Times(v[i], q)]
Normalize(v) ==
    IF MagnitudeSquared(v) = Zero THEN BadArguments
    ELSE Ok([i \in DOMAIN v |-> Over(SignedSquare(v[i]), MagnitudeSquared(v))])
CosineSimilarity(a, b) ==
    IF Len(a) # Len(b) \/ MagnitudeSquared(a) = Zero \/ MagnitudeSquared(b) = Zero THEN BadArguments
    ELSE Ok(Over(SignedSquare(SumProduct(a, b)), Times(MagnitudeSquared(a), MagnitudeSquared(b))))
\* the angle is told by its cosine
Angle(a, b) == CosineSimilarity(a, b)
Project(a, b) ==
    AndThen(Dot(a, b), LAMBDA d : IF MagnitudeSquared(b) = Zero THEN BadArguments
                                  ELSE Ok(ScalarMulVec(b, Over(d, MagnitudeSquared(b)))))
Reflect(v, n) ==
    AndThen(Dot(v, n), LAMBDA d : IF MagnitudeSquared(n) = Zero THEN BadArguments
                                  ELSE Ok([i \in DOMAIN v |-> Minus(v[i], ScalarMulVec(n, Over(Times(Whole(2), d), MagnitudeSquared(n)))[i])]))
Difference(a, b)       == [i \in DOMAIN a |-> Minus(a[i], b[i])]
Euclidean(a, b)        == IF Len(a) = Len(b) THEN Ok(MagnitudeSquared(Difference(a, b))) ELSE BadArguments
Manhattan(a, b)        == IF Len(a) = Len(b) THEN Ok(SumOf([i \in DOMAIN a |-> AbsOf(Minus(a[i], b[i]))])) ELSE BadArguments
Outer(a, b)            == [i \in DOMAIN a |-> [j \in DOMAIN b |-> Times(a[i], b[j])]]
LerpScalar(a, b, t)    == Plus(a, Times(t, Minus(b, a)))
LerpVec(a, b, t)       == IF Len(a) = Len(b) THEN Ok([i \in DOMAIN a |-> LerpScalar(a[i], b[i], t)]) ELSE BadArguments
-----------------------------------------------------------------------------
Without(m, i, j) == WrittenOut([r \in 1 .. Len(m) - 1 |-> RemoveAt(m[IF r < i THEN r ELSE r + 1], j)])
RECURSIVE Determinant(_)
Determinant(m) ==
    IF Len(m) = 1 THEN m[1][1]
    ELSE SumOf([j \in DOMAIN m |-> Times(Whole(IF j % 2 = 1 THEN 1 ELSE -1), Times(m[1][j], Determinant(Without(m, 1, j))))])
Cofactor(m, i, j) == Times(Whole(IF (i + j) % 2 = 0 THEN 1 ELSE -1), IF Len(m) = 1 THEN Whole(1) ELSE Determinant(Without(m, i, j)))
TryInverse(m) ==
    LET d == Determinant(m)
    IN  IF d = Zero THEN BadArguments ELSE Ok(WrittenOut([i \in DOMAIN m |-> [j \in DOMAIN m |-> Over(Cofactor(m, j, i), d)]]))

Det(m)       == IF Square(m) THEN Ok(Determinant(m)) ELSE BadArguments
Transpose(m) == [j \in DOMAIN m[1] |-> Column(m, j)]
InverseOf(m) == IF Square(m) THEN TryInverse(m) ELSE BadArguments
IdentityOf(n) == IF n > MAX_MATRIX_DIM THEN BadArguments
                 ELSE Ok([i \in 1 .. n |-> [j \in 1 .. n |-> Whole(IF i = j THEN 1 ELSE 0)]])
-----------------------------------------------------------------------------
\* What the domains answer: DomainValues' results, and roots.
Answered(outcome, Form(_)) == IF outcome.ok THEN Form(outcome.is) ELSE D!Error
Root(q)   == D!Result("root", <<<<q>>>>)
Roots(s)  == D!Result("roots", <<s>>)

VectorFunctions == [dot |-> 2, cross |-> 2, norm |-> 1, angle |-> 2, normalize |-> 1, scalar_triple |-> 3, cosine_similarity |-> 2,
                    project |-> 2, reflect |-> 2, euclidean |-> 2, manhattan |-> 2, outer |-> 2]
OnVectors(name, v) ==
    CASE name = "dot"               -> Answered(Dot(v[1], v[2]), D!Scalar)
      [] name = "cross"             -> Answered(Cross(v[1], v[2]), D!Vector)
      [] name = "norm"              -> IF v[1] = <<>> THEN D!Error ELSE Root(MagnitudeSquared(v[1]))
      [] name = "angle"             -> Answered(Angle(v[1], v[2]), LAMBDA c : D!Result("angle", <<<<c>>>>))
      [] name = "normalize"         -> Answered(Normalize(v[1]), Roots)
      [] name = "scalar_triple"     -> Answered(ScalarTriple(v[1], v[2], v[3]), D!Scalar)
      [] name = "cosine_similarity" -> Answered(CosineSimilarity(v[1], v[2]), Root)
      [] name = "project"           -> Answered(Project(v[1], v[2]), D!Vector)
      [] name = "reflect"           -> Answered(Reflect(v[1], v[2]), D!Vector)
      [] name = "euclidean"         -> Answered(Euclidean(v[1], v[2]), Root)
      [] name = "manhattan"         -> Answered(Manhattan(v[1], v[2]), D!Scalar)
      [] name = "outer"             -> D!MatrixOf(Outer(v[1], v[2]))

\* lerp takes two numbers or two vectors, not one of each
LerpOf(a, b, lists, t) ==
    CASE t = D!Undefined \/ ~D!AllDefined(a \o b) -> D!Error
      [] lists = {TRUE}  -> Answered(LerpVec(a, b, t), D!Vector)
      [] lists = {FALSE} -> D!Scalar(LerpScalar(a[1], b[1], t))
      [] OTHER           -> D!Error
EvalLerp(args) ==
    IF Len(args) # 3 THEN D!Error
    ELSE LerpOf(D!AsSequence(args[1]), D!AsSequence(args[2]), {IsList(args[1]), IsList(args[2])}, D!VectorScalar(args[3]))
OnLists(name, lists) == IF \A i \in DOMAIN lists : D!AllDefined(lists[i]) THEN OnVectors(name, lists) ELSE D!Error
EvalVectorCall(name, args) ==
    CASE name = "lerp" -> EvalLerp(args)
      [] name \notin DOMAIN VectorFunctions -> D!Error
      [] Len(args) # VectorFunctions[name]  -> D!Error
      [] \E i \in DOMAIN args : ~IsList(args[i]) -> D!Error
      [] OTHER -> OnLists(name, [i \in DOMAIN args |-> D!Elements(args[i])])
EvalVector(e) == IF e.kind = "call" THEN EvalVectorCall(e.head, e.kids) ELSE D!VectorValue(e)

RECURSIVE EvalMatrix(_)
EvalMatrixCall(name, v) ==
    CASE v = D!Error -> D!Error
      [] name = "identity" -> LET n == v.rows[1][1] IN
                              IF v.tag # "scalar" \/ ~IsInteger(n) \/ n[1] < 1 THEN D!Error
                              ELSE Answered(IdentityOf(n[1]), D!MatrixOf)
      [] v.tag # "matrix"  -> D!Error
      [] name = "det"       -> Answered(Det(v.rows), D!Scalar)
      [] name = "transpose" -> D!MatrixOf(Transpose(v.rows))
      [] name = "inverse"   -> Answered(InverseOf(v.rows), D!MatrixOf)
      [] OTHER -> D!Error
EvalMatrix(e) ==
    CASE e.kind = "binary" -> D!MatrixBinary(e.head, EvalMatrix(e.kids[1]), EvalMatrix(e.kids[2]))
      [] e.kind = "neg"    -> D!MatrixBinary("*", D!Scalar(Whole(-1)), EvalMatrix(e.kids[1]))
      [] e.kind = "call"   -> IF Len(e.kids) = 1 THEN EvalMatrixCall(e.head, EvalMatrix(e.kids[1])) ELSE D!Error
      [] OTHER             -> D!MatrixValue(e)
-----------------------------------------------------------------------------
(***************************************************************************)
(* What vectors and matrices are to obey.                                  *)
(***************************************************************************)
VectorRight(name, args, r) ==
    LET a   == D!Elements(args[1])
        b   == D!Elements(args[2])
        q   == r.rows[1][1]
        v   == r.rows[1]
        again(x, y) == OnVectors(name, <<x, y>>)
    IN  r # D!Error =>
        CASE name = "dot"     -> r = again(b, a) /\ ~Below(Times(MagnitudeSquared(a), MagnitudeSquared(b)), SquareOf(q))
          [] name = "cross"   -> /\ SumProduct(v, a) = Zero /\ SumProduct(v, b) = Zero
                                 /\ Plus(MagnitudeSquared(v), SquareOf(SumProduct(a, b))) = Times(MagnitudeSquared(a), MagnitudeSquared(b))
          [] name = "scalar_triple" -> q = Determinant(<<a, b, D!Elements(args[3])>>)
          [] name = "normalize"     -> SumOf([i \in DOMAIN v |-> AbsOf(v[i])]) = Whole(1)
          [] name = "angle"         -> r = again(b, a) /\ ~Below(Whole(1), AbsOf(q))
          [] name = "cosine_similarity" -> r = again(b, a) /\ ~Below(Whole(1), AbsOf(q)) /\ again(a, a) = Root(Whole(1))
          [] name = "project" -> SumProduct(Difference(a, v), b) = Zero /\ again(v, b) = r
          [] name = "reflect" -> again(v, b).rows[1] = a /\ MagnitudeSquared(v) = MagnitudeSquared(a)
          [] name = "euclidean" -> (q = Zero) = (a = b)
          [] name = "manhattan" -> /\ ~Below(SquareOf(q), MagnitudeSquared(Difference(a, b)))
                                   /\ ~Below(Times(Whole(Len(a)), MagnitudeSquared(Difference(a, b))), SquareOf(q))
          [] name = "outer"   -> \A i, j \in DOMAIN a : Minus(Times(r.rows[i][1], r.rows[j][Len(b)]), Times(r.rows[i][Len(b)], r.rows[j][1])) = Zero
          [] name = "lerp"    -> LET swapped == EvalLerp(<<args[2], args[1], BinaryOp("-", Num(1), args[3])>>) IN swapped = r
          [] OTHER            -> TRUE

MatrixRight(e, r) ==
    LET det(x) == EvalMatrix(Call("det", <<x>>))
        inner  == e.kids[1]
    IN  CASE e.kind = "call" /\ e.head = "inverse" /\ r # D!Error ->
                EvalMatrix(BinaryOp("*", e, inner)) = EvalMatrix(Call("identity", <<Num(Len(r.rows))>>))
          [] e.kind = "call" /\ e.head = "inverse" /\ EvalMatrix(inner).tag = "matrix" ->
                det(inner) \in {D!Error, D!Scalar(Zero)}
          [] e.kind = "call" /\ e.head = "det" /\ r # D!Error ->
                /\ det(Call("transpose", <<inner>>)) = r
                /\ inner.kind = "binary" /\ inner.head = "*" /\ D!Error \notin {det(inner.kids[1]), det(inner.kids[2])} =>
                      r = D!MatrixBinary("*", det(inner.kids[1]), det(inner.kids[2]))
          [] e.kind = "call" /\ e.head = "transpose" /\ r # D!Error /\ inner.kind = "binary" /\ inner.head = "*"
             /\ inner.kids[1].kind = "matrix" /\ inner.kids[2].kind = "matrix" ->
                r = EvalMatrix(BinaryOp("*", Call("transpose", <<inner.kids[2]>>), Call("transpose", <<inner.kids[1]>>)))
          [] OTHER -> TRUE
=============================================================================
