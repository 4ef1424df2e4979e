----------------------------- MODULE Polynomials -----------------------------
(***************************************************************************)
(* Polynomials: math/polynomial.rs and the polynomial domain.  A           *)
(* polynomial is the sequence of its coefficients, from the constant       *)
(* upwards.  A root is a complex number <<re, im>>; the square and cube     *)
(* roots in the formulas are taken where they are rational.                *)
(***************************************************************************)
EXTENDS Conversions

CONSTANT MaxDegree      \* MAX_POLY_DEGREE

ASSUME DegreeAssumption == MaxDegree \in Nat

Coefficient(p, i)    == IF i \in DOMAIN p THEN p[i] ELSE Zero
Negated(p)           == [i \in DOMAIN p |-> Minus(Zero, p[i])]
Scaled(p, c)         == [i \in DOMAIN p |-> Times(p[i], c)]
PolyAdd(p, q)        == [i \in 1 .. Max({Len(p), Len(q)}) |-> Plus(Coefficient(p, i), Coefficient(q, i))]
PolySub(p, q)        == PolyAdd(p, Negated(q))
PolyMul(p, q) ==
    IF p = <<>> \/ q = <<>> THEN <<Zero>>
    ELSE [k \in 1 .. Len(p) + Len(q) - 1 |->
            FoldLeft(LAMBDA sum, i : Plus(sum, Times(p[i], Coefficient(q, k - i + 1))), Zero, [i \in DOMAIN p |-> i])]
RECURSIVE Trim(_)
Trim(p)              == IF Len(p) > 1 /\ Last(p) = Zero THEN Trim(Front(p)) ELSE p
IsZeroPoly(p)        == \A i \in DOMAIN p : p[i] = Zero
PolyEval(p, x)       == FoldRight(LAMBDA c, value : Plus(Times(value, x), c), p, Zero)
\* Mutant: the exponent is the one the term ends with.
PolyDiffLowered(p)   == IF Len(p) <= 1 THEN <<Zero>> ELSE [i \in 1 .. Len(p) - 1 |-> Times(p[i + 1], Whole(i - 1))]
PolyDiff(p)          == IF Len(p) <= 1 THEN <<Zero>> ELSE [i \in 1 .. Len(p) - 1 |-> Times(p[i + 1], Whole(i))]
PolyIntegrate(p)     == <<Zero>> \o [i \in DOMAIN p |-> Over(p[i], Whole(i))]

\* long division from the top: at offset i a multiple of b is taken away
DivStep(b, i, st) ==
    LET factor == Over(st.rest[i + Len(b) - 1], Last(b))
    IN  [quotient |-> <<factor>> \o st.quotient,
         rest |-> [k \in DOMAIN st.rest |-> Minus(st.rest[k], Times(factor, Coefficient(b, k - i + 1)))]]
PolyDiv(p, q) ==
    LET a == Trim(p)  b == Trim(q)  n == Len(a) - Len(b) + 1
        end == FoldRight(LAMBDA i, st : DivStep(b, i, st), [i \in 1 .. n |-> i], [quotient |-> <<>>, rest |-> a])
    IN  IF IsZeroPoly(b) THEN Fail("nan")
        ELSE IF n < 1 THEN Ok(<<<<Zero>>, a>>)
        ELSE Ok(<<end.quotient, IF Len(b) = 1 THEN <<Zero>> ELSE SubSeq(end.rest, 1, Len(b) - 1)>>)
-----------------------------------------------------------------------------
\* f64::sqrt and f64::cbrt of a rational whose root is one
RootOf(n, e)   == CHOOSE k \in 0 .. Magnitude(n) : k ^ e = Magnitude(n)
Sqrt(q)        == <<RootOf(q[1], 2), RootOf(q[2], 2)>>
Cbrt(q)        == <<Sign(q[1]) * RootOf(q[1], 3), RootOf(q[2], 3)>>
Half(q)        == Over(q, Whole(2))
Real(q)        == <<q, Zero>>
ShiftedBy(roots, by) == [i \in DOMAIN roots |-> <<Plus(roots[i][1], by), roots[i][2]>>]

SolveQuadratic(a, b, c) ==
    LET disc == Minus(Times(b, b), Times(Whole(4), Times(a, c)))
        mid  == Over(Minus(Zero, b), Times(Whole(2), a))
        off  == Over(Sqrt(disc), Times(Whole(2), a))
    IN  IF disc[1] >= 0 THEN <<Real(Plus(mid, off)), Real(Minus(mid, off))>>
        ELSE <<<<mid, off>>, <<mid, Minus(Zero, off)>>>>

\* the real roots of t^3 + p t + q, from the greatest on: what Cardano's
\* formula and the cosines come to
CubicReals(p, q) ==
    LET grid == {Ratio(n, d) : n \in -60 .. 60, d \in {1, 2, 3, 4, 6, 12}}
    IN  SetToSortSeq({t \in grid : Plus(Times(t, Plus(Times(t, t), p)), q) = Zero}, LAMBDA s, t : Below(t, s))
Cardano(p, q, disc, t) ==
    LET re == Minus(Zero, Half(t[1]))
        im == Sqrt(Plus(Times(<<3, 4>>, Times(t[1], t[1])), p))
        u  == Cbrt(Half(Minus(Zero, q)))
    IN  CASE disc[1] > 0 -> <<Real(t[1]), <<re, im>>, <<re, Minus(Zero, im)>>>>
          [] disc[1] < 0 -> [i \in 1 .. 3 |-> Real(t[i])]
          [] disc[1] = 0 -> IF p = Zero THEN <<Real(Zero), Real(Zero), Real(Zero)>>
                            ELSE <<Real(Times(Whole(2), u)), Real(Minus(Zero, u)), Real(Minus(Zero, u))>>
DepressedCubic(p, q)  == Cardano(p, q, Plus(Power(Half(q), 2), Power(Over(p, Whole(3)), 3)), CubicReals(p, q))
MonicCubic(b, c, d) ==
    ShiftedBy(DepressedCubic(Minus(c, Over(Times(b, b), Whole(3))),
                             Plus(Minus(Over(Times(Whole(2), Power(b, 3)), Whole(27)), Over(Times(b, c), Whole(3))), d)),
              Over(b, Whole(-3)))
SolveCubic(a, b, c, d) == MonicCubic(Over(b, a), Over(c, a), Over(d, a))

\* one of the two square roots of re + im i
ComplexSqrt(re, im) ==
    LET mag == Sqrt(Plus(Times(re, re), Times(im, im)))
    IN  <<Sqrt(Half(Plus(mag, re))), Times(Whole(IF im[1] < 0 THEN -1 ELSE 1), Sqrt(Half(Minus(mag, re))))>>
Opposites(z) == <<z, <<Minus(Zero, z[1]), Minus(Zero, z[2])>>>>
\* t^4 + p t^2 + r
SolveBiquadratic(p, r) ==
    LET disc   == Minus(Times(p, p), Times(Whole(4), r))
        roots(square) == LET s == Sqrt(square) IN IF square[1] >= 0 THEN Opposites(Real(s)) ELSE Opposites(<<Zero, s>>)
        re     == Half(Minus(Zero, p))
        im     == Half(Sqrt(disc))
    IN  IF disc[1] >= 0 THEN roots(Plus(re, im)) \o roots(Minus(re, im))
        ELSE Opposites(ComplexSqrt(re, im)) \o Opposites(ComplexSqrt(re, Minus(Zero, im)))
\* Ferrari: m > 0 is a root of the resolvent, s the square root of m
TwoQuadratics(half, term, s) ==
    SolveQuadratic(Whole(1), Minus(Zero, s), Plus(half, term)) \o SolveQuadratic(Whole(1), s, Minus(half, term))
ByResolvent(p, q, positive) ==
    IF positive = <<>> THEN <<>>
    ELSE LET m == positive[1][1] IN TwoQuadratics(Half(Plus(p, m)), Over(q, Times(Whole(2), Sqrt(m))), Sqrt(m))
DepressedQuartic(p, q, r) ==
    IF q = Zero THEN SolveBiquadratic(p, r)
    ELSE ByResolvent(p, q, SelectSeq(SolveCubic(Whole(1), Times(Whole(2), p), Minus(Times(p, p), Times(Whole(4), r)), Minus(Zero, Times(q, q))),
                                     LAMBDA z : z[2] = Zero /\ z[1][1] > 0))
MonicQuartic(b, c, d, e) ==
    ShiftedBy(DepressedQuartic(
        Minus(c, Times(<<3, 8>>, Times(b, b))),
        Plus(Minus(d, Half(Times(b, c))), Times(<<1, 8>>, Power(b, 3))),
        Minus(Plus(Minus(e, Times(<<1, 4>>, Times(b, d))), Times(<<1, 16>>, Times(Times(b, b), c))), Times(<<3, 256>>, Power(b, 4)))),
      Over(b, Whole(-4)))
SolveQuartic(a, b, c, d, e) == MonicQuartic(Over(b, a), Over(c, a), Over(d, a), Over(e, a))

RootsOf(p) ==
    LET c == Trim(p)
    IN  CASE Len(c) = 1 -> IF c[1] = Zero THEN BadArguments ELSE Ok(<<>>)
          [] Len(c) = 2 -> Ok(<<Real(Over(Minus(Zero, c[1]), c[2]))>>)
          [] Len(c) = 3 -> Ok(SolveQuadratic(c[3], c[2], c[1]))
          [] Len(c) = 4 -> Ok(SolveCubic(c[4], c[3], c[2], c[1]))
          [] Len(c) = 5 -> Ok(SolveQuartic(c[5], c[4], c[3], c[2], c[1]))
          [] OTHER      -> BadArguments

\* factor prints the leading coefficient and the roots as integers: what is
\* behind the point is cut off
AsPrinted(q) == Whole(Quo(q[1], q[2]))
FactorOf(p) ==
    LET c == Trim(p)
        factors(roots) == Ok([lead |-> AsPrinted(Last(c)), roots |-> [i \in DOMAIN roots |-> AsPrinted(roots[i][1])]])
    IN  IF Len(c) > 3 THEN BadArguments
        ELSE IF Len(c) = 1 THEN factors(<<>>)
        ELSE AndThen(RootsOf(c), LAMBDA z : IF z[1][2] # Zero THEN BadArguments ELSE factors(z))
-----------------------------------------------------------------------------
\* The domain.  An expression's coefficients come with the name of the
\* variable they are about, "" for a constant.
Poly(p, var)    == [coeffs |-> p, var |-> var]
MergedVar(a, b) == IF a.var = "" \/ a.var = b.var THEN Ok(b.var) ELSE IF b.var = "" THEN Ok(a.var) ELSE BadArguments

CoeffsOfPow(l, r) ==
    IF ~IsNumber(r) \/ l.kind \notin {"variable", "number"} THEN BadArguments
    ELSE IF l.kind = "number"
    THEN IF l.num = Zero /\ r.num[1] < 0 THEN Fail("nan") ELSE Ok(Poly(<<Power(l.num, r.num[1])>>, ""))
    ELSE IF r.num[1] < 0 \/ ~IsInteger(r.num) THEN BadArguments
    ELSE IF r.num[1] > MaxDegree THEN Overflow
    ELSE IF l.head \in DOMAIN Env THEN Ok(Poly(<<Power(Env[l.head], r.num[1])>>, ""))
    ELSE Ok(Poly([i \in 1 .. r.num[1] + 1 |-> Whole(IF i = r.num[1] + 1 THEN 1 ELSE 0)], l.head))

\* a quotient of polynomials is one only without a remainder
CoeffsOfDiv(a, b, var) ==
    IF IsZeroPoly(b) THEN DivByZero
    ELSE AndThen(PolyDiv(a, b), LAMBDA d : IF IsZeroPoly(d[2]) THEN Ok(Poly(d[1], var)) ELSE BadArguments)

RECURSIVE Coeffs(_)
CoeffsOfBinary(op, l, r) ==
    IF op = "^" THEN CoeffsOfPow(l, r)
    ELSE IF op = "mod" THEN BadArguments
    ELSE IF op = "/" /\ IsNumber(r) /\ r.num = Zero THEN DivByZero
    ELSE AndThen(Collected(<<Coeffs(l), Coeffs(r)>>), LAMBDA both :
         AndThen(MergedVar(both[1], both[2]), LAMBDA var :
            LET a == both[1].coeffs  b == both[2].coeffs IN
            CASE op = "*" /\ IsNumber(l) -> Ok(Poly(Scaled(b, l.num), var))
              [] op = "*" /\ ~IsNumber(l) /\ IsNumber(r) -> Ok(Poly(Scaled(a, r.num), var))
              [] op = "*" /\ ~IsNumber(l) /\ ~IsNumber(r) -> Ok(Poly(PolyMul(a, b), var))
              [] op = "+" -> Ok(Poly(PolyAdd(a, b), var))
              [] op = "-" -> Ok(Poly(PolySub(a, b), var))
              [] op = "/" -> IF IsNumber(r) THEN Ok(Poly(Scaled(a, Over(Whole(1), r.num)), var)) ELSE CoeffsOfDiv(a, b, var)))
Coeffs(e) ==
    CASE e.kind \in {"number", "bignumber"} -> Ok(Poly(<<e.num>>, ""))
      [] e.kind = "variable" -> IF e.head \in DOMAIN Env THEN Ok(Poly(<<Env[e.head]>>, "")) ELSE Ok(Poly(<<Zero, Whole(1)>>, e.head))
      [] e.kind = "binary"   -> CoeffsOfBinary(e.head, e.kids[1], e.kids[2])
      [] e.kind = "neg"      -> AndThen(Coeffs(e.kids[1]), LAMBDA c : Ok(Poly(Negated(c.coeffs), c.var)))
      [] OTHER               -> BadArguments

PolyArity == [poly_add |-> 2, poly_sub |-> 2, poly_mul |-> 2, poly_div |-> 2, poly_eval |-> 2,
              poly_diff |-> 1, poly_integrate |-> 1, roots |-> 1, factor |-> 1]
Shaped(shape, v) == [shape |-> shape, value |-> v]
PolyAnswer(p)    == Ok(Shaped("poly", p))

RECURSIVE PolyScalar(_)
PolyScalar(e) ==
    CASE e.kind \in {"number", "bignumber"} -> Ok(e.num)
      [] e.kind = "variable" -> IF e.head \in DOMAIN Env THEN Ok(Env[e.head]) ELSE Fail("eval")
      [] e.kind = "neg"      -> AndThen(PolyScalar(e.kids[1]), LAMBDA v : Ok(Minus(Zero, v)))
      [] e.kind = "binary"   -> AndThen(Collected(<<PolyScalar(e.kids[1]), PolyScalar(e.kids[2])>>), LAMBDA v : ScalarBinary(e.head, v[1], v[2]))
      [] OTHER               -> BadArguments

RECURSIVE EvalPoly(_)
ArgToCoeffs(e) ==
    IF e.kind # "call" THEN AndThen(Coeffs(e), LAMBDA c : Ok(c.coeffs))
    ELSE AndThen(EvalPoly(e), LAMBDA r : IF r.shape = "poly" THEN Ok(r.value) ELSE BadArguments)
EvalPolyCall(name, args) ==
    IF name \notin DOMAIN PolyArity THEN BadArguments
    ELSE IF Len(args) # PolyArity[name] THEN BadArguments
    ELSE IF name = "poly_eval"
    THEN AndThen(ArgToCoeffs(args[1]), LAMBDA p : AndThen(PolyScalar(args[2]), LAMBDA x : Ok(Shaped("scalar", PolyEval(p, x)))))
    ELSE AndThen(Collected([i \in DOMAIN args |-> ArgToCoeffs(args[i])]), LAMBDA p :
         CASE name = "poly_add"       -> PolyAnswer(PolyAdd(p[1], p[2]))
           [] name = "poly_sub"       -> PolyAnswer(PolySub(p[1], p[2]))
           [] name = "poly_mul"       -> PolyAnswer(PolyMul(p[1], p[2]))
           [] name = "poly_div"       -> IF IsZeroPoly(p[2]) THEN DivByZero ELSE PolyAnswer(PolyDiv(p[1], p[2]).is[1])
           [] name = "poly_diff"      -> PolyAnswer(PolyDiff(p[1]))
           [] name = "poly_integrate" -> PolyAnswer(PolyIntegrate(p[1]))
           [] name = "roots"          -> AndThen(RootsOf(p[1]), LAMBDA z : Ok(Shaped("roots", z)))
           [] name = "factor"         -> AndThen(FactorOf(p[1]), LAMBDA f : Ok(Shaped("factors", f))))
EvalPoly(e) ==
    CASE e.kind = "call"                    -> EvalPolyCall(e.head, e.kids)
      [] e.kind \in {"number", "bignumber"} -> Ok(Shaped("scalar", e.num))
      [] e.kind = "variable" -> IF e.head \in DOMAIN Env THEN Ok(Shaped("scalar", Env[e.head])) ELSE Fail("eval")
      [] e.kind \in {"binary", "neg"}       -> AndThen(Coeffs(e), LAMBDA c : PolyAnswer(c.coeffs))
      [] OTHER                              -> BadArguments
-----------------------------------------------------------------------------
(***************************************************************************)
(* What polynomials are to be.  Meant(e, v) is the value of e, and not of  *)
(* its coefficients, where the free variables are v.                       *)
(***************************************************************************)
SamplePoints == {Whole(-2), Zero, Whole(1), Whole(3)}
\* the slope of a polynomial of degree four or less, from five of its values
Slope(f(_), v) ==
    LET at(n) == f(Plus(v, Whole(n)))
    IN  Over(Minus(Times(Whole(8), Minus(at(1), at(-1))), Minus(at(2), at(-2))), Whole(12))
RECURSIVE Meant(_, _)
Meant(e, v) ==
    LET of(i) == Meant(e.kids[i], v)
        op    == CASE e.head = "poly_add" -> "+" [] e.head = "poly_sub" -> "-" [] e.head = "poly_mul" -> "*" [] OTHER -> e.head
    IN  CASE e.kind \in {"number", "bignumber"} -> Ok(e.num)
          [] e.kind = "variable" -> Ok(IF e.head \in DOMAIN Env THEN Env[e.head] ELSE v)
          [] e.kind = "neg"      -> AndThen(of(1), LAMBDA a : Ok(Minus(Zero, a)))
          [] op \in BinaryOps    -> AndThen(of(1), LAMBDA a : AndThen(of(2), LAMBDA b : ScalarBinary(op, a, b)))
          [] op = "poly_eval"    -> AndThen(of(2), LAMBDA a : Meant(e.kids[1], a))
          [] OTHER               -> Fail("no value")
FreeIn(e) == {n.head : n \in {m \in NodesOutside(e, {}) : m.kind = "variable"}} \ DOMAIN Env

\* complex Horner
ComplexTimes(y, z) == <<Minus(Times(y[1], z[1]), Times(y[2], z[2])), Plus(Times(y[1], z[2]), Times(y[2], z[1]))>>
PolyAtComplex(p, z) ==
    FoldRight(LAMBDA c, value : LET w == ComplexTimes(value, z) IN <<Plus(w[1], c), w[2]>>, p, Real(Zero))
\* the polynomial with the given leading coefficient and roots
ComplexSum(y, z)   == <<Plus(y[1], z[1]), Plus(y[2], z[2])>>
WithRoot(p, z) ==
    [i \in 1 .. Len(p) + 1 |-> ComplexSum(IF i = 1 THEN Real(Zero) ELSE p[i - 1],
                                          IF i > Len(p) THEN Real(Zero) ELSE ComplexTimes(p[i], Opposites(z)[2]))]
Expanded(lead, roots) == FoldLeft(WithRoot, <<Real(lead)>>, roots)

PolyRight(e, r) ==
    LET arg(i) == ArgToCoeffs(e.kids[i]).is
        value  == r.is.value
        Kind(name) == e.kind = "call" /\ e.head = name
        integral(q) == IsInteger(q)
    IN  IF ~r.ok THEN
            /\ Kind("poly_div") => r = DivByZero \/ \E i \in DOMAIN e.kids : ~ArgToCoeffs(e.kids[i]).ok
            /\ e.kind \in {"binary", "neg"} /\ Cardinality(FreeIn(e)) <= 1 =>
                  \E n \in NodesOutside(e, {}) : n.kind = "call" \/ n.head \in {"^", "/", "mod"}
        ELSE
        /\ r.is.shape \in {"poly", "scalar"} => \A v \in SamplePoints :
              LET m == Meant(e, v) IN m.ok => m.is = IF r.is.shape = "scalar" THEN value ELSE PolyEval(value, v)
        /\ e.kind \in {"binary", "neg"} => Cardinality(FreeIn(e)) <= 1
        /\ Kind("poly_div") =>
              LET rest == Trim(PolySub(arg(1), PolyMul(value, arg(2))))
              IN  Len(rest) < Len(Trim(arg(2))) \/ rest = <<Zero>>
        /\ Kind("poly_diff") /\ Len(arg(1)) <= 5 => \A v \in SamplePoints : Slope(LAMBDA x : PolyEval(arg(1), x), v) = PolyEval(value, v)
        /\ Kind("poly_integrate") => PolyDiff(value) = arg(1) /\ PolyEval(value, Zero) = Zero
        /\ Kind("roots") => LET p == Trim(arg(1)) IN Expanded(Last(p), value) = [i \in DOMAIN p |-> Real(p[i])]
        /\ Kind("factor") =>
              LET p == Trim(arg(1))  z == RootsOf(p) IN
              z.ok /\ (\A i \in DOMAIN z.is : integral(z.is[i][1])) /\ integral(Last(p)) =>
                 Expanded(value.lead, [i \in DOMAIN value.roots |-> Real(value.roots[i])]) = [i \in DOMAIN p |-> Real(p[i])]
=============================================================================
