---------------------------- MODULE ScalarDomains ----------------------------
(***************************************************************************)
(* The domains whose values are single numbers: arithmetic and scientific  *)
(* (f64), precision (exact rationals) and complex (pairs of f64), with the *)
(* solvers reached from expressions and from the API.                      *)
(***************************************************************************)
EXTENDS Floats, NumberTheory

CONSTANTS Bindings,        \* EvalContext.vars: name -> f64, which may be infinite or NaN
          MaxPrecision     \* MAX_PRECISION

\* ensure_math_constants: a variable of that name comes first
WithConstants(env) == [name \in DOMAIN env \cup {"pi", "e"} |->
                         IF name \in DOMAIN env THEN env[name] ELSE IF name = "pi" THEN Pi ELSE Euler]
Resolve(env, name) == IF name \in DOMAIN env THEN Ok(env[name]) ELSE Fail("eval")

Bound(env, name, q) == [n \in DOMAIN env \cup {name} |-> IF n = name THEN q ELSE env[n]]
\* the orders of polylog and of the Bessel functions
IntegerOrder(q) ==
    IF IsFinite(q) /\ IsInteger(q) /\ 0 <= q[1] /\ q[1] <= 100 THEN Ok(q[1]) ELSE BadArguments

RootBetween(f, lo, hi) ==
    CASE ~(IsFinite(f[lo]) /\ IsFinite(f[hi])) -> NanOrInf
      [] IsFinite(f[lo]) /\ IsFinite(f[hi]) /\ f[lo][1] * f[hi][1] > 0 -> BadArguments
      [] OTHER -> Brent(f, lo, hi, RootTol, RootSteps)
IntegralBetween(f, a, b) ==
    IF a = b THEN Ok(Zero)
    ELSE IF \E x \in {a, Halved(FloatSum(a, b)), b} : ~IsFinite(f[x]) THEN NanOrInf
    ELSE AndThen(GaussKronrod(f, a, b), LAMBDA g :
            IF LessF(IntegralTol, g.err) THEN AdaptiveSimpson(f, a, b, IntegralTol, IntegralDepth) ELSE Ok(g.value))

RECURSIVE EvalReal(_, _, _), PlainCall(_, _, _), ScientificCall(_, _, _)
\* the value as the functions solve and integrate see it
BodyAt(body, var, env, x) == LET v == EvalReal("scientific", Bound(env, var, x), body) IN IF v.ok THEN v.is ELSE NaN
EvalReal(d, env, e) ==
    CASE e.kind = "number"   -> Ok(e.num)
      [] e.kind = "variable" -> Resolve(env, e.head)
      [] e.kind = "binary"   -> AndThen(EvalReal(d, env, e.kids[1]), LAMBDA a : AndThen(EvalReal(d, env, e.kids[2]), LAMBDA b : BinaryF(e.head, a, b)))
      [] e.kind = "neg"      -> AndThen(EvalReal(d, env, e.kids[1]), LAMBDA v : Ok(Negate(v)))
      [] e.kind = "call"     -> IF d = "arithmetic" THEN PlainCall(env, e.head, e.kids) ELSE ScientificCall(env, e.head, e.kids)
      [] OTHER               -> BadArguments
PlainCall(env, name, args) ==
    LET arity == IF name = "mod" THEN 2 ELSE 1
        first == EvalReal("arithmetic", env, args[1])
    IN  IF name \notin {"factorial", "mod", "abs"} \/ Len(args) # arity THEN Fail("eval")
        ELSE CASE name = "factorial" -> AndThen(first, FactorialF)
               [] name = "abs"       -> AndThen(first, LAMBDA v : Ok(AbsF(v)))
               [] name = "mod"       -> AndThen(first, LAMBDA a : AndThen(EvalReal("arithmetic", env, args[2]), LAMBDA b : BinaryF("mod", a, b)))
ScientificArity(name) ==
    CASE name \in OneArgument -> 1
      [] name \in OrderedFunctions \cup {"log", "beta"} -> 2
      [] name \in {"root", "integral"} -> 4
      [] OTHER -> -1
ScientificCall(env, name, args) ==
    LET at(i) == EvalReal("scientific", env, args[i])
        body(x) == BodyAt(args[1], args[2].head, env, x)
    IN  IF Len(args) # ScientificArity(name) THEN Fail("eval")
        ELSE CASE name \in OneArgument      -> AndThen(at(1), LAMBDA x : UnaryFunction(name, x))
               [] name \in {"log", "beta"}  -> AndThen(at(1), LAMBDA a : AndThen(at(2), LAMBDA b : IF name = "log" THEN LogOf(a, b) ELSE Beta(a, b)))
               [] name \in OrderedFunctions -> AndThen(at(1), LAMBDA n : AndThen(IntegerOrder(n), LAMBDA order : AndThen(at(2), LAMBDA x : OrderedFunction(name, order, x))))
               [] name \in {"root", "integral"} ->
                    IF args[2].kind # "variable" THEN BadArguments
                    ELSE AndThen(at(3), LAMBDA a : AndThen(at(4), LAMBDA b :
                            IF ~(IsFinite(a) /\ IsFinite(b)) THEN NanOrInf
                            ELSE IF name = "root" THEN RootBetween([x \in Int \X Int |-> Snap(body(x))], Min2(a, b), IF LessF(b, a) THEN a ELSE b)
                            ELSE IntegralBetween([x \in Int \X Int |-> body(x)], a, b)))
EvalArithmetic(e) == EvalReal("arithmetic", Bindings, e)
EvalScientific(e) == EvalReal("scientific", WithConstants(Bindings), e)
-----------------------------------------------------------------------------
\* domains/precision.rs: nothing is rounded.  An f64 of 2^63 is cast to i64.
FromF64(q) ==
    IF ~IsFinite(q) THEN Fail("eval")
    ELSE IF IsInteger(q) /\ q[1] = Wide THEN Ok(Whole(Wide - 1)) ELSE Ok(q)
\* b^n, as long as the exponent and the size of the result allow it; the
\* library that does it panics on a negative power of zero.
ExactPower(a, n) ==
    IF Magnitude(n) > MaxPowExponent \/ PowTooLarge(Max({BitsOf(Magnitude(a[1])), BitsOf(a[2])}), Magnitude(n)) THEN BadArguments
    ELSE IF a = Zero /\ n < 0 THEN Fail("panic") ELSE Ok(Power(a, n))
ExactBinary(op, a, b) ==
    CASE op = "+" -> Ok(Plus(a, b)) [] op = "-" -> Ok(Minus(a, b)) [] op = "*" -> Ok(Times(a, b))
      [] op \in {"/", "mod"} -> IF b = Zero THEN DivByZero
                                ELSE IF op = "/" THEN Ok(Over(a, b))
                                ELSE IF IsInteger(a) /\ IsInteger(b) THEN Ok(Whole(Rem(a[1], b[1]))) ELSE BadArguments
      [] op = "^" -> IF IsInteger(b) THEN ExactPower(a, b[1]) ELSE BadArguments
ExactFactorial(q) ==
    IF ~IsInteger(q) \/ q[1] < 0 \/ q[1] > MAX_FACTORIAL_INPUT THEN BadArguments
    ELSE Ok(FoldLeft(Times, Whole(1), [i \in 1 .. q[1] |-> Whole(i)]))
\* precision(N, expr) is none of them: it is known at the root only
ExactArity == [factorial |-> 1, abs |-> 1, mod |-> 2]
ExactCall(name, args) ==
    CASE name \notin DOMAIN ExactArity -> BadArguments
      [] name \in DOMAIN ExactArity /\ (~args.ok \/ Len(args.is) # ExactArity[name]) -> IF args.ok THEN BadArguments ELSE args
      [] OTHER -> CASE name = "factorial" -> ExactFactorial(args.is[1])
                    [] name = "abs"       -> Ok(AbsOf(args.is[1]))
                    [] name = "mod"       -> ExactBinary("mod", args.is[1], args.is[2])
RECURSIVE EvalExact(_, _)
EvalExact(env, e) ==
    LET at(i)   == EvalExact(env, e.kids[i])
        both    == Collected([i \in 1 .. 2 |-> at(i)])
    IN  CASE e.kind = "number"    -> FromF64(e.num)
          [] e.kind = "bignumber" -> Ok(e.num)
          [] e.kind = "variable"  -> AndThen(Resolve(env, e.head), FromF64)
          [] e.kind = "binary"    -> IF both.ok THEN ExactBinary(e.head, both.is[1], both.is[2]) ELSE both
          [] e.kind = "neg"       -> AndThen(at(1), LAMBDA v : Ok(Negate(v)))
          [] e.kind = "call"      -> ExactCall(e.head, Collected([i \in DOMAIN e.kids |-> at(i)]))
          [] OTHER                -> BadArguments
\* the N of precision(N, expr) is a literal
Digits10(e) == IF e.kind \in {"number", "bignumber"} /\ IsInteger(e.num) /\ 0 < e.num[1] /\ e.num[1] <= MaxPrecision THEN Ok(e.num[1]) ELSE BadArguments
EvalPrecision(e) ==
    IF e.kind = "call" /\ e.head = "precision"
    THEN IF Len(e.kids) # 2 THEN BadArguments
         ELSE AndThen(Digits10(e.kids[1]), LAMBDA n : EvalExact(WithConstants(Bindings), e.kids[2]))
    ELSE EvalExact(WithConstants(Bindings), e)
\* format_decimal: the digits of |q| with n places, halves up, as an integer
DecimalDigits(q, n) == (2 * Magnitude(q[1]) * 10 ^ n + q[2]) \div (2 * q[2])
FormatDecimal(q, n) == [minus |-> q[1] < 0, whole |-> DecimalDigits(q, n) \div 10 ^ n, places |-> DecimalDigits(q, n) % 10 ^ n]
-----------------------------------------------------------------------------
\* math/complex.rs: pairs of f64, without a check but the one at the end
ComplexResult(z) == [shape |-> "complex", value |-> z]
ToComplex(r)     == IF r.shape = "scalar" THEN <<r.value, Zero>> ELSE r.value
Origin           == <<Zero, Zero>>
PairSum(z, w) == <<FloatSum(z[1], w[1]), FloatSum(z[2], w[2])>>
Opposite(z)      == <<Negate(z[1]), Negate(z[2])>>
Conjugate(z)     == <<z[1], Negate(z[2])>>
ComplexProduct(z, w) ==
    <<FloatSum(FloatProduct(z[1], w[1]), Negate(FloatProduct(z[2], w[2]))), FloatSum(FloatProduct(z[1], w[2]), FloatProduct(z[2], w[1]))>>
NormSquared(z) == FloatSum(FloatProduct(z[1], z[1]), FloatProduct(z[2], z[2]))
Quotient2(z, w) == <<FloatQuotient(ComplexProduct(z, Conjugate(w))[1], NormSquared(w)), FloatQuotient(ComplexProduct(z, Conjugate(w))[2], NormSquared(w))>>
ComplexDiv(z, w) == IF w = Origin THEN DivByZero ELSE Ok(Quotient2(z, w))
\* powc of a whole, real exponent; asked of no other
RECURSIVE ComplexPower(_, _)
ComplexPower(z, n) ==
    IF n = 0 THEN <<Whole(1), Zero>> ELSE IF n < 0 THEN Quotient2(<<Whole(1), Zero>>, ComplexPower(z, -n)) ELSE ComplexProduct(z, ComplexPower(z, n - 1))
FiniteComplex(z) == IsFinite(z[1]) /\ IsFinite(z[2])
ComplexPow(z, w) ==
    IF z = Origin /\ w = Origin THEN Ok(<<Whole(1), Zero>>)
    ELSE IF ~FiniteComplex(ComplexPower(z, w[1][1])) THEN NanOrInf ELSE Ok(ComplexPower(z, w[1][1]))
\* the root is asked of squares only
Norm(z) ==
    IF NaN \in {z[1], z[2]} THEN NaN ELSE IF ~FiniteComplex(z) THEN Inf
    ELSE LET s == Plus(Times(z[1], z[1]), Times(z[2], z[2])) IN Ratio(CHOOSE k \in 0 .. 200 : k * k = s[1] * s[2], s[2])
\* the angle: an eighth of a turn is 1, as for Wave
Arg(z) ==
    LET t == Over(z[2], Plus(AbsOf(z[1]), AbsOf(z[2])))
    IN  IF ~FiniteComplex(z) THEN NaN
        ELSE IF z[1][1] >= 0 THEN Times(Whole(2), t)
        ELSE Minus(Whole(IF z[2][1] >= 0 THEN 4 ELSE -4), Times(Whole(2), t))
ComplexArg(z) == IF z = Origin THEN BadArguments ELSE Ok(Arg(z))
ComplexExp(z) ==
    <<FloatProduct(Exponential(z[1]), FloatFunction("cos", z[2])), FloatProduct(Exponential(z[1]), FloatFunction("sin", z[2]))>>
ComplexLn(z)  == IF z = Origin THEN <<Negate(Inf), Zero>> ELSE <<Logarithm(Norm(z)), Arg(z)>>

\* domains/complex.rs: two scalars stay scalars
ScalarPair(op, a, b) ==
    CASE op = "+" -> Ok(FloatSum(a, b)) [] op = "-" -> Ok(FloatSum(a, Negate(b))) [] op = "*" -> Ok(FloatProduct(a, b))
      [] op = "/" -> IF b = Zero THEN DivByZero ELSE Ok(FloatQuotient(a, b))
      [] op = "^" -> IF a = Zero /\ b = Zero THEN Ok(Whole(1)) ELSE CheckFinite(FloatPow(a, b))
      [] op = "mod" -> BadArguments
ComplexPair(op, z, w) ==
    CASE op = "+" -> Ok(PairSum(z, w)) [] op = "-" -> Ok(PairSum(z, Opposite(w))) [] op = "*" -> Ok(ComplexProduct(z, w))
      [] op = "/" -> ComplexDiv(z, w) [] op = "^" -> ComplexPow(z, w) [] op = "mod" -> BadArguments
ComplexBinary(op, a, b) ==
    CASE a.shape = "scalar" /\ b.shape = "scalar" -> AndThen(ScalarPair(op, a.value, b.value), LAMBDA v : Ok(ScalarResult(v)))
      [] op = "^" /\ ToComplex(a) = Origin /\ ToComplex(b) = Origin -> Ok(ScalarResult(Whole(1)))
      [] OTHER -> AndThen(ComplexPair(op, ToComplex(a), ToComplex(b)), LAMBDA z : Ok(ComplexResult(z)))

ComplexFunctions == {"complex", "conj", "arg", "abs", "exp", "ln"}
PairCall(name, a) ==
    LET z == ToComplex(a[1])
    IN  CASE name = "complex" -> IF a[1].shape # "scalar" \/ a[2].shape # "scalar" THEN BadArguments ELSE Ok(ComplexResult(<<a[1].value, a[2].value>>))
          [] name = "conj" -> Ok(ComplexResult(Conjugate(z)))
          [] name = "arg"  -> AndThen(ComplexArg(z), LAMBDA v : Ok(ScalarResult(v)))
          [] name = "abs"  -> Ok(ScalarResult(Norm(z)))
          [] name = "exp"  -> Ok(ComplexResult(ComplexExp(z)))
          [] name = "ln"   -> Ok(ComplexResult(ComplexLn(z)))
RECURSIVE EvalPair(_, _)
EvalPair(env, e) ==
    LET kids == Collected([i \in DOMAIN e.kids |-> EvalPair(env, e.kids[i])])
    IN  CASE e.kind = "number"   -> Ok(ScalarResult(e.num))
          [] e.kind = "complex"  -> Ok(ComplexResult(<<e.kids[1].num, e.kids[2].num>>))
          [] e.kind = "variable" -> IF e.head = "i" THEN Ok(ComplexResult(<<Zero, Whole(1)>>)) ELSE AndThen(Resolve(env, e.head), LAMBDA v : Ok(ScalarResult(v)))
          [] e.kind = "binary"   -> IF kids.ok THEN ComplexBinary(e.head, kids.is[1], kids.is[2]) ELSE kids
          [] e.kind = "neg"      -> AndThen(kids, LAMBDA a : Ok(IF a[1].shape = "scalar" THEN ScalarResult(Negate(a[1].value)) ELSE ComplexResult(Opposite(a[1].value))))
          [] e.kind = "call"     -> IF e.head \notin ComplexFunctions \/ Len(e.kids) # (IF e.head = "complex" THEN 2 ELSE 1) THEN BadArguments
                                    ELSE AndThen(kids, LAMBDA a : PairCall(e.head, a))
          [] OTHER               -> BadArguments
EvalComplex(e) ==
    AndThen(EvalPair(WithConstants(Bindings), e), LAMBDA r : IF FiniteComplex(ToComplex(r)) THEN Ok(r) ELSE NanOrInf)
-----------------------------------------------------------------------------
\* The scalar methods of the API, and solve_equation, to which an expression
\* that has no scalar value is NaN everywhere it is asked for one.
ApiScalar(name, args) ==
    CASE name \in BinaryOps       -> BinaryF(name, args[1], args[2])
      [] name = "factorial"       -> FactorialF(args[1])
      [] name = "abs"             -> Ok(AbsF(args[1]))
      [] name = "log"             -> LogOf(args[1], args[2])
      [] name = "beta"            -> Beta(args[1], args[2])
      [] name \in OneArgument      -> UnaryFunction(name, args[1])
      [] name \in OrderedFunctions -> OrderedFunction(name, args[1], args[2])
SolveEquation(f, method, options) ==
    CASE method = "newton" ->
            NewtonRaphson(f, [x \in Int \X Int |-> Incline(f, x, SlopeStep)], IF options = <<>> THEN Whole(1) ELSE options[1], RootTol, RootSteps)
      [] method \in {"bisection", "brent"} ->
            IF Len(options) < 2 THEN BadArguments
            ELSE IF method = "brent" THEN Brent(f, options[1], options[2], RootTol, RootSteps) ELSE Bisection(f, options[1], options[2], RootTol, RootSteps)
      [] OTHER -> BadArguments
\* coefficients from the constant on; none: an expression without a value
PolynomialAt(coeffs) ==
    [x \in Int \X Int |-> IF coeffs = <<>> \/ ~IsFinite(x) THEN NaN
                          ELSE FoldRight(LAMBDA c, v : Plus(Times(v, x), Whole(c)), coeffs, Zero)]
SnappedAt(coeffs) == [x \in Int \X Int |-> Snap(PolynomialAt(coeffs)[x])]
Solved(method, coeffs, o) ==
    CASE method = "derivative" -> Derivative(PolynomialAt(coeffs), o[1])
      [] method = "secant"     -> Secant(SnappedAt(coeffs), o[1], o[2], RootTol, RootSteps)
      [] OTHER                 -> SolveEquation(SnappedAt(coeffs), method, o)
-----------------------------------------------------------------------------
(***************************************************************************)
(* What the domains, the functions and the solvers are to return: laws     *)
(* that tie an answer to others the code gives, and to exact numbers.      *)
(***************************************************************************)
\* The same tree in the exact domain.  f64 may only be stopped by a value
\* beyond its range, exact numbers only by a bound of theirs.
Saturates(e) == \E n \in NodesOutside(e, {}) : n.kind = "number" /\ n.num = Whole(Wide)
TooLarge(e)  == \E n \in NodesOutside(e, {}) : LET v == EvalExact(Bindings, n) IN v.ok /\ Exceeds(v.is)
TooSmall(e)  == \E n \in NodesOutside(e, {}) : LET v == EvalExact(Bindings, n) IN v.ok /\ v.is # Zero /\ Below(AbsOf(v.is), Ratio(1, MaxFloat))
ArithmeticRight(e, r) ==
    LET exact == EvalExact(Bindings, e)
    IN  Saturates(e) \/ CASE r.ok /\ exact.ok   -> r.is = exact.is \/ TooSmall(e)
                          [] r.ok /\ ~exact.ok  -> exact.is \in {"eval", "domain"}
                          [] ~r.ok /\ exact.ok  -> TooLarge(e) \/ \E n \in NodesOutside(e, {}) : n.kind = "bignumber"
                          [] OTHER              -> TRUE

\* precision(n, e) is e; its digits are within half a unit of the last place.
PrecisionRight(e, r) ==
    (r.ok /\ e.kind = "call" /\ e.head = "precision") =>
        /\ r = EvalPrecision(e.kids[2])
        /\ LET n == e.kids[1].num[1]  d == FormatDecimal(r.is, n)
               shown == Ratio((IF d.minus THEN -1 ELSE 1) * (d.whole * 10 ^ n + d.places), 10 ^ n)
           IN  ~Below(Ratio(1, 2 * 10 ^ n), AbsOf(Minus(shown, r.is))) /\ d.places < 10 ^ n
-----------------------------------------------------------------------------
\* a + bi as the matrix ((a, -b), (b, a)), without a bound: numbers are exact.
Wrong == <<>>
MatrixProduct(m, k) == [i \in 1 .. 2 |-> [j \in 1 .. 2 |-> Plus(Times(m[i][1], k[1][j]), Times(m[i][2], k[2][j]))]]
Inverted(m) == LET det == Minus(Times(m[1][1], m[2][2]), Times(m[1][2], m[2][1]))
               IN  IF det = Zero THEN Wrong ELSE <<<<Over(m[2][2], det), Negate(Over(m[1][2], det))>>, <<Negate(Over(m[2][1], det)), Over(m[1][1], det)>>>>
Stands(z) == <<<<z[1], Negate(z[2])>>, <<z[2], z[1]>>>>
RECURSIVE MatrixPower(_, _)
MatrixPower(m, n) == IF n = 0 THEN Stands(<<Whole(1), Zero>>) ELSE IF m = Wrong THEN Wrong ELSE IF n < 0 THEN MatrixPower(Inverted(m), -n) ELSE MatrixProduct(m, MatrixPower(m, n - 1))
MatrixBinary(op, m, k) ==
    CASE m = Wrong \/ k = Wrong -> Wrong
      [] op \in {"+", "-"} /\ Wrong \notin {m, k} -> [i \in 1 .. 2 |-> [j \in 1 .. 2 |-> IF op = "+" THEN Plus(m[i][j], k[i][j]) ELSE Minus(m[i][j], k[i][j])]]
      [] op = "*" /\ Wrong \notin {m, k} -> MatrixProduct(m, k)
      [] op = "/" /\ Wrong \notin {m, k} -> IF Inverted(k) = Wrong THEN Wrong ELSE MatrixProduct(m, Inverted(k))
      [] op = "^" /\ Wrong \notin {m, k} -> MatrixPower(m, k[1][1][1])
      [] OTHER -> Wrong
RECURSIVE AsMatrix(_)
AsMatrix(e) ==
    CASE e.kind = "number"   -> Stands(<<e.num, Zero>>)
      [] e.kind = "complex"  -> Stands(<<e.kids[1].num, e.kids[2].num>>)
      [] e.kind = "variable" -> IF e.head = "i" THEN Stands(<<Zero, Whole(1)>>)
                                ELSE IF e.head \in DOMAIN Bindings /\ IsFinite(Bindings[e.head]) THEN Stands(<<Bindings[e.head], Zero>>) ELSE Wrong
      [] e.kind = "neg"      -> MatrixBinary("-", Stands(Origin), AsMatrix(e.kids[1]))
      [] e.kind = "binary"   -> MatrixBinary(e.head, AsMatrix(e.kids[1]), AsMatrix(e.kids[2]))
      [] OTHER               -> Wrong
RECURSIVE Mirrored(_)
Mirrored(e) == IF e.kind = "complex" THEN Complex(e.kids[1].num, Negate(e.kids[2].num))
               ELSE IF e = Variable("i") THEN Neg(e)
               ELSE IF e.kind = "call" /\ e.head = "complex" THEN Call("complex", <<e.kids[1], Neg(e.kids[2])>>)
               ELSE [e EXCEPT !.kids = [i \in DOMAIN e.kids |-> Mirrored(e.kids[i])]]
\* scalar results are their own conjugates, but an angle turns its sign
Reflection(e, r) == IF ~r.ok THEN r ELSE IF r.is.shape = "complex" THEN Ok(ComplexResult(Conjugate(r.is.value)))
                    ELSE IF e.kind = "call" /\ e.head = "arg" THEN Ok(ScalarResult(Negate(r.is.value))) ELSE r
Angles(e)   == \E i \in DOMAIN e.kids : "arg" \in FunctionsOf(e.kids[i], {})
OnTheCut(e) == \E n \in NodesOutside(e, {}) : n.kind = "call" /\ n.head \in {"arg", "ln"} /\ LET z == EvalComplex(n.kids[1]) IN z.ok /\ ToComplex(z.is)[2] = Zero
ComplexRight(e, r) ==
    LET functions == \E n \in NodesOutside(e, {}) : n.kind = "call"
        infinite  == \E n \in NodesOutside(e, {}) : n.kind = "variable" /\ n.head \in DOMAIN Bindings /\ ~IsFinite(Bindings[n.head])
        matrix    == AsMatrix(e)
        real      == EvalArithmetic(e)
        inner     == EvalComplex(e.kids[1])
        big       == \E n \in NodesOutside(e, {}) : LET m == AsMatrix(n) IN m # Wrong /\ Exceeds(Plus(Times(m[1][1], m[1][1]), Times(m[1][2], m[1][2])))
    IN  /\ (~functions /\ ~infinite /\ ~big) => IF r.ok THEN matrix = Stands(ToComplex(r.is)) ELSE matrix = Wrong
        /\ ~(OnTheCut(e) \/ Angles(e)) => EvalComplex(Mirrored(e)) = Reflection(e, r)
        /\ (~functions /\ real.ok /\ r.ok /\ IsFinite(real.is)) => ToComplex(r.is) = <<real.is, Zero>>
        /\ (r.ok /\ e.kind = "call" /\ e.head = "abs") => <<Times(r.is.value, r.is.value), Zero>> = ComplexProduct(ToComplex(inner.is), Conjugate(ToComplex(inner.is)))
-----------------------------------------------------------------------------
Same(f, g)  == f.ok /\ g.ok /\ f.is = g.is
\* two values, when all of these are values, obey the law
Law(outcomes, Holds2(_)) == LET all == Collected(outcomes) IN all.ok => Holds2(all.is)
One   == Whole(1)
Next1(x) == Plus(x, One)
F(name, x) == UnaryFunction(name, x)
WithinOne(x) == LessEq(AbsOf(x), One)
RECURSIVE Rising(_, _)
Rising(a, k) == IF k = 0 THEN 1 ELSE a * Rising(a + 3, k - 1)
RECURSIVE FactorialOf2(_)
FactorialOf2(n) == IF n = 0 THEN 1 ELSE n * FactorialOf2(n - 1)
\* sum of a(a+3)... x^(3k+s)/(3k+s)!
AiryReference(a, s, x) == FoldLeft(LAMBDA sum, k : Plus(sum, Times(Ratio(Rising(a, k), FactorialOf2(3 * k + s)), Power(x, 3 * k + s))), Zero, [k \in 1 .. AiryTerms + 1 |-> k - 1])
Bernoulli == [n \in {1, 3} |-> IF n = 1 THEN <<-1, 12>> ELSE <<1, 120>>]

RefusalRight(name, x, r) ==
    ~r.ok => CASE name \in {"gamma", "lgamma"} -> ~IsFinite(x) \/ IsPole(x) \/ ~IsFinite(LanczosGamma(x))
               [] name \in {"ln", "log10", "log2"} -> ~IsFinite(x) \/ LessEq(x, Zero)
               [] name \in {"asin", "acos"} -> x = NaN \/ ~WithinOne(x)
               [] name = "zeta" -> ~IsFinite(x) \/ x = One
               [] name \in {"exp", "sinh", "cosh"} -> ~IsFinite(x) \/ LessEq(Whole(4), AbsOf(x))
               [] name \in {"erf", "erfc", "tanh", "atan"} -> x = NaN
               [] name \in {"sin", "cos", "tan", "airy_ai", "airy_bi"} -> ~IsFinite(x) \/ LessF(Whole(8), AbsOf(x))
OneArgumentRight(name, x, r) ==
    /\ RefusalRight(name, x, r)
    /\ r.ok /\ IsFinite(x) =>
       CASE name = "gamma" -> Law(<<F("gamma", Next1(x))>>, LAMBDA v : v[1] = Times(x, r.is))
         [] name = "zeta"  -> IF LessF(x, Zero) /\ IsInteger(x) THEN r.is = (IF x[1] % 2 = 0 THEN Zero ELSE Bernoulli[-x[1]]) ELSE TRUE
         [] name = "erf"   -> F("erf", Negate(x)) = Ok(Negate(r.is)) /\ Law(<<F("erfc", x)>>, LAMBDA v : Plus(v[1], r.is) = One)
         [] name = "exp"   -> Law(<<F("exp", Negate(x))>>, LAMBDA v : Times(v[1], r.is) \in {One, Zero}) /\ (r.is # Zero => F("ln", r.is) = Ok(x))
         [] name = "cosh"  -> Law(<<F("sinh", x), F("tanh", x)>>, LAMBDA v : Minus(Times(r.is, r.is), Times(v[1], v[1])) = One /\ (LessF(AbsOf(x), Whole(4)) => Times(v[2], r.is) = v[1]))
         [] name = "tan"   -> Law(<<F("sin", x), F("cos", x)>>, LAMBDA v : v[2] # Zero => Times(r.is, v[2]) = v[1])
         [] name = "asin"  -> F("sin", r.is) = Ok(x) /\ Law(<<F("acos", x)>>, LAMBDA v : Plus(v[1], r.is) = Halved(Pi))
         [] name = "atan"  -> F("tan", r.is) = Ok(x)
         [] name \in {"log10", "log2"} -> r = LogOf(x, Whole(IF name = "log2" THEN 2 ELSE 10))
         [] name = "airy_ai" -> LessEq(AbsOf(x), Whole(8)) =>
               LET f == Times(AiryC1, AiryReference(1, 0, x))  g == Times(AiryC2, AiryReference(2, 1, x))
               IN  r.is = Minus(f, g) /\ F("airy_bi", x) = Ok(Times(RootOf3, Plus(f, g)))
         [] OTHER -> TRUE
OrderedRight(name, n, x, r) ==
    IF ~r.ok
    THEN \/ ~IsFinite(x) \/ (name = "polylog" /\ (n \notin {2, 3} \/ LessEq(NearOne, AbsOf(x))))
         \/ (name # "polylog" /\ n > MAX_BESSEL_ORDER) \/ (name \in {"bessely", "besselk"} /\ LessEq(x, Zero))
    ELSE CASE name = "polylog" ->
                IF x = Whole(-1)
                THEN Law(<<Zeta(Whole(n))>>, LAMBDA v : r.is = Times(Minus(Power(Whole(2), 1 - n), One), v[1]))
                ELSE Law(<<Polylog(n, Negate(x)), Polylog(n, Times(x, x))>>, LAMBDA v :
                        LessF(AbsOf(Minus(Plus(r.is, v[1]), Times(Power(Whole(2), 1 - n), v[2]))), Times(Whole(4), Tiny)))
           [] name = "besseli" /\ LessF(Zero, x) ->
                Law(<<BesselI(n + 1, x), BesselK(n, x), BesselK(n + 1, x)>>, LAMBDA v :
                       Plus(Times(r.is, v[3]), Times(v[1], v[2])) = Over(One, x))
           [] OTHER -> TRUE
FunctionRight(name, args, r) ==
    CASE name \in OneArgument      -> OneArgumentRight(name, args[1], r)
      [] name \in OrderedFunctions -> OrderedRight(name, args[1], args[2], r)
      [] name = "log"  -> r.ok => Law(<<LogOf(args[2], args[1])>>, LAMBDA v : Times(v[1], r.is) = One)
      [] name = "beta" -> r.ok => /\ Beta(args[2], args[1]) = r
                                  /\ Law(<<Beta(Next1(args[1]), args[2]), Beta(args[1], Next1(args[2]))>>, LAMBDA v : Plus(v[1], v[2]) = r.is)
      [] name \in {"+", "*"} -> BinaryF(name, args[2], args[1]) = r
      [] name = "/"    -> (r.ok /\ IsFinite(args[2])) => FloatProduct(r.is, args[2]) = args[1]
      [] name = "mod"  -> (r.ok /\ IsFinite(args[2])) =>
                             /\ LessF(AbsOf(r.is), AbsOf(args[2])) /\ r.is[1] * args[1][1] >= 0
                             /\ IsInteger(Over(Minus(args[1], r.is), args[2]))
      [] OTHER         -> TRUE
-----------------------------------------------------------------------------
\* Within tol of where f changes its sign, or f is that small.
Near(f, x, tol) == LET n == (tol[1] * Grid) \div tol[2] IN {Plus(x, Ratio(k, Grid)) : k \in -n .. n}
SolvedBy(f, x, tol) ==
    \/ Small(f[x], tol)
    \/ \E y \in Near(f, x, tol) : IsFinite(f[y]) /\ IsFinite(f[x]) /\ ~SameSign(f[x], f[y])
\* A point where f has no value is taken for one on the far side: a root of
\* 1/x is found between -1 and 1.
DefinedOn(f, lo, hi) == \A k \in (lo[1] * Grid) \div lo[2] .. (hi[1] * Grid) \div hi[2] : IsFinite(f[Ratio(k, Grid)])
RootRight(f, lo, hi, r) ==
    r.ok => /\ LessEq(lo, r.is) /\ LessEq(r.is, hi)
            /\ DefinedOn(f, lo, hi) => SolvedBy(f, r.is, RootTol)
SlopeOf(coeffs, x) == FoldLeft(LAMBDA sum, i : Plus(sum, Times(Whole((i - 1) * coeffs[i]), Power(x, i - 2))), Zero, [i \in 1 .. Len(coeffs) - 1 |-> i + 1])
SolverRight(method, coeffs, o, r) ==
    LET f == SnappedAt(coeffs)
    IN  CASE method \in {"bisection", "brent"} -> RootRight(f, Min2(o[1], o[2]), IF LessF(o[1], o[2]) THEN o[2] ELSE o[1], r)
          [] method = "newton"     -> r.ok => Small(f[r.is], RootTol)
          [] method = "derivative" -> coeffs # <<>> => r = Ok(SlopeOf(coeffs, o[1]))
          [] OTHER                 -> TRUE

\* A bound variable may have any name; an integral from b to a is minus the
\* one from a to b, and is the sum of two; a root does not depend on the order
\* of the ends.  Without functions the arithmetic domain is a copy.
RECURSIVE Renamed(_, _, _)
Renamed(e, var, fresh) ==
    IF e = Variable(var) THEN Variable(fresh) ELSE [e EXCEPT !.kids = [i \in DOMAIN e.kids |-> Renamed(e.kids[i], var, fresh)]]
Sign2(r) == IF r.ok THEN Ok(Negate(r.is)) ELSE r
CalculusRight(e, r) ==
    LET k     == e.kids
        with(a, b) == EvalScientific(Call(e.head, <<k[1], k[2], a, b>>))
        fresh == Call(e.head, <<Renamed(k[1], k[2].head, "fresh"), Variable("fresh"), k[3], k[4]>>)
        middle == BinaryOp("/", BinaryOp("+", k[3], k[4]), Num(2))
        ends   == Collected(<<EvalScientific(k[3]), EvalScientific(k[4])>>)
        f      == [x \in Int \X Int |-> Snap(BodyAt(k[1], k[2].head, WithConstants(Bindings), x))]
    IN  /\ EvalScientific(fresh) = r
        /\ e.head = "root" => with(k[4], k[3]) = r
        /\ (e.head = "root" /\ ends.ok) => RootRight(f, Min2(ends.is[1], ends.is[2]), IF LessF(ends.is[1], ends.is[2]) THEN ends.is[2] ELSE ends.is[1], r)
        /\ e.head = "integral" => with(k[4], k[3]) = Sign2(r)
        /\ e.head = "integral" => Law(<<r, with(k[3], middle), with(middle, k[4])>>, LAMBDA v :
              LessF(AbsOf(Minus(v[1], Plus(v[2], v[3]))), Times(Whole(3), IntegralTol)))
ScientificRight(e, r) ==
    IF e.kind = "call" /\ e.head \in {"root", "integral"}
    THEN (Len(e.kids) = 4 /\ e.kids[2].kind = "variable") => CalculusRight(e, r)
    ELSE (\A n \in NodesOutside(e, {}) : n.kind # "call" /\ (n.kind = "variable" => n.head \notin {"pi", "e"})) => r = EvalArithmetic(e)
=============================================================================
