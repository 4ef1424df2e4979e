-------------------------------- MODULE Floats --------------------------------
(***************************************************************************)
(* f64 with its infinities and NaN, math/arithmetic.rs,                    *)
(* math/scientific.rs and math/solvers.rs.  Infinity is <<1, 0>>, NaN      *)
(* <<0, 0>>; zero has no sign.  Beyond MaxFloat a value is infinite.       *)
(*                                                                         *)
(* The functions of the standard library and of libm have irrational      *)
(* values.  Rational ones stand for them that obey their laws exactly:     *)
(* pi is 4, sin a wave of straight lines, exp(x) is (4 + x) / (4 - x) and  *)
(* infinite from 4 on.  What the code makes of them is translated.         *)
(***************************************************************************)
EXTENDS Conversions

CONSTANTS MaxFloat,            \* the largest f64
          MAX_FACTORIAL_INPUT, \* 10000 in the code
          MAX_BESSEL_ORDER,    \* 100 in the code
          NearOne,             \* polylog's series is refused from here on: 1 - 1e-6
          Tiny,                \* and ends with a term below this: 1e-17
          AiryTerms            \* 80 in the code

ASSUME FloatsAssumption == {MaxFloat, MAX_FACTORIAL_INPUT, MAX_BESSEL_ORDER, AiryTerms} \subseteq Nat \ {0}

Inf == <<1, 0>>
NaN == <<0, 0>>
IsFinite(q) == q[2] # 0
Exceeds(q)  == (Magnitude(q[1]) - 1) \div q[2] >= MaxFloat
Fit(q)      == IF IsFinite(q) /\ Exceeds(q) THEN <<Sign(q[1]), 0>> ELSE q
Signed(s)   == <<Sign(s), 0>>       \* an infinity, or NaN for 0
Negate(q)   == <<-q[1], q[2]>>
\* a < b and a <= b, false when either is NaN; both may be infinite
LessF(a, b) == /\ NaN \notin {a, b}
               /\ IF IsFinite(a) /\ IsFinite(b) THEN Below(a, b)
                  ELSE (IF IsFinite(a) THEN 0 ELSE a[1]) < (IF IsFinite(b) THEN 0 ELSE b[1])
LessEq(a, b) == LessF(a, b) \/ (a = b /\ a # NaN)

FloatSum(a, b) ==
    IF IsFinite(a) /\ IsFinite(b) THEN Fit(Plus(a, b))
    ELSE IF IsFinite(a) THEN b ELSE IF IsFinite(b) \/ a = b THEN a ELSE NaN
FloatProduct(a, b) == IF IsFinite(a) /\ IsFinite(b) THEN Fit(Times(a, b)) ELSE Signed(a[1] * b[1])
FloatQuotient(a, b) ==
    CASE b = Zero                     -> Signed(a[1])
      [] b # Zero /\ IsFinite(a) /\ IsFinite(b)  -> Fit(Over(a, b))
      [] IsFinite(a) /\ ~IsFinite(b)             -> IF b = NaN THEN NaN ELSE Zero
      [] b # Zero /\ ~IsFinite(a)                -> IF IsFinite(b) THEN Signed(a[1] * b[1]) ELSE NaN
FloatRem(a, b) ==
    IF b = Zero \/ ~IsFinite(a) \/ b = NaN THEN NaN
    ELSE IF ~IsFinite(b) THEN a ELSE Minus(a, Times(b, Whole(Quo(a[1] * b[2], a[2] * b[1]))))
HasFraction(q) == ~IsFinite(q) \/ ~IsInteger(q)       \* fract() # 0, also for infinities and NaN
RECURSIVE Repeated(_, _)
Repeated(a, n) == IF n = 0 THEN Whole(1) ELSE FloatProduct(Repeated(a, n - 1), a)
\* powf.  A fraction in the exponent is asked for of 0, 1 and negative numbers only.
FloatPow(a, b) ==
    CASE b = Zero \/ a = Whole(1)      -> Whole(1)
      [] b # Zero /\ a # Whole(1) /\ NaN \in {a, b} -> NaN
      [] b # Zero /\ a # Whole(1) /\ NaN \notin {a, b} ->
            IF ~IsFinite(b)
            THEN IF AbsOf(a) = Whole(1) THEN Whole(1) ELSE IF LessF(Whole(1), AbsOf(a)) = (b[1] > 0) THEN Inf ELSE Zero
            ELSE IF a = Zero THEN (IF b[1] < 0 THEN Inf ELSE Zero)
            ELSE IF ~IsFinite(a) THEN (IF b[1] < 0 THEN Zero ELSE IF IsInteger(b) /\ b[1] % 2 = 1 THEN a ELSE Inf)
            ELSE IF ~IsInteger(b) THEN NaN
            ELSE IF b[1] > 0 THEN Repeated(a, b[1]) ELSE FloatQuotient(Whole(1), Repeated(a, -b[1]))
-----------------------------------------------------------------------------
NanOrInf == Fail("nan_or_inf")
CheckFinite(q) == IF IsFinite(q) THEN Ok(q) ELSE NanOrInf

AddF(a, b) == CheckFinite(FloatSum(a, b))
SubF(a, b) == CheckFinite(FloatSum(a, Negate(b)))
MulF(a, b) == CheckFinite(FloatProduct(a, b))
DivF(a, b) ==
    CASE NaN \in {a, b} \/ (a = Zero /\ b = Zero) -> NanOrInf
      [] NaN \notin {a, b} /\ a # Zero /\ b = Zero -> DivByZero
      [] OTHER -> CheckFinite(FloatQuotient(a, b))
PowF(a, b) ==
    IF LessF(a, Zero) /\ HasFraction(b) THEN BadArguments ELSE CheckFinite(FloatPow(a, b))
RemF(a, b) ==
    IF NaN \in {a, b} THEN NanOrInf ELSE IF b = Zero THEN DivByZero ELSE CheckFinite(FloatRem(a, b))
AbsF(q) == AbsOf(q)
FactorialF(q) ==
    IF LessF(q, Zero) \/ HasFraction(q) THEN BadArguments
    ELSE IF q[1] > MAX_FACTORIAL_INPUT THEN Overflow
    ELSE LET result == FoldLeft(FloatProduct, Whole(1), [i \in 1 .. q[1] |-> Whole(i)])
         IN  IF IsFinite(result) THEN Ok(result) ELSE Overflow
BinaryF(op, a, b) ==
    CASE op = "+" -> AddF(a, b) [] op = "-" -> SubF(a, b) [] op = "*" -> MulF(a, b)
      [] op = "/" -> DivF(a, b) [] op = "^" -> PowF(a, b) [] op = "mod" -> RemF(a, b)
-----------------------------------------------------------------------------
\* What stands for the functions of f64 and of libm.
Pi == Whole(4)
Euler == <<5, 3>>      \* e is exp(1)
Wave(q) ==      \* sin: 1 at pi/2 = 2, 0 at pi = 4, -1 at 3 pi/2 = 6
    LET turn == Minus(q, Times(Whole(8), Whole(q[1] \div (8 * q[2]))))
    IN  IF Below(turn, Whole(2)) THEN Over(turn, Whole(2))
        ELSE IF Below(turn, Whole(6)) THEN Over(Minus(Whole(4), turn), Whole(2)) ELSE Over(Minus(turn, Whole(8)), Whole(2))
Exponential(q) ==
    IF q = NaN THEN NaN ELSE IF LessEq(Whole(4), q) THEN Inf ELSE IF LessEq(q, Whole(-4)) THEN Zero ELSE Over(Plus(Whole(4), q), Minus(Whole(4), q))
Logarithm(q) == IF ~IsFinite(q) THEN q ELSE Over(Times(Whole(4), Minus(q, Whole(1))), Plus(q, Whole(1)))
Halved(q)    == FloatQuotient(q, Whole(2))
\* Gamma at the whole and half numbers, the square root of pi being 2
RECURSIVE GammaSeries(_)
GammaSeries(q) == IF q = <<1, 2>> THEN Whole(2) ELSE IF q = Whole(1) THEN q ELSE Times(Minus(q, Whole(1)), GammaSeries(Minus(q, Whole(1))))
\* J_n and Y_n are told apart; I_0, I_1, K_0, K_1 obey I_0 K_1 + I_1 K_0 = 1/x
AtInfinity(x) == IF x = NaN THEN NaN ELSE Zero
LibmJ(n, x) == IF ~IsFinite(x) THEN AtInfinity(x) ELSE Over(Whole(1), Plus(Whole(n + 1), Times(x, x)))
LibmY(n, x) == IF ~IsFinite(x) THEN AtInfinity(x) ELSE Minus(Zero, Over(Whole(1), Plus(Whole(n + 2), x)))
BesselRaw(kind, n, x) ==
    LET i0 == Plus(Whole(1), Times(x, x))  i1 == Halved(x)  k0 == Over(Whole(1), Plus(Whole(1), x))
    IN  IF ~IsFinite(x) THEN (IF kind = "I" THEN NaN ELSE AtInfinity(x))
        ELSE IF kind = "I" THEN (IF n = 0 THEN i0 ELSE i1)
        ELSE IF n = 0 THEN k0 ELSE Over(Minus(Over(Whole(1), x), Times(i1, k0)), i0)
\* Euler-Maclaurin: zeta(2) and zeta(4) are pi^2/6 and pi^4/90
ZetaEm(s)  == CASE s = Whole(2) -> <<8, 3>> [] s = Whole(4) -> <<128, 45>> [] OTHER -> Plus(Whole(1), Over(Whole(1), Minus(s, Whole(1))))
ErfTail(x) == IF IsFinite(x) THEN Power(Over(Whole(1), Plus(Whole(1), x)), 2) ELSE AtInfinity(x)
LibmErfc(x) == IF LessF(x, Zero) THEN FloatSum(Whole(2), Negate(ErfTail(AbsOf(x)))) ELSE ErfTail(x)
AiryFar(x) == IF LessF(Zero, x) THEN [ai |-> Zero, bi |-> Inf] ELSE [ai |-> Zero, bi |-> Zero]
AiryC1 == <<1, 3>>
AiryC2 == <<1, 4>>
RootOf3 == <<7, 4>>
-----------------------------------------------------------------------------
(***************************************************************************)
(* math/scientific.rs on these values.                                     *)
(***************************************************************************)
\* the plain functions of f64: no guard but the one on the result
PlainFunctions == {"sin", "cos", "tan", "atan", "exp", "sinh", "cosh", "tanh"}
FloatFunction(name, x) ==
    LET up == Exponential(x)  down == Exponential(Negate(x))
        cos == Wave(Minus(Whole(2), x))
        part == Halved(AbsOf(x))
    IN  CASE x = NaN -> NaN
          [] x # NaN /\ name = "exp"  -> up
          [] x # NaN /\ name = "sinh" -> Halved(FloatSum(up, Negate(down)))
          [] x # NaN /\ name = "cosh" -> Halved(FloatSum(up, down))
          [] x # NaN /\ name = "tanh" -> IF Inf \in {up, down} THEN Whole(Sign(x[1])) ELSE Over(Minus(up, down), Plus(up, down))
          [] x # NaN /\ ~IsFinite(x)  -> IF name = "atan" THEN Whole(2 * x[1]) ELSE NaN
          [] IsFinite(x) /\ name = "sin"  -> Wave(x)
          [] IsFinite(x) /\ name = "cos"  -> cos
          [] IsFinite(x) /\ name = "tan"  -> IF cos = Zero THEN Whole(MaxFloat) ELSE Over(Wave(x), cos)
          [] IsFinite(x) /\ name = "atan" -> Over(Times(Whole(2), x), Plus(Whole(1), AbsOf(x)))

InverseSine(name, x) ==
    IF ~(LessEq(Whole(-1), x) /\ LessEq(x, Whole(1))) THEN BadArguments
    ELSE Ok(IF name = "asin" THEN Times(Whole(2), x) ELSE Minus(Whole(2), Times(Whole(2), x)))

\* A logarithm to the base given; ln has none.
LogIn(base, x) ==
    IF LessEq(x, Zero) THEN BadArguments
    ELSE CheckFinite(IF x = NaN THEN NaN ELSE FloatQuotient(Logarithm(x), Logarithm(base)))
Ln(x) == IF LessEq(x, Zero) THEN BadArguments ELSE CheckFinite(IF x = NaN THEN NaN ELSE Logarithm(x))
\* log(value, base)
LogOf(value, base) ==
    IF LessEq(value, Zero) \/ LessEq(base, Zero) \/ base = Whole(1) THEN BadArguments
    ELSE CheckFinite(IF NaN \in {value, base} THEN NaN ELSE FloatQuotient(Logarithm(value), Logarithm(base)))

RECURSIVE LanczosGamma(_)
LanczosGamma(x) ==
    IF ~IsFinite(x) THEN NaN
    ELSE IF LessF(x, <<1, 2>>)
    THEN FloatQuotient(Pi, FloatProduct(Wave(FloatProduct(Pi, x)), LanczosGamma(Minus(Whole(1), x))))
    ELSE Fit(GammaSeries(x))
IsPole(x) == LessEq(x, Zero) /\ IsFinite(x) /\ IsInteger(x)
Gamma(x)  == IF IsPole(x) THEN BadArguments ELSE CheckFinite(LanczosGamma(x))
LGamma(x) == IF IsPole(x) THEN NanOrInf ELSE CheckFinite(Logarithm(AbsOf(LanczosGamma(x))))
Beta(a, b) ==
    IF LessEq(a, Zero) \/ LessEq(b, Zero) THEN BadArguments
    ELSE CheckFinite(FloatQuotient(FloatProduct(LanczosGamma(a), LanczosGamma(b)), LanczosGamma(FloatSum(a, b))))

ErfRaw(x) ==
    IF x = Zero THEN Zero ELSE FloatProduct(Whole(IF LessF(x, Zero) THEN -1 ELSE 1), FloatSum(Whole(1), Negate(ErfTail(AbsOf(x)))))
Erf(x)  == CheckFinite(ErfRaw(x))
Erfc(x) == CheckFinite(LibmErfc(x))

\* s < 0: the functional equation
RECURSIVE Zeta(_)
Zeta(s) ==
    CASE ~IsFinite(s) -> NanOrInf
      [] s = Whole(1) -> BadArguments
      [] s = Zero     -> Ok(<<-1, 2>>)
      [] LessF(s, Zero) ->
            AndThen(Zeta(Minus(Whole(1), s)), LAMBDA reflected :
               CheckFinite(FloatProduct(FloatProduct(FloatPow(Whole(2), s), FloatPow(Pi, Minus(s, Whole(1)))),
                  FloatProduct(FloatProduct(Wave(Halved(FloatProduct(Pi, s))), LanczosGamma(Minus(Whole(1), s))), reflected))))
      [] OTHER -> CheckFinite(ZetaEm(s))

\* The series, each term rounded to a multiple of Tiny / 16.
Rounding  == Times(Tiny, <<1, 16>>)
RECURSIVE PolylogFrom(_, _, _, _, _)
PolylogFrom(s, z, sum, power, k) ==
    LET term == RoundedTo(Over(power, Power(Whole(k), s)), Rounding[2])
    IN  IF LessF(AbsOf(term), Tiny) THEN Plus(sum, term)
        ELSE PolylogFrom(s, z, Plus(sum, term), RoundedTo(Times(power, z), Rounding[2]), k + 1)
Polylog(s, z) ==
    CASE s \notin {2, 3} \/ ~IsFinite(z) \/ ~LessEq(AbsOf(z), Whole(1)) -> BadArguments
      [] s \in {2, 3} /\ z = Whole(1)  -> Zeta(Whole(s))
      [] s \in {2, 3} /\ z = Whole(-1) ->
            IF s = 2 THEN Ok(Minus(Zero, Over(Times(Pi, Pi), Whole(12)))) ELSE AndThen(Zeta(Whole(3)), LAMBDA v : Ok(Times(<<-3, 4>>, v)))
      [] OTHER -> IF LessEq(NearOne, AbsOf(z)) THEN BadArguments ELSE CheckFinite(PolylogFrom(s, z, Zero, z, 1))
-----------------------------------------------------------------------------
RequireOrder(n) == n <= MAX_BESSEL_ORDER
RequirePositive(x) == ~LessEq(x, Zero)
BesselJ(n, x) == IF RequireOrder(n) THEN CheckFinite(LibmJ(n, x)) ELSE BadArguments
BesselY(n, x) == IF RequireOrder(n) /\ RequirePositive(x) THEN CheckFinite(LibmY(n, x)) ELSE BadArguments
\* the recurrences: I_(k+1) = I_(k-1) - 2k/x I_k and K_(k+1) = K_(k-1) + 2k/x K_k
Climb(n, x, sign, low, high) ==
    FoldLeft(LAMBDA p, k : <<p[2], FloatSum(p[1], FloatProduct(FloatQuotient(Whole(sign * 2 * k), x), p[2]))>>, <<low, high>>, [k \in 1 .. n - 1 |-> k])[2]
BesselI(n, x) ==
    IF ~RequireOrder(n) THEN BadArguments
    ELSE IF n < 2 THEN CheckFinite(BesselRaw("I", n, x))
    ELSE IF x = Zero THEN Ok(Zero) ELSE CheckFinite(Climb(n, x, -1, BesselRaw("I", 0, x), BesselRaw("I", 1, x)))
BesselK(n, x) ==
    IF ~(RequireOrder(n) /\ RequirePositive(x)) THEN BadArguments
    ELSE IF n < 2 THEN CheckFinite(BesselRaw("K", n, x))
    ELSE CheckFinite(Climb(n, x, 1, BesselRaw("K", 0, x), BesselRaw("K", 1, x)))

\* Ai = c1 f - c2 g and Bi = sqrt(3) (c1 f + c2 g); each series goes on with
\* its last term times x^3 over two consecutive numbers.
AirySum(first, shift, x) ==
    FoldLeft(LAMBDA p, k : LET term == FloatQuotient(FloatProduct(p[2], FloatPow(x, Whole(3))), Whole((3 * k - 1 + shift) * (3 * k + shift)))
                           IN  <<FloatSum(p[1], term), term>>, <<first, first>>, [k \in 1 .. AiryTerms |-> k])[1]
AirySeries(x) ==
    LET f == FloatProduct(AiryC1, AirySum(Whole(1), 0, x))  g == FloatProduct(AiryC2, AirySum(x, 1, x))
    IN  [ai |-> FloatSum(f, Negate(g)), bi |-> FloatProduct(RootOf3, FloatSum(f, g))]
AiryPair(x) == IF LessEq(AbsOf(x), Whole(8)) THEN AirySeries(x) ELSE AiryFar(x)
-----------------------------------------------------------------------------
\* The functions of one argument, by name.
OneArgument == PlainFunctions \cup {"asin", "acos", "ln", "log10", "log2", "gamma", "erf", "erfc", "lgamma", "zeta", "airy_ai", "airy_bi"}
UnaryFunction(name, x) ==
    CASE name \in PlainFunctions -> CheckFinite(FloatFunction(name, x))
      [] name \in {"asin", "acos"} -> InverseSine(name, x)
      [] name = "ln"     -> Ln(x)
      [] name = "log10"  -> LogIn(Whole(10), x)
      [] name = "log2"   -> LogIn(Whole(2), x)
      [] name = "gamma"  -> Gamma(x)
      [] name = "lgamma" -> LGamma(x)
      [] name = "erf"    -> Erf(x)
      [] name = "erfc"   -> Erfc(x)
      [] name = "zeta"   -> Zeta(x)
      [] name = "airy_ai" -> CheckFinite(AiryPair(x).ai)
      [] name = "airy_bi" -> CheckFinite(AiryPair(x).bi)
\* polylog and the four Bessel functions: a whole number and an argument
OrderedFunctions == {"polylog", "besselj", "bessely", "besseli", "besselk"}
OrderedFunction(name, n, x) ==
    CASE name = "polylog" -> Polylog(n, x) [] name = "besselj" -> BesselJ(n, x) [] name = "bessely" -> BesselY(n, x)
      [] name = "besseli" -> BesselI(n, x) [] name = "besselk" -> BesselK(n, x)
-----------------------------------------------------------------------------
(***************************************************************************)
(* math/solvers.rs and the numeric derivative.  A function to solve or to  *)
(* integrate is a function on these values; between two values of an       *)
(* iteration f64 rounds, to multiples of 1/Grid here, and so does the      *)
(* function.                                                               *)
(***************************************************************************)
CONSTANTS Grid,      \* the f64 near the roots are the multiples of 1/Grid
          SlopeStep, \* cbrt(EPSILON), the step of the derivative at |x| <= 1
          RootTol, RootSteps,          \* 1e-12 and 200 in the code
          IntegralTol, IntegralDepth   \* 1e-10 and 50

ASSUME SolversAssumption == {Grid, RootSteps, IntegralDepth} \subseteq Nat \ {0}

Snap(q) == IF IsFinite(q) THEN RoundedTo(q, Grid) ELSE q
NotConverged == Fail("not_converged")      \* a Domain error in the code
Small(q, tol) == LessF(AbsOf(q), tol)
Middle(a, b)  == Snap(Halved(FloatSum(a, b)))

RECURSIVE NewtonFrom(_, _, _, _, _)
NewtonStep(f, df, x, tol, left, fx, dfx) ==
    IF Small(fx, tol) THEN Ok(x)
    ELSE IF left = 0 THEN NotConverged
    ELSE IF dfx = Zero THEN BadArguments
    ELSE NewtonFrom(f, df, Snap(FloatSum(x, Negate(FloatQuotient(fx, dfx)))), tol, left - 1)
NewtonFrom(f, df, x, tol, left) == NewtonStep(f, df, x, tol, left, f[x], df[x])
NewtonRaphson(f, df, x0, tol, maxIter) == NewtonFrom(f, df, x0, tol, maxIter)

SameSign(p, q) == LessF(Zero, FloatProduct(p, q))
RECURSIVE Halving(_, _, _, _, _, _)
HalvingStep(f, lo, hi, fLo, tol, left, mid) ==
    IF left = 0 \/ Small(f[mid], tol) \/ LessF(Halved(FloatSum(hi, Negate(lo))), tol) THEN Ok(mid)
    ELSE IF LessEq(FloatProduct(fLo, f[mid]), Zero) THEN Halving(f, lo, mid, fLo, tol, left - 1)
    ELSE Halving(f, mid, hi, fLo, tol, left - 1)
Halving(f, lo, hi, fLo, tol, left) == HalvingStep(f, lo, hi, fLo, tol, left, Middle(lo, hi))
Bisection(f, a, b, tol, maxIter) ==
    IF SameSign(f[a], f[b]) THEN BadArguments ELSE Halving(f, a, b, f[a], tol, maxIter)

\* Brent: b is the better end, a the other, c the b of the step before and d
\* the c before that; bisected says how the step before was made.
BrentState(a, fa, b, fb, c, fc, d, bisected) ==
    IF LessF(AbsOf(fa), AbsOf(fb))
    THEN [a |-> b, fa |-> fb, b |-> a, fb |-> fa, c |-> c, fc |-> fc, d |-> d, bisected |-> bisected]
    ELSE [a |-> a, fa |-> fa, b |-> b, fb |-> fb, c |-> c, fc |-> fc, d |-> d, bisected |-> bisected]
\* one term of the inverse quadratic interpolation
Term(x, p, q, r) ==     \* x p q / ((r - p) (r - q))
    Snap(FloatQuotient(FloatProduct(FloatProduct(x, p), q), FloatProduct(FloatSum(r, Negate(p)), FloatSum(r, Negate(q)))))
Interpolated(s) ==
    IF s.fa # s.fc /\ s.fb # s.fc
    THEN FloatSum(FloatSum(Term(s.a, s.fb, s.fc, s.fa), Term(s.b, s.fa, s.fc, s.fb)), Term(s.c, s.fa, s.fb, s.fc))
    ELSE Snap(FloatSum(s.b, Negate(FloatQuotient(FloatProduct(s.fb, FloatSum(s.b, Negate(s.a))), FloatSum(s.fb, Negate(s.fa))))))
Min2(p, q) == IF LessF(q, p) THEN q ELSE p
Gap(p, q) == AbsOf(FloatSum(p, Negate(q)))
FarFrom(s, x, tol) ==
    LET quarter == FloatQuotient(FloatSum(FloatProduct(Whole(3), s.a), s.b), Whole(4))
        between == IF LessF(s.a, s.b) THEN LessF(quarter, x) /\ LessF(x, s.b) ELSE LessF(s.b, x) /\ LessF(x, quarter)
        last    == IF s.bisected THEN Gap(s.b, s.c) ELSE Gap(s.c, s.d)
    IN  ~between \/ LessEq(Halved(last), Gap(x, s.b)) \/ LessF(last, tol)
\* Mutant: the end with the sign of the new point is kept.
ReplacedOther(s, x, fx, bisected) ==
    IF LessF(FloatProduct(s.fb, fx), Zero) THEN BrentState(s.a, s.fa, x, fx, s.b, s.fb, s.c, bisected)
    ELSE BrentState(x, fx, s.b, s.fb, s.b, s.fb, s.c, bisected)
Replaced(s, x, fx, bisected) ==
    IF LessF(FloatProduct(s.fa, fx), Zero) THEN BrentState(s.a, s.fa, x, fx, s.b, s.fb, s.c, bisected)
    ELSE BrentState(x, fx, s.b, s.fb, s.b, s.fb, s.c, bisected)
RECURSIVE BrentFrom(_, _, _, _)
BrentMove(f, s, tol, left, x, bisect, middle) ==
    IF bisect THEN BrentFrom(f, Replaced(s, middle, f[middle], TRUE), tol, left - 1)
    ELSE BrentFrom(f, Replaced(s, x, f[x], FALSE), tol, left - 1)
BrentStep(f, s, tol, left, x) == BrentMove(f, s, tol, left, x, FarFrom(s, x, tol), Middle(s.a, s.b))
BrentFrom(f, s, tol, left) ==
    IF Small(s.fb, tol) THEN Ok(s.b)
    ELSE IF left = 0 THEN NotConverged
    ELSE IF Small(Gap(s.b, s.a), tol) THEN Ok(s.b)
    ELSE BrentStep(f, s, tol, left, Interpolated(s))
BrentAt(f, s, tol, maxIter) == BrentFrom(f, [s EXCEPT !.c = s.a, !.fc = s.fa], tol, maxIter)
Brent(f, a, b, tol, maxIter) ==
    IF SameSign(f[a], f[b]) THEN BadArguments
    ELSE BrentAt(f, BrentState(a, f[a], b, f[b], a, f[a], Zero, TRUE), tol, maxIter)

RECURSIVE SecantFrom(_, _, _, _, _, _)
SecantStep(f, curr, fCurr, next, tol, left, slope) ==
    IF slope = Zero THEN BadArguments
    ELSE IF ~IsFinite(next) THEN NanOrInf
    ELSE IF Small(f[next], tol) \/ Small(Gap(next, curr), tol) THEN Ok(next)
    ELSE SecantFrom(f, curr, fCurr, next, tol, left - 1)
SecantFrom(f, prev, fPrev, curr, tol, left) ==
    IF left = 0 THEN NotConverged
    ELSE LET slope == FloatSum(f[curr], Negate(fPrev))
         IN  SecantStep(f, curr, f[curr], Snap(FloatSum(curr, Negate(FloatQuotient(FloatProduct(f[curr], FloatSum(curr, Negate(prev))), slope)))), tol, left, slope)
Secant(f, x0, x1, tol, maxIter) ==
    IF Small(f[x0], tol) THEN Ok(x0) ELSE IF Small(f[x1], tol) THEN Ok(x1) ELSE SecantFrom(f, x0, f[x0], x1, tol, maxIter)
-----------------------------------------------------------------------------
SimpsonOf(a, b, fa, fm, fb) ==
    FloatProduct(FloatQuotient(FloatSum(b, Negate(a)), Whole(6)), FloatSum(FloatSum(fa, FloatProduct(Whole(4), fm)), fb))
RECURSIVE SimpsonRec(_, _, _, _, _, _, _, _, _)
SimpsonParts(f, a, b, fa, fm, fb, whole, tol, depth, m, flm, frm, left, right) ==
    LET delta == FloatSum(FloatSum(left, right), Negate(whole))
        lower == SimpsonRec(f, a, m, fa, flm, fm, left, Halved(tol), depth - 1)
        upper == SimpsonRec(f, m, b, fm, frm, fb, right, Halved(tol), depth - 1)
    IN  IF ~(IsFinite(flm) /\ IsFinite(frm)) THEN NanOrInf
        ELSE IF LessEq(AbsOf(delta), FloatProduct(Whole(15), tol)) THEN Ok(FloatSum(FloatSum(left, right), FloatQuotient(delta, Whole(15))))
        ELSE IF depth = 0 THEN NotConverged
        ELSE AndThen(lower, LAMBDA l : AndThen(upper, LAMBDA u : Ok(FloatSum(l, u))))
SimpsonHalves(f, a, b, fa, fm, fb, whole, tol, depth, m, flm, frm) ==
    SimpsonParts(f, a, b, fa, fm, fb, whole, tol, depth, m, flm, frm, SimpsonOf(a, m, fa, flm, fm), SimpsonOf(m, b, fm, frm, fb))
SimpsonRec(f, a, b, fa, fm, fb, whole, tol, depth) ==
    LET m == Halved(FloatSum(a, b))
    IN  SimpsonHalves(f, a, b, fa, fm, fb, whole, tol, depth, m, f[Halved(FloatSum(a, m))], f[Halved(FloatSum(m, b))])
SimpsonOver(f, lo, hi, sign, fa, fm, fb, tol, depth) ==
    IF ~(IsFinite(fa) /\ IsFinite(fm) /\ IsFinite(fb)) THEN NanOrInf
    ELSE AndThen(SimpsonRec(f, lo, hi, fa, fm, fb, SimpsonOf(lo, hi, fa, fm, fb), tol, depth), LAMBDA v : Ok(FloatProduct(Whole(sign), v)))
AdaptiveSimpson(f, a, b, tol, maxDepth) ==
    IF a = b THEN Ok(Zero)
    ELSE IF LessF(a, b) THEN SimpsonOver(f, a, b, 1, f[a], f[Halved(FloatSum(a, b))], f[b], tol, maxDepth)
    ELSE SimpsonOver(f, b, a, -1, f[b], f[Halved(FloatSum(a, b))], f[a], tol, maxDepth)

\* gauss_kronrod_15: a rule's value and how far a coarser one on some of its
\* points is off; Boole's and Simpson's rules stand for Kronrod's and Gauss's.
Boole(h, f0, f1, f2, f3, f4) ==
    FloatProduct(FloatQuotient(h, Whole(90)), FloatSum(FloatSum(FloatProduct(Whole(7), FloatSum(f0, f4)), FloatProduct(Whole(32), FloatSum(f1, f3))), FloatProduct(Whole(12), f2)))
TwoRules(h, s, f0, f1, f2, f3, f4) ==
    IF \E v \in {f0, f1, f2, f3, f4} : ~IsFinite(v) THEN NanOrInf
    ELSE Ok([value |-> FloatProduct(Whole(s), Boole(h, f0, f1, f2, f3, f4)),
             err |-> Gap(Boole(h, f0, f1, f2, f3, f4), SimpsonOf(Zero, h, f0, f2, f4))])
GaussKronrod(f, a, b) ==
    LET at(i) == f[FloatSum(Min2(a, b), FloatProduct(<<i, 4>>, Gap(a, b)))]
    IN  IF a = b THEN Ok([value |-> Zero, err |-> Zero])
        ELSE TwoRules(Gap(a, b), IF LessF(a, b) THEN 1 ELSE -1, at(0), at(1), at(2), at(3), at(4))

\* The central difference at x, and Richardson's extrapolation from two.
Incline(f, x, h) == FloatQuotient(FloatSum(f[FloatSum(x, h)], Negate(f[FloatSum(x, Negate(h))])), FloatProduct(Whole(2), h))
Extrapolated(d1, d2) == CheckFinite(FloatQuotient(FloatSum(FloatProduct(Whole(4), d2), Negate(d1)), Whole(3)))
DerivativeBy(f, x, h) == Extrapolated(Incline(f, x, h), Incline(f, x, Halved(h)))
Derivative(f, x) == DerivativeBy(f, x, FloatProduct(SlopeStep, IF LessF(Whole(1), AbsOf(x)) THEN AbsOf(x) ELSE Whole(1)))
=============================================================================
