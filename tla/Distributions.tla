----------------------------- MODULE Distributions -----------------------------
(***************************************************************************)
(* The distributions of math/statistics.rs and the statistics domain's way *)
(* to them.  What the code adds up as logarithms is multiplied here; the   *)
(* incomplete beta function is exact where one of its parameters is whole, *)
(* the incomplete gamma function is made of the stand-in for exp.  The     *)
(* densities of norm and t are roots: their squares stand for them.        *)
(***************************************************************************)
EXTENDS Floats

CONSTANTS InverseSteps,   \* 100 in the code: how often an inverse is corrected
          InverseTol,     \* and the correction it ends with: 1e-10
          Least,          \* where it starts again below zero: 1e-10
          Fine            \* f64 keeps multiples of 1 / Fine here

ASSUME DistributionsAssumption == InverseSteps \in Nat \ {0} /\ Fine \in Nat \ {0}

OneHalf      == <<1, 2>>
IsPositive(q) == LessF(Zero, q)
IsChance(q)   == LessEq(Zero, q) /\ LessEq(q, Whole(1))
InF64(q)  == RoundedTo(q, Fine)
Stored(q)   == RoundedTo(q, Fine * Fine * Fine * Fine)
\* exp(n ln q): 0 ln 0 is not a number
LogPower(q, n) == IF q # Zero THEN Power(q, n) ELSE IF n = 0 THEN NaN ELSE Zero
\* the root of a square; of anything else one that f64 could give
RootNear(q) ==
    LET exact == {k \in 0 .. 200 : k * k = q[1] * q[2]}
        size  == 8 * Fine
    IN  IF exact # {} THEN Ratio(TheOne(exact), q[2]) ELSE Ratio(CHOOSE k \in 0 .. 5 * size : (k + 1) * (k + 1) * q[2] > q[1] * size * size, size)
\* q^n for a whole or half n
HalfPower(q, n) == IF IsInteger(n) THEN Power(q, n[1]) ELSE Times(RootNear(q), Power(q, (n[1] - 1) \div 2))
AsU64(q) == IF ~IsPositive(q) THEN 0 ELSE IF IsFinite(q) THEN q[1] \div q[2] ELSE MaxFloat

\* ln_gamma and ln_factorial, held as what they are the logarithms of
LnGamma(z)     == IF LessEq(z, Zero) \/ ~IsFinite(z) THEN NaN ELSE GammaSeries(z)
LnFactorial(n) == GammaSeries(Whole(n + 1))
LnBinomial(n, k) == IF k > n THEN NaN ELSE Over(LnFactorial(n), Times(LnFactorial(k), LnFactorial(n - k)))
-----------------------------------------------------------------------------
\* P(a, x) from P(a - 1, x); P(1/2, x) is r / (1 + r) for r = sqrt(2 x)
RECURSIVE LowerGamma(_, _)
LowerGamma(a, x) ==
    IF a = OneHalf THEN LET r == RootNear(Times(Whole(2), x)) IN Over(r, Plus(Whole(1), r))
    ELSE LET b == Minus(a, Whole(1))
             term == Over(Times(HalfPower(x, b), Exponential(Negate(x))), GammaSeries(a))
         IN  Minus(IF b = Zero THEN Whole(1) ELSE LowerGamma(b, x), term)
RegularizedGammaInc(a, x) ==
    IF LessF(x, Zero) \/ LessEq(a, Zero) \/ NaN \in {a, x} THEN NaN ELSE IF x = Zero THEN Zero ELSE LowerGamma(a, x)

\* 1 + (1-b) a/(a+1) x + ...: ends at k = b
BetaTerms(a, b, x) ==
    FoldLeft(LAMBDA p, k : LET term == Times(p[2], Over(Times(Times(Plus(a, Whole(k - 1)), Minus(Whole(k), b)), x), Times(Plus(a, Whole(k)), Whole(k))))
                           IN  <<Plus(p[1], term), term>>, <<Whole(1), Whole(1)>>, [k \in 1 .. b[1] |-> k])[1]
BetaPrefactor(a, b, x) == Over(Times(HalfPower(x, a), LnGamma(Plus(a, b))), Times(Times(a, LnGamma(a)), LnGamma(b)))
BetaSum(s) == Times(BetaPrefactor(s[1], s[2], s[3]), BetaTerms(s[1], s[2], s[3]))
\* I_x(a, b) = 1 - I_(1-x)(b, a)
OtherSide(s) == <<s[2], s[1], Minus(Whole(1), s[3])>>
OnSide(mirrored, q) == IF mirrored THEN FloatSum(Whole(1), Negate(q)) ELSE q
\* The power series of I_x(a, b).  Without an end its limit is known from
\* the mirrored series, which has one.
BetaSeries(s) == OnSide(~IsInteger(s[2]), BetaSum(IF IsInteger(s[2]) THEN s ELSE OtherSide(s)))
RegularizedBetaInc(a, b, x) ==
    CASE ~IsChance(x) \/ LessEq(a, Zero) \/ LessEq(b, Zero) \/ NaN \in {a, b} -> NaN
      [] OTHER -> IF x \in {Zero, Whole(1)} THEN x
                  ELSE OnSide(~LessEq(x, OneHalf), BetaSeries(IF LessEq(x, OneHalf) THEN <<a, b, x>> ELSE OtherSide(<<a, b, x>>)))
-----------------------------------------------------------------------------
\* sigma is not looked at: a negative one turns the curve around
Normed(x, mu, sigma) == FloatQuotient(FloatSum(x, Negate(mu)), sigma)
Bell(z) == IF z = NaN THEN NaN ELSE Exponential(Negate(Halved(FloatProduct(z, z))))
NormPdf(x, mu, sigma) ==
    LET z == Normed(x, mu, sigma)
    IN  FloatQuotient(FloatProduct(Bell(z), Bell(z)), FloatProduct(Whole(2 * Pi[1] * Sign(sigma[1])), FloatProduct(sigma, sigma)))
ErrorFunction(z) == IF IsFinite(z) THEN RegularizedGammaInc(OneHalf, Halved(Times(z, z))) ELSE NaN
WithSign(z, p) == IF LessEq(Zero, z) THEN p ELSE Negate(p)
NormCdfAt(z) == FloatSum(OneHalf, Halved(WithSign(z, ErrorFunction(z))))
NormCdf(x, mu, sigma) == NormCdfAt(Normed(x, mu, sigma))
\* Of the three approximations the tails' is in p below Low, in 1 - p above.
Low == <<1, 5>>
Tail1(p) == Over(Minus(Times(Whole(2), p), Whole(1)), Times(Whole(2), p))
Centre(p) == LET w == Minus(Times(Whole(2), p), Whole(1)) IN Over(w, Minus(Whole(1), AbsOf(w)))
NormInvStandard(p) ==
    IF LessF(p, Low) THEN Tail1(p) ELSE IF LessEq(p, Minus(Whole(1), Low)) THEN Centre(p) ELSE Negate(Tail1(Minus(Whole(1), p)))
Proper(p) == ~LessEq(p, Zero) /\ ~LessEq(Whole(1), p) /\ p # NaN
NormInv(p, mu, sigma) == IF Proper(p) THEN FloatSum(mu, FloatProduct(sigma, NormInvStandard(p))) ELSE NaN

TPdf(x, df) ==
    LET gammas == Over(LnGamma(Halved(Plus(df, Whole(1)))), LnGamma(Halved(df)))
    IN  IF ~IsPositive(df) THEN NaN
        ELSE Over(Over(Times(gammas, gammas), Times(df, Pi)), Power(Plus(Whole(1), Over(Times(x, x), df)), df[1] + 1))
TCdf(x, df) ==
    OnSide(LessEq(Zero, x), Halved(RegularizedBetaInc(Halved(df), OneHalf, FloatQuotient(df, FloatSum(df, FloatProduct(x, x))))))

AtZero(d, two) == CASE LessF(d, Whole(2)) -> Inf [] d = Whole(2) -> two [] OTHER -> Zero
Chi2Pdf(x, k) ==
    CASE LessF(x, Zero) -> Zero
      [] x = Zero       -> AtZero(k, OneHalf)
      [] OTHER -> IF ~IsPositive(k) THEN NaN
                  ELSE Over(Times(HalfPower(x, Minus(Halved(k), Whole(1))), Exponential(Negate(Halved(x)))),
                            Times(HalfPower(Whole(2), Halved(k)), LnGamma(Halved(k))))
Chi2Cdf(x, k) == IF LessEq(x, Zero) THEN Zero ELSE RegularizedGammaInc(Halved(k), Halved(x))
FPdf(x, d1, d2) ==
    CASE LessF(x, Zero) -> Zero
      [] x = Zero       -> AtZero(d1, Whole(1))
      [] OTHER -> IF ~(IsPositive(d1) /\ IsPositive(d2)) THEN NaN
                  ELSE LET a == Halved(d1)  b == Halved(d2)
                           coef == Over(Times(Times(HalfPower(d1, a), HalfPower(d2, b)), LnGamma(Plus(a, b))), Times(LnGamma(a), LnGamma(b)))
                       IN  Times(coef, Over(HalfPower(x, Minus(a, Whole(1))), HalfPower(InF64(Plus(Times(d1, x), d2)), Plus(a, b))))
FCdf(x, d1, d2) ==
    IF LessEq(x, Zero) THEN Zero
    ELSE RegularizedBetaInc(Halved(d1), Halved(d2), FloatQuotient(FloatProduct(d1, x), FloatSum(FloatProduct(d1, x), d2)))
-----------------------------------------------------------------------------
\* Newton's corrections.  A density of zero ends those of t and chi2; a chi2
\* or F value below zero starts again at Least.
Slope1(name, x, d) == CASE name = "t" -> RootNear(TPdf(x, d[1])) [] name = "chi2" -> Chi2Pdf(x, d[1]) [] name = "f" -> FPdf(x, d[1], d[2])
Area(name, x, d)   == CASE name = "t" -> TCdf(x, d[1]) [] name = "chi2" -> Chi2Cdf(x, d[1]) [] name = "f" -> FCdf(x, d[1], d[2])
NewtonMove(name, x, dx) ==
    LET y == InF64(Minus(x, dx)) IN [x |-> IF name # "t" /\ LessEq(y, Zero) THEN Least ELSE y, done |-> LessF(AbsOf(dx), InverseTol)]
CorrectedBy(name, x, slope, area, p) ==
    IF slope # Zero THEN NewtonMove(name, x, Over(Minus(area, p), slope))
    ELSE IF name = "f" THEN [x |-> InF64(Times(x, <<3, 2>>)), done |-> FALSE] ELSE [x |-> x, done |-> TRUE]
Corrected(name, x, p, d) == CorrectedBy(name, x, Stored(Slope1(name, x, d)), Stored(Area(name, x, d)), p)
InvertedArea(name, start, p, d) ==
    FoldLeft(LAMBDA s, i : IF s.done THEN s ELSE Corrected(name, s.x, p, d), [x |-> start, done |-> FALSE], [i \in 1 .. InverseSteps |-> i])
\* Wilson and Hilferty's first guess
FirstGuess(p, k) ==
    LET part == Over(Whole(2), Times(Whole(9), k))
        y    == Plus(Minus(Whole(1), part), Times(NormInvStandard(p), RootNear(part)))
        x    == InF64(Times(k, Power(y, 3)))
    IN  IF LessEq(x, Zero) THEN k ELSE x
Start(name, p, d) == CASE name = "t" -> NormInvStandard(p) [] name = "chi2" -> FirstGuess(p, d[1]) [] name = "f" -> Whole(1)
KindOf(name) == CASE name = "t_inv" -> "t" [] name = "chi2_inv" -> "chi2" [] name = "f_inv" -> "f"
\* t_inv, chi2_inv and f_inv
QuantileOf(name, p, d) == IF Proper(p) THEN InvertedArea(name, Start(name, p, d), p, d).x ELSE NaN
-----------------------------------------------------------------------------
\* A k that is not whole has no chance in poisson_pmf and is cut off in
\* binom_pmf; not a number is taken for 0.
PoissonPmf(k, lambda) ==
    IF LessF(k, Zero) \/ LessEq(lambda, Zero) \/ (IsFinite(k) /\ ~IsInteger(k)) THEN Zero
    ELSE FloatQuotient(FloatProduct(LogPower(lambda, AsU64(k)), Exponential(Negate(lambda))), LnFactorial(AsU64(k)))
PoissonCdf(k, lambda) ==
    IF LessF(k, Zero) \/ LessEq(lambda, Zero) THEN Zero
    ELSE FloatSum(Whole(1), Negate(RegularizedGammaInc(Whole(AsU64(k) + 1), lambda)))
BinomPmf(k, n, p) ==
    IF LessF(k, Zero) \/ LessF(n, Zero) \/ ~IsChance(p) \/ AsU64(k) > AsU64(n) THEN Zero
    ELSE FloatProduct(LnBinomial(AsU64(n), AsU64(k)), FloatProduct(LogPower(p, AsU64(k)), LogPower(Minus(Whole(1), p), AsU64(n) - AsU64(k))))
BinomCdf(k, n, p) ==
    IF LessF(k, Zero) \/ LessF(n, Zero) \/ ~IsChance(p) THEN Zero
    ELSE IF AsU64(k) >= AsU64(n) THEN Whole(1)
    ELSE FloatSum(Whole(1), Negate(RegularizedBetaInc(Whole(AsU64(k) + 1), Whole(AsU64(n) - AsU64(k)), p)))

OfTwo   == {"t_pdf", "t_cdf", "t_inv", "chi2_pdf", "chi2_cdf", "chi2_inv", "poisson_pmf", "poisson_cdf"}
OfThree == {"norm_pdf", "norm_cdf", "norm_inv", "f_pdf", "f_cdf", "f_inv", "binom_pmf", "binom_cdf"}
Roots2  == {"norm_pdf", "t_pdf"}
\* the functions on any numbers, as the API gives them away
Distribution(name, s) ==
    CASE name = "norm_pdf" -> NormPdf(s[1], s[2], s[3]) [] name = "norm_cdf" -> NormCdf(s[1], s[2], s[3]) [] name = "norm_inv" -> NormInv(s[1], s[2], s[3])
      [] name = "t_pdf" -> TPdf(s[1], s[2])        [] name = "t_cdf" -> TCdf(s[1], s[2])
      [] name = "chi2_pdf" -> Chi2Pdf(s[1], s[2])  [] name = "chi2_cdf" -> Chi2Cdf(s[1], s[2])
      [] name = "f_pdf" -> FPdf(s[1], s[2], s[3])  [] name = "f_cdf" -> FCdf(s[1], s[2], s[3])
      [] name \in {"t_inv", "chi2_inv", "f_inv"} -> QuantileOf(KindOf(name), s[1], Tail(s))
      [] name = "poisson_pmf" -> PoissonPmf(s[1], s[2]) [] name = "poisson_cdf" -> PoissonCdf(s[1], s[2])
      [] name = "binom_pmf" -> BinomPmf(s[1], s[2], s[3]) [] name = "binom_cdf" -> BinomCdf(s[1], s[2], s[3])
-----------------------------------------------------------------------------
(***************************************************************************)
(* What distributions are to obey.                                         *)
(***************************************************************************)
Chances(name, k, rest) == FoldLeft(LAMBDA sum, i : FloatSum(sum, Distribution(name, <<Whole(i)>> \o rest)), Zero, [i \in 1 .. k + 1 |-> i - 1])
\* between two places right of the top the area lies between the rectangles
Squeezed(low, high, width, area) == ~Below(area, Times(low, width)) /\ ~Below(Times(high, width), area)
FRight(x, d1, d2) ==
    LET y == Times(Whole(2), x)  mirrored == Over(Whole(1), x)
    IN  /\ Plus(FCdf(x, d1, d2), FCdf(mirrored, d2, d1)) = Whole(1)
        /\ ~Below(Times(x, Times(d1, Plus(d2, Whole(2)))), Times(d2, Minus(d1, Whole(2)))) =>
               Squeezed(FPdf(y, d1, d2), FPdf(x, d1, d2), x, Minus(FCdf(y, d1, d2), FCdf(x, d1, d2)))
\* The corrections end, but for F with d1 above two they may go to and fro
\* between Least and a value far out until the steps are used up.
EndRight(name, p, d) ==
    \A end \in {InvertedArea(name, Start(name, p, d), p, d)} :
        /\ ~end.done => name = "f" /\ Below(Whole(2), d[1])
        /\ end.done  => Below(AbsOf(Minus(Area(name, end.x, d), p)), InverseTol)
        /\ name # "t" => IsPositive(end.x)
InverseRight(name, s) ==
    CASE ~Proper(s[1])      -> Distribution(name, s) = NaN
      [] name = "norm_inv"  -> s[3] # Zero => NormCdf(Distribution(name, s), s[2], s[3]) = s[1]
      [] OTHER              -> /\ EndRight(KindOf(name), s[1], Tail(s))
                               /\ name = "t_inv" => Distribution(name, <<Minus(Whole(1), s[1]), s[2]>>) = Negate(Distribution(name, s))
CurveRight(name, s, q) ==
    CASE name = "norm_cdf" -> s[3] # Zero => /\ Plus(q, NormCdf(Minus(Times(Whole(2), s[2]), s[1]), s[2], s[3])) = Whole(1)
                                             /\ Proper(q) /\ NormInv(q, s[2], s[3]) = s[1]
                                             /\ Chi2Cdf(FloatProduct(Normed(s[1], s[2], s[3]), Normed(s[1], s[2], s[3])), Whole(1)) = AbsOf(Minus(Times(Whole(2), q), Whole(1)))
      [] name = "norm_pdf" -> s[3] # Zero => NormPdf(Minus(Times(Whole(2), s[2]), s[1]), s[2], s[3]) = q
      [] name = "t_cdf"    -> IsPositive(s[2]) => /\ Plus(q, TCdf(Negate(s[1]), s[2])) = Whole(1)
                                                /\ FCdf(Times(s[1], s[1]), Whole(1), s[2]) = AbsOf(Minus(Times(Whole(2), q), Whole(1)))
      [] name = "t_pdf"    -> IsPositive(s[2]) => TPdf(Negate(s[1]), s[2]) = q /\ LessEq(q, TPdf(Zero, s[2]))
      [] name = "chi2_cdf" -> (IsPositive(s[1]) /\ IsInteger(Halved(s[2])) /\ IsPositive(s[2])) =>
                                  Plus(q, PoissonCdf(Whole(s[2][1] \div 2 - 1), Halved(s[1]))) = Whole(1)
      [] name = "chi2_pdf" -> (IsPositive(s[1]) /\ IsInteger(Halved(s[2])) /\ IsPositive(s[2])) =>
                                  Times(Whole(2), q) = PoissonPmf(Whole(s[2][1] \div 2 - 1), Halved(s[1]))
      [] name = "f_cdf"    -> (IsPositive(s[1]) /\ IsPositive(s[2]) /\ IsPositive(s[3])) => FRight(s[1], s[2], s[3])
      [] name = "f_pdf"    -> LessF(s[1], Zero) => q = Zero
ChanceRight(name, s, q) ==
    LET k == AsU64(s[1])
    IN  CASE name = "poisson_cdf" -> (LessEq(Zero, s[1]) /\ IsPositive(s[2])) => q = Chances("poisson_pmf", k, Tail(s))
          [] name = "binom_cdf"   -> (LessEq(Zero, s[1]) /\ LessEq(Zero, s[2]) /\ LessF(Zero, s[3]) /\ LessF(s[3], Whole(1))) =>
                                         IF k >= AsU64(s[2]) THEN q = Whole(1) ELSE q = Chances("binom_pmf", k, Tail(s))
          [] name = "binom_pmf"   -> (LessEq(Zero, s[1]) /\ IsChance(s[3]) /\ k <= AsU64(s[2]) /\ LessEq(Zero, s[2])) =>
                                         q = BinomPmf(Whole(AsU64(s[2]) - k), s[2], Minus(Whole(1), s[3]))
          [] name = "poisson_pmf" -> (IsPositive(s[1]) /\ IsInteger(s[1]) /\ IsPositive(s[2])) => Times(q, s[1]) = Times(PoissonPmf(Minus(s[1], Whole(1)), s[2]), s[2])
DistributionRight(name, s, q) ==
    CASE name \in {"norm_inv", "t_inv", "chi2_inv", "f_inv"} -> InverseRight(name, s)
      [] name \in {"poisson_pmf", "poisson_cdf", "binom_pmf", "binom_cdf"} -> ChanceRight(name, s, q)
      [] OTHER -> CurveRight(name, s, q)
=============================================================================
