------------------------------- MODULE Library -------------------------------
(***************************************************************************)
(* The function libraries, the domains over them and the API's methods, as *)
(* a program that calls them meets them: a question is asked, its answer   *)
(* comes back, the next one is asked.  Nothing is kept from one question   *)
(* to the next; what can go wrong lies in the algorithms, which the        *)
(* modules below translate, and is told by comparing an answer with a      *)
(* definition, with a law or with the answer of a twin in the code.        *)
(***************************************************************************)
EXTENDS ScalarDomains, TimeDomain, Decompositions, Polynomials, Output

CONSTANTS
    IntegerFns, IntegerArgs(_), IntegerExprs,           \* number theory and combinatorics
    UnitQuestions, EditQuestions, Letters,              \* <<q, from, to>>, pairs of words over Letters
    CurrencyQuestions, UnitExprs, FxExprs,              \* <<q, from, to>>, expressions of the two domains
    BudgetRequests, PricingRequests, Tables,            \* and the tables a provider may give: none or one
    Days, TimeExprs,
    VectorQuestions, MatrixExprs, StatQuestions,        \* from a function's name to the arguments it is asked with
    NumericalFns, NumericalQuestions(_),
    RegressionQuestions,                                \* <<x, y>>
    DistributionQuestions, DistributionCalls,           \* <<function, arguments>> of numbers and of expressions
    PolyExprs, SymbolicExprs,                           \* from a function of calculus to its calls
    WrittenExprs, ParseTexts,                           \* <<tree, style>>, texts of atoms
    StepExprs, LatexExprs, ShownResults(_), ShownPlaces(_),  \* results of a shape, and decimal places or none
    RealExprs, ScientificExprs, ExactExprs, ComplexExprs,
    FunctionQuestions, SolverQuestions                  \* <<name, arguments>>, <<method, coefficients, options>>

VARIABLES part, asked, answer
vars == <<part, asked, answer>>

\* what is asked: the area and its arguments
Nothing == <<"none", <<>>>>

\* A program keeps to one part of the library: a question leaves no trace
\* that another part could meet.
Parts == {"numbers", "money", "calendar", "linear", "statistics", "polynomials", "symbolic", "text", "output", "scalar"}
Init == part \in Parts /\ asked = Nothing /\ answer = Ok(0)

Uses(p) == part = p /\ asked = Nothing
Ask(area, args, result) == asked' = <<area, args>> /\ answer' = result /\ UNCHANGED part

AskInteger ==
    Uses("numbers") /\ \E fn \in IntegerFns : \E a \in IntegerArgs(fn) : Ask("integer", <<fn, a>>, IntegerAnswer(fn, a))
AskIntegerDomain ==
    Uses("numbers") /\ \E e \in IntegerExprs : Ask("integer_domain", e, IF DomainFor(e) = "number_theory" THEN NumberTheoryDomain(e) ELSE CombinatoricsDomain(e))

AskUnit == Uses("money") /\ \E q \in UnitQuestions : Ask("unit", q, ConvertValue(q[1], q[2], q[3]))
AskEdits == Uses("money") /\ \E q \in EditQuestions : Ask("edits", q, Ok(Levenshtein(q[1], q[2])))
AskCurrency == Uses("money") /\ \E q \in CurrencyQuestions : Ask("currency", q, Convert(q[1], q[2], q[3], Quotes))
AskRate == Uses("money") /\ \E q \in CurrencyQuestions : Ask("rate", Tail(q), FxRate(q[2], q[3], Quotes))
AskUnitDomain == Uses("money") /\ \E e \in UnitExprs : Ask("mixed", <<"unit", e>>, EvalScalarIn("unit", e))
AskFxDomain == Uses("money") /\ \E e \in FxExprs : Ask("mixed", <<"fx", e>>, EvalFx(e))
AskBudget == Uses("money") /\ \E r \in BudgetRequests, t \in Tables : Ask("budget", <<r, t>>, RunFxBudget(r, t))
AskPricing == Uses("money") /\ \E r \in PricingRequests, t \in Tables : Ask("pricing", <<r, t>>, RunFxPricing(r, t))

AskCivil == Uses("calendar") /\ \E d \in Days : Ask("civil", d, Ok(CivilFromDays(d)))
AskTime == Uses("calendar") /\ \E e \in TimeExprs : Ask("time", e, EvalTime(e))

AskVector == Uses("linear") /\ \E f \in DOMAIN VectorQuestions : \E a \in VectorQuestions[f] : Ask("vector", <<f, a>>, EvalVector(Call(f, a)))
AskMatrix == Uses("linear") /\ \E e \in MatrixExprs : Ask("matrix", e, EvaluateMatrix(e))
AskNumerical == Uses("linear") /\ \E f \in NumericalFns : \E a \in NumericalQuestions(f) : Ask("numerical", <<f, a>>, Numerical(f, a))
AskStatistic == Uses("statistics") /\ \E f \in DOMAIN StatQuestions : \E a \in StatQuestions[f] : Ask("statistic", <<f, a>>, EvalStatistics(Call(f, a)))
AskRegression == Uses("statistics") /\ \E q \in RegressionQuestions : Ask("regression", q, LinearRegression(q[1], q[2]))
AskApiTest ==
    Uses("statistics") /\ \E q \in RegressionQuestions : \E values \in ApiTest(TTestTwo(q[1], q[2])) : Ask("api_test", q, values)
AskDistribution == Uses("statistics") /\ \E q \in DistributionQuestions : Ask("distribution", q, Distribution(q[1], q[2]))
AskDistributionCall == Uses("statistics") /\ \E q \in DistributionCalls : Ask("distribution_call", q, EvalDistribution(q[1], q[2]))

AskPolynomial == Uses("polynomials") /\ \E e \in PolyExprs : Ask("polynomial", e, EvalPoly(e))
AskSymbolic == Uses("symbolic") /\ \E f \in DOMAIN SymbolicExprs : \E e \in SymbolicExprs[f] : Ask("symbolic", e, EvalSymbolic(e))

AskWritten == Uses("text") /\ \E q \in WrittenExprs : Ask("written", q, Parse(Written(q[1], q[2])))
AskText == Uses("text") /\ \E t \in ParseTexts : Ask("text", t, Parse(t))
AskSteps == Uses("output") /\ \E e \in StepExprs : Ask("steps", e, GenerateSteps(e))
AskLatex == Uses("output") /\ \E e \in LatexExprs : Ask("latex", e, AstToLatexExpr(e))
\* the calculus functions whose results are trees
AskCalculus ==
    Uses("output") /\ \E f \in {"diff", "integrate", "simplify"} : \E e \in {q \in SymbolicExprs[f] : EvalSymbolic(q).ok} :
        Ask("calculus", e, FormatLatex(Result("symbolic", Printed(EvalSymbolic(e).is)), e, <<>>))
AskShown ==
    Uses("output") /\ \E shape \in Shapes : \E value \in ShownResults(shape), n \in ShownPlaces(shape) :
        LET r == Result(shape, value) IN Ask("shown", <<r, n>>, Shown(r, Num(0), n))
AskShownExact ==
    Uses("output") /\ \E e \in {q \in ExactExprs : EvalPrecision(q).ok} :
        LET r == Result("rational", EvalPrecision(e).is)  n == ExtractFormatPrecision(e) IN Ask("shown", <<r, n>>, Shown(r, e, n))

AskArithmetic == Uses("scalar") /\ \E e \in RealExprs : Ask("arithmetic", e, EvalArithmetic(e))
AskScientific == Uses("scalar") /\ \E e \in ScientificExprs : Ask("scientific", e, EvalScientific(e))
AskPrecision == Uses("scalar") /\ \E e \in ExactExprs : Ask("precision", e, EvalPrecision(e))
AskComplex == Uses("scalar") /\ \E e \in ComplexExprs : Ask("complex", e, EvalComplex(e))
AskFunction == Uses("scalar") /\ \E q \in FunctionQuestions : Ask("function", q, ApiScalar(q[1], q[2]))
AskSolver == Uses("scalar") /\ \E q \in SolverQuestions : Ask("solver", q, Solved(q[1], q[2], q[3]))

Return == asked # Nothing /\ asked' = Nothing /\ answer' = Ok(0) /\ UNCHANGED part

Next ==
    \/ AskInteger \/ AskIntegerDomain \/ AskPolynomial
    \/ AskUnit \/ AskEdits \/ AskCurrency \/ AskRate \/ AskUnitDomain \/ AskFxDomain \/ AskBudget \/ AskPricing
    \/ AskRegression \/ AskApiTest \/ AskVector \/ AskMatrix
    \/ AskText \/ AskCivil \/ AskTime
    \/ AskFunction \/ AskSolver \/ AskArithmetic \/ AskPrecision \/ AskScientific \/ AskComplex
    \/ AskWritten \/ AskSymbolic \/ AskSteps \/ AskLatex \/ AskCalculus \/ AskShown \/ AskShownExact
    \/ AskNumerical \/ AskStatistic \/ AskDistribution \/ AskDistributionCall
    \/ Return

Spec == Init /\ [][Next]_vars
-----------------------------------------------------------------------------
\* The functions of number theory and combinatorics return what their
\* definitions say (a gcd divides and is divided by every divisor, a crt
\* solution has the remainders asked for and is the least for positive moduli,
\* counts are the numbers of choices ...) wherever their integers fit.  A
\* discrete logarithm is one, and the least, but for two things the code does:
\* if powers of the base repeat within the square root of p it may be larger,
\* and for p beyond 64 bits it may be missed.  The domains that evaluate these
\* functions in expressions agree with the API, on integers of any size; an
\* argument that is not an integer or, as an f64, beyond an i64 is refused.
\* Nothing is rounded but the results of calls that fit an i64: they are read
\* back from an f64, inside an expression too, so gcd(lcm(a, b), c) may be that
\* of a neighbour of lcm(a, b).
IntegersRight ==
  [][\A q \in {asked'}, r \in {answer'} :
     /\ q[1] = "integer" => IntegerRight(q[2][1], q[2][2], r)
     /\ q[1] = "integer_domain" => DomainRight(q[2], r)]_vars

\* A conversion of units or currencies may take a detour over any other unit
\* or currency, on its own or anywhere inside an expression, and returns what
\* it started from; temperatures agree on where water freezes and boils.  The
\* bill of fx_budget stays between its low and high for rates up to 3% off,
\* the price of fx_pricing earns the margin asked for even at the rate the
\* buffer allows, and refusals name what is wrong.
MoneyRight ==
  [][\A a \in {asked'[2]}, r \in {answer'} :
        CASE asked'[1] = "unit"     -> UnitRight(a[1], a[2], a[3], r)
          [] asked'[1] = "edits"    -> EditsRight(a[1], a[2], Letters, r)
          [] asked'[1] = "currency" -> CurrencyRight(a[1], a[2], a[3], Quotes, r)
          [] asked'[1] = "rate"     -> RateRight(a[1], a[2], Quotes, r)
          [] asked'[1] = "mixed"    -> MixedRight(a[1], a[2], r)
          [] asked'[1] = "budget"   -> BudgetRight(a[1], a[2], r)
          [] asked'[1] = "pricing"  -> PricingRight(a[1], a[2], r)
          [] OTHER                   -> TRUE]_vars

\* The snapshot's civil date is the day's, before 1970 and over leap years.
\* date_add and date_diff undo each other, also where months end early and a
\* city changes its clock, datetime reads the wall clock of its zone, days
\* follow one another, and the API's methods answer as the domain does.
CalendarRight ==
  [][\A a \in {asked'[2]}, r \in {answer'} :
     /\ asked'[1] = "civil" => CivilRight(a, r.is)
     /\ asked'[1] = "time" => TimeRight(a, r)]_vars

\* Vectors, matrices and statistics obey their laws: products are orthogonal
\* or symmetric as they must be, an inverse is one and exists when the
\* determinant is not zero, factors multiply to the matrix, solutions solve,
\* least squares leave nothing in the columns and are the shortest, eigenvectors
\* are, exponentials are undone.  A test does not depend on the scale's origin, a
\* rank correlation not on the scale, the three regressions agree and leave
\* residuals uncorrelated with what they were fitted to.  An inverse distribution
\* is inverse to the area, but for f_inv with a d1 above two: its corrections may
\* go to and fro until their number is used up, and of that result nothing is said.
LinearRight ==
  [][\A a \in {asked'[2]}, r \in {answer'} :
        CASE asked'[1] = "vector"     -> VectorRight(a[1], a[2], r)
          [] asked'[1] = "matrix"     -> MatrixRight(a, r) /\ DecompositionRight(a, r)
          [] asked'[1] = "numerical"  -> NumericalRight(a[1], a[2], r)
          [] asked'[1] = "statistic"  -> StatisticRight(a[1], a[2], r)
          [] asked'[1] = "regression" -> RegressionRight(a[1], a[2], r)
          [] asked'[1] = "api_test"   -> ApiTestRight(TTestTwo(a[1], a[2]), r)
          [] asked'[1] = "distribution" -> DistributionRight(a[1], a[2], r)
          [] asked'[1] = "distribution_call" -> DistributionCallRight(a[1], a[2], r)
          [] OTHER                     -> TRUE]_vars

\* Coefficients mean what the expression does, quotients leave a remainder of
\* a smaller degree, derivatives are slopes and integrals are undone by them,
\* the roots, multiplied out, give the polynomial back, and so do the factors
\* when they are whole numbers.  A derivative of a tree has the value that
\* computing with pairs of value and slope gives, simplifying keeps the value,
\* a Taylor series is the power series, and what is printed reads back as what
\* was meant, except that a power of a negative number, printed without
\* parentheses, reads as minus the power of its absolute value.  A limit is the
\* value of the power series; of a quotient of vanishing series that of their
\* leading terms.  The rule of L'Hopital is applied to every quotient without a
\* value, not only to 0/0 and infinities, so one with a pole, or with another
\* variable in it, which has no such limit, is answered too: (1+x)/x at 0 with
\* 1.  Of these answers it is only stated that they are the quotient of the two
\* coefficients at the power the denominator starts with after its constant,
\* and of quotients with a side that has no series at the point nothing.
AlgebraRight ==
  [][\A e \in {asked'[2]}, r \in {answer'} :
     /\ asked'[1] = "polynomial" => PolyRight(e, r)
     /\ asked'[1] = "symbolic" => SymbolicRight(e, r)]_vars

\* Whatever the passes do to a text, a tree that is written down in any style
\* is the tree that is read: no string, list or long integer is lost or put
\* back in another's place, 2x, 2(x+1), 2i and x! mean what they do on paper.
\* And a text that is accepted has all its numbers and names in the tree, in
\* order, all its factorials, and no bracket too few or too many.  Numbers that
\* are shown read back from text, LaTeX and JSON, where null stands for what
\* JSON has no number for.  LaTeX of a tree, an argument of a calculus function
\* for one, has all numbers and names in order, but the parentheses are lost:
\* it reads as the tree where that needs none, and only there; (x+1)*2 becomes
\* x + 1 \cdot 2.  LaTeX of a symbolic result has the tokens of its text, and
\* reads as it does where exponents are whole numbers.  The steps are one for
\* each operation and lead to the value evaluating gives.
TextRight ==
  [][\A a \in {asked'[2]}, r \in {answer'} :
     /\ asked'[1] = "written" => WrittenRight(a[1], r)
     /\ asked'[1] = "text" => AnyTextRight(a, r)
     /\ asked'[1] = "steps" => StepsRight(a, r)
     /\ asked'[1] = "latex" => LatexRight(a, r)
     /\ asked'[1] = "calculus" => CalculusShownRight(a, r)
     /\ asked'[1] = "shown" => ShownRight(a[1], a[2], r)]_vars

\* Where two domains can evaluate a tree they agree: f64 with exact numbers
\* unless a value leaves its range, pairs with matrices that stand for them,
\* and a mirrored tree has the mirrored value.  The special functions obey
\* their functional equations on both sides of the reflections, recurrences
\* and tails they are computed by, and refuse no argument but a bad one.  A
\* root lies between its ends where the sign changes, an integral is a sum of
\* two and turns with its ends, a bound variable may have any name, and the
\* numeric slope of a polynomial of degree four or less is exact.
NumbersRight ==
  [][\A a \in {asked'[2]}, r \in {answer'} :
        CASE asked'[1] = "arithmetic" -> ArithmeticRight(a, r)
          [] asked'[1] = "scientific" -> ScientificRight(a, r)
          [] asked'[1] = "precision"  -> PrecisionRight(a, r)
          [] asked'[1] = "complex"    -> ComplexRight(a, r)
          [] asked'[1] = "function"   -> FunctionRight(a[1], a[2], r)
          [] asked'[1] = "solver"     -> SolverRight(a[1], a[2], a[3], r)
          [] OTHER                     -> TRUE]_vars
==============================================================================
