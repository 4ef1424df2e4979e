----------------------------- MODULE Statistics -----------------------------
(***************************************************************************)
(* math/statistics.rs without its distributions, the statistics domain and *)
(* the methods of the API's DataAnalysis.  Standard deviations, t values   *)
(* and correlations are roots (see LinearAlgebra); the p value of a test   *)
(* is a function of the fields kept and is left out.                       *)
(***************************************************************************)
EXTENDS LinearAlgebra, Distributions

Nan    == <<0, 0>>
Panics == Fail("panic")        \* an assert! of the code fails

Mean(s)     == IF s = <<>> THEN Nan ELSE Over(SumOf(s), Whole(Len(s)))
Deviations(s) == LET mean == Mean(s) IN WrittenOut([i \in DOMAIN s |-> Minus(s[i], mean)])
Spread(s)   == MagnitudeSquared(Deviations(s))          \* the sum of squares about the mean
Variance(s) == IF s = <<>> THEN Nan ELSE Over(Spread(s), Whole(Len(s)))
Sorted(s)   == SortSeq(s, Below)
Median(s) ==
    LET n == Len(s)  t == Sorted(s)
    IN  CASE n = 0     -> Nan
          [] n % 2 = 1 -> t[n \div 2 + 1]
          [] OTHER     -> Over(Plus(t[n \div 2], t[n \div 2 + 1]), Whole(2))
MinOf(s) == IF s = <<>> THEN Nan ELSE FoldLeft(LAMBDA m, x : IF Below(x, m) THEN x ELSE m, s[1], s)
MaxOf(s) == IF s = <<>> THEN Nan ELSE FoldLeft(LAMBDA m, x : IF Below(m, x) THEN x ELSE m, s[1], s)

\* the value whose signed square is top^2 / square, nothing when square is 0
Standardized(top, square) == IF square = Zero THEN Zero ELSE Over(SignedSquare(top), square)
ErrorOf(s) == Over(Spread(s), Whole((Len(s) - 1) * Len(s)))        \* squared
TTestOne(data, mu) ==
    IF Len(data) <= 1 THEN [t |-> Nan, df |-> Nan, mean |-> IF data = <<>> THEN Nan ELSE data[1]]
    ELSE [t |-> Standardized(Minus(Mean(data), mu), ErrorOf(data)), df |-> Whole(Len(data) - 1), mean |-> Mean(data)]
TTestTwo(a, b) ==
    LET part(s) == Over(SquareOf(ErrorOf(s)), Whole(Len(s) - 1))
        both    == Plus(ErrorOf(a), ErrorOf(b))
    IN  IF Len(a) <= 1 \/ Len(b) <= 1 THEN [t |-> Nan, df |-> Nan, mean1 |-> Mean(a), mean2 |-> Mean(b)]
        ELSE [t     |-> Standardized(Minus(Mean(a), Mean(b)), both),
              df    |-> IF both = Zero THEN Nan ELSE Over(SquareOf(both), Plus(part(a), part(b))),
              mean1 |-> Mean(a), mean2 |-> Mean(b)]
Chi2Test(observed, expected) ==
    IF Len(observed) # Len(expected) \/ (\E i \in DOMAIN expected : expected[i][1] <= 0) THEN Panics
    ELSE Ok([chi2 |-> SumOf([i \in DOMAIN observed |-> Over(SquareOf(Minus(observed[i], expected[i])), expected[i])]),
             df   |-> Whole(Len(observed) - 1)])
Pearson(x, y) ==
    IF Len(x) # Len(y) THEN Panics
    ELSE Ok(Standardized(SumProduct(Deviations(x), Deviations(y)), Times(Spread(x), Spread(y))))
\* equal values share the mean of the places they take
Rank(data) ==
    WrittenOut([k \in DOMAIN data |->
       LET below == Cardinality({i \in DOMAIN data : Below(data[i], data[k])})
           upTo  == below + Cardinality({i \in DOMAIN data : data[i] = data[k]})
       IN  Ratio(below + 1 + upTo, 2)])
Spearman(x, y) == IF Len(x) # Len(y) THEN Panics ELSE Pearson(Rank(x), Rank(y))

\* Mutant: the slope is taken over the spread of y.
LinearRegressionSwapped(x, y) ==
    LET slope == Over(SumProduct(Deviations(x), Deviations(y)), Spread(y))
    IN  CASE Len(x) < 2 \/ Len(x) # Len(y) -> <<Zero, Zero, Zero>>
          [] Spread(x) = Zero -> <<Zero, Mean(y), Zero>>
          [] OTHER -> <<slope, Minus(Mean(y), Times(slope, Mean(x))), Whole(1)>>
LinearRegression(x, y) ==
    LET shared == SumProduct(Deviations(x), Deviations(y))
        slope  == Over(shared, Spread(x))
    IN  CASE Len(x) < 2 \/ Len(x) # Len(y) -> <<Zero, Zero, Zero>>
          [] Spread(x) = Zero -> <<Zero, Mean(y), Zero>>
          [] OTHER -> <<slope, Minus(Mean(y), Times(slope, Mean(x))),
                        IF Spread(y) = Zero THEN Whole(1) ELSE Over(SquareOf(shared), Times(Spread(x), Spread(y)))>>

\* beta = (X'X)^-1 X'y, and how much of the spread of y it leaves
LeastSquares(design, y) ==
    LET across == WrittenOut(Transpose(design))
        gram   == WrittenOut([i \in DOMAIN across |-> [j \in DOMAIN across |-> SumProduct(across[i], across[j])]])
        onY    == WrittenOut([k \in DOMAIN across |-> SumProduct(across[k], y)])
        FitOf(inverse) ==
            LET beta == WrittenOut([i \in DOMAIN inverse |-> SumProduct(inverse[i], onY)])
                left == MagnitudeSquared([i \in DOMAIN y |-> Minus(y[i], SumProduct(design[i], beta))])
            IN  Ok([beta |-> beta, fit |-> IF Spread(y) = Zero THEN Whole(1) ELSE Minus(Whole(1), Over(left, Spread(y)))])
    IN  AndThen(TryInverse(gram), FitOf)
PolynomialRegression(x, y, degree) ==
    IF degree = 0 \/ degree >= Len(x) \/ Len(x) # Len(y) THEN BadArguments
    ELSE LeastSquares([i \in DOMAIN x |-> [j \in 1 .. degree + 1 |-> IF j = 1 THEN Whole(1) ELSE Power(x[i], j - 1)]], y)
MultipleRegression(x, y) ==
    IF x = <<>> \/ y = <<>> \/ (\E j \in DOMAIN x : Len(x[j]) # Len(y)) \/ Len(x) >= Len(y) THEN BadArguments
    ELSE LeastSquares([i \in DOMAIN y |-> <<Whole(1)>> \o [j \in DOMAIN x |-> x[j][i]]], y)
-----------------------------------------------------------------------------
BasicStatistics == {"mean", "variance", "std", "median", "min", "max", "sum", "count"}
BasicStatistic(name, s) ==
    CASE name = "mean"   -> D!Scalar(Mean(s))     [] name = "variance" -> D!Scalar(Variance(s))
      [] name = "std"    -> Root(Variance(s))     [] name = "median"   -> D!Scalar(Median(s))
      [] name = "min"    -> D!Scalar(MinOf(s))    [] name = "max"      -> D!Scalar(MaxOf(s))
      [] name = "sum"    -> D!Scalar(SumOf(s))    [] name = "count"    -> D!Scalar(Whole(Len(s)))
Json(fields) == D!Result("json", <<fields>>)
Panicked     == D!Result("panic", <<>>)
Asserted(outcome, Form(_)) == IF outcome.ok THEN Form(outcome.is) ELSE Panicked

\* EvalResult::as_scalar: a result of another shape is none
AsScalar(r) == IF r.tag = "scalar" THEN r.rows[1][1] ELSE D!Undefined

RECURSIVE EvalStatistics(_)
\* extract_list: the values of a list, or NoValues
NoValues == <<D!Undefined>>
StatElements(e) ==
    LET values == [i \in DOMAIN e.kids |-> AsScalar(EvalStatistics(e.kids[i]))]
    IN  IF IsList(e) /\ D!AllDefined(values) THEN values ELSE NoValues
EvalTest(name, lists, mu) ==
    CASE \E i \in DOMAIN lists : lists[i] = <<>> -> D!Error
      [] name = "t_test_one" -> IF mu = D!Undefined THEN D!Error ELSE Json(TTestOne(lists[1], mu))
      [] name = "t_test_two" -> Json(TTestTwo(lists[1], lists[2]))
      [] name = "chi2_test"  -> IF Len(lists[1]) # Len(lists[2]) THEN D!Error ELSE Asserted(Chi2Test(lists[1], lists[2]), Json)
EvalCorrelation(name, x, y) ==
    CASE Len(x) # Len(y) \/ Len(x) < 2 -> D!Error
      [] name = "pearson"  -> Asserted(Pearson(x, y), Root)
      [] name = "spearman" -> Asserted(Spearman(x, y), Root)
EvalStatCall(name, args) ==
    LET count == IF name \in BasicStatistics THEN 1 ELSE 2
        lists == [i \in 1 .. IF name = "t_test_one" THEN 1 ELSE count |-> StatElements(args[i])]
    IN  CASE name \notin BasicStatistics \cup {"t_test_one", "t_test_two", "chi2_test", "pearson", "spearman"} -> D!Error
          [] Len(args) # count -> D!Error
          [] \E i \in DOMAIN lists : lists[i] = NoValues -> D!Error
          [] name \in BasicStatistics       -> IF lists[1] = <<>> THEN D!Error ELSE BasicStatistic(name, lists[1])
          [] name \in {"pearson", "spearman"} -> EvalCorrelation(name, lists[1], lists[2])
          [] OTHER                          -> EvalTest(name, lists, AsScalar(EvalStatistics(args[2])))
EvalStatistics(e) ==
    LET v(i) == AsScalar(EvalStatistics(e.kids[i]))
    IN  CASE e.kind = "binary" -> D!Scalar(D!ApplyIn("statistics", e.head, v(1), v(2)))
          [] e.kind = "neg"    -> D!Scalar(D!Negated(v(1)))
          [] e.kind = "call"   -> EvalStatCall(e.head, e.kids)
          [] OTHER             -> D!Scalar(D!ScalarIn("statistics", e, 0))

\* A distribution: the arguments first, then their number, then the value; one
\* that is not finite is refused (by evaluate, when the whole has been computed).
AsAnswer(name, q) == IF ~IsFinite(q) THEN D!Error ELSE IF name \in Roots2 THEN Root(q) ELSE D!Scalar(q)
OfScalars(name, values) ==
    IF ~D!AllDefined(values) \/ Len(values) # (IF name \in OfTwo THEN 2 ELSE 3) THEN D!Error
    ELSE AsAnswer(name, Distribution(name, values))
RECURSIVE EvalDistribution(_, _)
EvalDistribution(name, args) ==
    OfScalars(name, WrittenOut([i \in DOMAIN args |-> AsScalar(
        IF args[i].kind = "call" /\ args[i].head \in OfTwo \cup OfThree THEN EvalDistribution(args[i].head, args[i].kids) ELSE EvalStatistics(args[i]))]))

\* hashmap_to_vector: the API returns the values of a test without their
\* names, in the order the hash map happens to have
ApiTest(fields) == {[i \in DOMAIN order |-> fields[order[i]]] : order \in SetToSeqs(DOMAIN fields)}
-----------------------------------------------------------------------------
(***************************************************************************)
(* What statistics are to obey.                                            *)
(***************************************************************************)
Shifted(s, q) == [i \in DOMAIN s |-> Plus(s[i], q)]
Cubed(s)      == [i \in DOMAIN s |-> Power(s[i], 3)]
Counted(s, P(_)) == Cardinality({i \in DOMAIN s : P(s[i])})
BasicRight(name, s, r) ==
    LET q == r.rows[1][1]
    IN  r # D!Error =>
        CASE name = "mean"     -> SumOf([i \in DOMAIN s |-> Minus(s[i], q)]) = Zero
          [] name \in {"variance", "std"} -> Plus(q, SquareOf(Mean(s))) = Mean([i \in DOMAIN s |-> SquareOf(s[i])])
          [] name = "median"   -> 2 * Counted(s, LAMBDA x : Below(x, q)) <= Len(s) /\ 2 * Counted(s, LAMBDA x : Below(q, x)) <= Len(s)
          [] name = "min"      -> (\E i \in DOMAIN s : s[i] = q) /\ \A i \in DOMAIN s : ~Below(s[i], q)
          [] name = "max"      -> (\E i \in DOMAIN s : s[i] = q) /\ \A i \in DOMAIN s : ~Below(q, s[i])
          [] OTHER             -> TRUE

\* A test does not depend on where the scale starts, nor a correlation on
\* which list comes first; of ranks it does not depend on the scale at all.
TestRight(name, a, b, r) ==
    LET f == r.rows[1]
    IN  CASE r = Panicked -> name = "chi2_test" /\ \E i \in DOMAIN b : b[i][1] <= 0
          [] name = "t_test_two" -> /\ f.t # Nan => Plus(f.t, TTestTwo(b, a).t) = Zero /\ TTestTwo(Shifted(a, Whole(3)), Shifted(b, Whole(3))).t = f.t
                                    /\ f.df # Nan => ~Below(Whole(Len(a) + Len(b) - 2), f.df) /\ ~Below(f.df, Whole(Min({Len(a), Len(b)}) - 1))
          [] name = "chi2_test"  -> (f.chi2 = Zero) = (a = b)
          [] name \in {"pearson", "spearman"} ->
                LET q == f[1] IN
                /\ ~Below(Whole(1), AbsOf(q)) /\ EvalCorrelation(name, b, a) = r
                /\ name = "spearman" => EvalCorrelation(name, Cubed(a), b) = r
                /\ name = "pearson" /\ Spread(a) # Zero /\ Spread(b) # Zero => AbsOf(q) = LinearRegression(a, b)[3]

\* Through an expression norm_inv undoes norm_cdf and the other way round, and
\* nothing is left of a call with an argument too many, too few or not a number.
DistributionCallRight(name, args, r) ==
    r # D!Error => /\ Len(args) = (IF name \in OfTwo THEN 2 ELSE 3)
                   /\ \A i \in DOMAIN args : ~IsList(args[i])
                   /\ {name, args[1].head} = {"norm_cdf", "norm_inv"} /\ Tail(args) = Tail(args[1].kids) => r = EvalStatistics(args[1].kids[1])

StatisticRight(name, args, r) ==
    LET lists == [i \in DOMAIN args |-> StatElements(args[i])]
    IN  CASE r = D!Error             -> TRUE
          [] name \in BasicStatistics -> BasicRight(name, lists[1], r)
          [] name = "t_test_one"     -> TRUE
          [] OTHER                   -> TestRight(name, lists[1], lists[2], r)

\* What is left of y is uncorrelated with every column the fit was made of.
RegressionRight(x, y, line) ==
    LET fit(beta, i) == SumOf([j \in DOMAIN beta |-> Times(beta[j], IF j = 1 THEN Whole(1) ELSE Power(x[i], j - 1))])
        Uncorrelated(beta, d) ==
            LET left == WrittenOut([i \in DOMAIN y |-> Minus(y[i], fit(beta, i))])
            IN  \A k \in 0 .. d : SumOf([i \in DOMAIN x |-> Times(left[i], IF k = 0 THEN Whole(1) ELSE Power(x[i], k))]) = Zero
        straight == PolynomialRegression(x, y, 1)
        curved   == PolynomialRegression(x, y, 2)
    IN  /\ straight.ok => Uncorrelated(straight.is.beta, 1)
        /\ curved.ok   => Uncorrelated(curved.is.beta, 2) /\ ~Below(curved.is.fit, straight.is.fit)
        /\ Len(x) = Len(y) /\ Len(x) >= 2 /\ Spread(x) # Zero =>
              /\ straight = Ok([beta |-> <<line[2], line[1]>>, fit |-> line[3]])
              /\ MultipleRegression(<<x>>, y) = straight
ApiTestRight(fields, answer) ==
    \A q \in Range(fields) \cup Range(answer) : Counted(answer, LAMBDA x : x = q) = Cardinality({f \in DOMAIN fields : fields[f] = q})
=============================================================================
