-------------------------------- MODULE Output --------------------------------
(***************************************************************************)
(* What is shown of a calculation: its steps (output/steps.rs), its result *)
(* as LaTeX (output/latex.rs), as text (cli.rs) and as JSON (server).  A   *)
(* text is a sequence of the parser's atoms.                               *)
(***************************************************************************)
EXTENDS Parser, ScalarDomains, Symbolic

\* A step: what stands before the equals sign, and the value after it.
Step(sign, args, value) == [sign |-> sign, args |-> args, value |-> value]

\* an integer of many digits, if an f64 holds it
ParseBigNumberForSteps(q) == IF Magnitude(Rounded(q)[1]) > MaxExact THEN BadArguments ELSE Ok(Rounded(q))
StepBinary(op, a, b) ==
    LET result == CASE op = "+" -> FloatSum(a, b) [] op = "-" -> FloatSum(a, Negate(b)) [] op = "*" -> FloatProduct(a, b)
                    [] op = "/" -> FloatQuotient(a, b) [] op = "^" -> FloatPow(a, b) [] op = "mod" -> FloatRem(a, b)
    IN  IF (op \in {"/", "mod"} /\ b = Zero) \/ (op = "^" /\ a = Zero /\ LessF(b, Zero)) THEN DivByZero ELSE CheckFinite(result)

CheckIntegerArg(q) == IF HasFraction(q) \/ ~InI64(q[1]) THEN BadArguments ELSE Ok(q[1])
\* as i64: the one divisor that is too large wraps around
StepGcd(a, b) == LET g == GcdOf(a, b) IN IF g = Wide THEN -Wide ELSE g
StepLcm(a, b) == IF 0 \in {a, b} THEN 0 ELSE Min({Quo(Magnitude(a), StepGcd(a, b)) * Magnitude(b), Wide - 1})
OfIntegers(a, b, Fn(_, _)) ==
    AndThen(CheckIntegerArg(a), LAMBDA m : AndThen(CheckIntegerArg(b), LAMBDA n : Ok(Whole(AsF64(Fn(m, n))))))
\* the smaller and the larger of two; a NaN gives way to the other
FloatMin(a, b) == IF a = NaN \/ LessF(b, a) THEN b ELSE a
FloatMax(a, b) == IF a = NaN \/ LessF(a, b) THEN b ELSE a
\* the root is asked of squares only, the angle of finite numbers
SqrtOfSquare(q)  == IF IsFinite(q) THEN Ratio(CHOOSE k \in 0 .. 400 : k * k = q[1] * q[2], q[2]) ELSE q
Atan2(y, x)    == IF <<x, y>> = Origin THEN Zero ELSE Arg(<<x, y>>)
Floor(q)       == IF IsFinite(q) THEN Whole(q[1] \div q[2]) ELSE q
Ceiling(q)     == Negate(Floor(Negate(q)))
StepsOfOne == {"sin", "cos", "tan", "atan", "exp", "asin", "acos", "ln", "log", "log10", "log2", "sqrt", "abs", "floor", "ceil", "round"}
StepsOfTwo == {"atan2", "gcd", "lcm", "min", "max", "pow"}
StepsOfNone == {"pi", "e"}
StepOfOne(name, x) ==
    CASE name \in {"asin", "acos"} -> InverseSine(name, x)
      [] name = "ln"    -> Ln(x)
      [] name \in {"log", "log10"} -> LogIn(Whole(10), x)
      [] name = "log2"  -> LogIn(Whole(2), x)
      [] name = "sqrt"  -> IF LessF(x, Zero) THEN BadArguments ELSE CheckFinite(SqrtOfSquare(x))
      [] name = "abs"   -> CheckFinite(AbsF(x))
      [] name = "floor" -> CheckFinite(Floor(x))
      [] name = "ceil"  -> CheckFinite(Ceiling(x))
      [] name = "round" -> CheckFinite(IF IsFinite(x) THEN RoundedTo(x, 1) ELSE x)
      [] OTHER          -> CheckFinite(FloatFunction(name, x))
StepOfTwo(name, a, b) ==
    CASE name = "atan2" -> CheckFinite(Atan2(a, b))
      [] name = "gcd"   -> OfIntegers(a, b, StepGcd)
      [] name = "lcm"   -> OfIntegers(a, b, StepLcm)
      [] name = "min"   -> CheckFinite(FloatMin(a, b))
      [] name = "max"   -> CheckFinite(FloatMax(a, b))
      [] name = "pow"   -> CheckFinite(FloatPow(a, b))
StepFunction(name, v) ==
    CASE name \in StepsOfOne /\ Len(v) = 1  -> StepOfOne(name, v[1])
      [] name \in StepsOfTwo /\ Len(v) = 2  -> StepOfTwo(name, v[1], v[2])
      [] name \in StepsOfNone /\ Len(v) = 0 -> Ok(IF name = "pi" THEN Pi ELSE Euler)
      [] OTHER -> Fail("eval")

\* A node's value and the steps to it, the operands' before its own.
Walked(value, steps) == [value |-> value, steps |-> steps]
StepResult(e, v) ==
    CASE e.kind = "binary" -> StepBinary(e.head, v[1], v[2])
      [] e.kind = "neg"    -> CheckFinite(Negate(v[1]))
      [] e.kind = "call"   -> StepFunction(e.head, v)
Joins2(walks) == FlattenSeq([i \in DOMAIN walks |-> walks[i].steps])
Stepped(e, walks) ==
    LET v == [i \in DOMAIN walks |-> walks[i].value]
    IN  AndThen(StepResult(e, v), LAMBDA r : Ok(Walked(r, Append(Joins2(walks), Step(e.head, v, r)))))
RECURSIVE Walk(_, _)
Walk(e, depth) ==
    CASE depth > MAX_AST_DEPTH -> TooDeep
      [] depth <= MAX_AST_DEPTH /\ e.kind = "number"    -> Ok(Walked(e.num, <<>>))
      [] depth <= MAX_AST_DEPTH /\ e.kind = "bignumber" -> AndThen(ParseBigNumberForSteps(e.num), LAMBDA q : Ok(Walked(q, <<>>)))
      [] depth <= MAX_AST_DEPTH /\ e.kind = "variable"  -> AndThen(Resolve(WithConstants(Bindings), e.head), LAMBDA q : Ok(Walked(q, <<>>)))
      [] depth <= MAX_AST_DEPTH /\ e.kind \in {"binary", "neg", "call"} ->
            AndThen(Collected([i \in DOMAIN e.kids |-> Walk(e.kids[i], depth + 1)]), LAMBDA walks : Stepped(e, walks))
      [] OTHER -> BadArguments
\* a list at the top is not evaluated, its elements are
GenerateSteps(e) ==
    IF e.kind = "list" THEN AndThen(Collected([i \in DOMAIN e.kids |-> Walk(e.kids[i], 0)]), LAMBDA walks : Ok(Joins2(walks)))
    ELSE AndThen(Walk(e, 0), LAMBDA w : Ok(w.steps))
-----------------------------------------------------------------------------
\* A result: what kind of value it is, and the value.
Shapes == {"scalar", "complex", "matrix", "bigint", "rational", "vector", "polynomial", "complex_list", "symbolic", "steps", "datetime"}
Result(shape, value) == [shape |-> shape, value |-> value]
Letter(s)   == <<Word(s)>>
Separated(texts, sep) == FoldLeftDomain(LAMBDA t, i : (IF i = 1 THEN t ELSE t \o sep) \o texts[i], <<>>, texts)
SignedText(q) == (IF q[1] < 0 THEN <<Char("-")>> ELSE <<>>) \o Decimal(AbsOf(q))
\* an infinity and what is no number have names of their own
ScalarText(q, infinity, nan) ==
    IF q = NaN THEN Letter(nan) ELSE IF IsFinite(q) THEN SignedText(q)
    ELSE (IF q[1] < 0 THEN <<Char("-")>> ELSE <<>>) \o Letter(infinity)
\* a factor before a name: 1 is not written, of -1 the sign
Factor(q, text) == IF q = Whole(1) THEN <<>> ELSE IF q = Whole(-1) THEN <<Char("-")>> ELSE text

\* LaTeX
FormatLatexScalar(q) == ScalarText(q, "\\infty", "\\text{NaN}")
Braced(t) == <<Char("{")>> \o t \o <<Char("}")>>
InBrackets(texts) == Letter("\\left[") \o Separated(texts, <<Char(","), Space>>) \o Letter("\\right]")
FormatLatexComplex(z) ==
    LET re == FormatLatexScalar(z[1])
        part(q) == Factor(q, FormatLatexScalar(q)) \o Letter("i")
        sign == IF LessF(Zero, z[2]) THEN "+" ELSE "-"
    IN  IF z[2] = Zero THEN re
        ELSE IF z[1] = Zero THEN part(z[2])
        ELSE re \o <<Space, Char(sign), Space>> \o part(IF sign = "+" THEN z[2] ELSE Negate(z[2]))
FormatLatexMatrix(m) ==
    LET row(r) == Separated([j \in DOMAIN r |-> FormatLatexScalar(r[j])], <<Space, Char("&"), Space>>)
    IN  Letter("\\begin{pmatrix}") \o Separated([i \in DOMAIN m |-> row(m[i])], <<Space, Word("\\\\"), Space>>) \o Letter("\\end{pmatrix}")
FormatLatexVector(v) == InBrackets([i \in DOMAIN v |-> FormatLatexScalar(v[i])])
\* no text for a term that is zero
FormatLatexPolynomialTerm(q, i) ==
    CASE q = Zero          -> <<>>
      [] q # Zero /\ i = 0 -> FormatLatexScalar(q)
      [] q # Zero /\ i = 1 -> Factor(q, FormatLatexScalar(q)) \o Letter("x")
      [] q # Zero /\ i > 1 -> Factor(q, FormatLatexScalar(q)) \o Letter("x") \o <<Char("^")>> \o Braced(<<Digits(i)>>)
\* the terms that have a text, the highest power first
TermsOf(p, TermText(_, _)) == SelectSeq(Reverse([i \in DOMAIN p |-> TermText(p[i], i - 1)]), LAMBDA t : t # <<>>)
JoinLatexPolynomialTerms(terms) ==
    FoldLeft(LAMBDA t, u : t \o (IF Head(u) = Char("-") THEN <<Space, Char("-"), Space>> \o Tail(u) ELSE <<Space, Char("+"), Space>> \o u),
             Head(terms), Tail(terms))
FormatLatexPolynomial(p) ==
    LET terms == TermsOf(p, FormatLatexPolynomialTerm) IN IF terms = <<>> THEN <<Digits(0)>> ELSE JoinLatexPolynomialTerms(terms)
\* precision: a sequence with the number of places, or none; cut, not rounded
CutDecimal(q, n) ==
    LET a == Magnitude(q[1]) IN [minus |-> q[1] < 0, whole |-> a \div q[2], places |-> ((a % q[2]) * 10 ^ n) \div q[2]]
FormatLatexBigRational(q, precision) ==
    IF precision = <<>> THEN Letter("\\frac") \o Braced(SignedText(Whole(q[1]))) \o Braced(<<Digits(q[2])>>) ELSE <<CutDecimal(q, precision[1])>>
FormatLatexComplexList(c) == InBrackets([i \in DOMAIN c |-> FormatLatexComplex(c[i])])

\* A tree as LaTeX: no parentheses, and an argument it has no form for is left out.
Latexed(t) == Ok(t)
RECURSIVE AstToLatexExpr(_)
LatexOperator(op, l, r) ==
    CASE op \in {"+", "-"} -> l \o <<Space, Char(op), Space>> \o r
      [] op = "*"   -> l \o <<Space, Word("\\cdot"), Space>> \o r
      [] op = "/"   -> Letter("\\frac") \o Braced(l) \o Braced(r)
      [] op = "^"   -> l \o <<Char("^")>> \o Braced(r)
      [] op = "mod" -> l \o <<Space, Word("\\bmod"), Space>> \o r
AstToLatexExpr(e) ==
    LET kids == [i \in DOMAIN e.kids |-> AstToLatexExpr(e.kids[i])]
        all  == Collected(kids)
        some == SelectSeq(kids, LAMBDA k : k.ok)
    IN  CASE e.kind = "number"    -> Latexed(FormatLatexScalar(e.num))
          [] e.kind = "bignumber" -> Latexed(Decimal(e.num))
          [] e.kind = "variable"  -> Latexed(Letter(e.head))
          [] e.kind = "binary"    -> AndThen(all, LAMBDA k : Latexed(LatexOperator(e.head, k[1], k[2])))
          [] e.kind = "neg"       -> AndThen(all, LAMBDA k : Latexed(<<Char("-")>> \o k[1]))
          [] e.kind = "call"      -> Latexed(Letter(e.head) \o Round(Separated([i \in DOMAIN some |-> some[i].is], <<Char(","), Space>>)))
          [] OTHER                -> Fail("none")

\* The text of a symbolic result, token by token: of what follows a ^, a minus
\* and digits are taken as the exponent; of a fraction the digits before the point.
WholePart(q)  == Whole(q[1] \div q[2])
PointAndOn(q) == IF IsInteger(q) THEN <<>> ELSE <<Node("token", "fraction", Minus(q, WholePart(q)), <<>>)>>
RECURSIVE SymbolicStrToLatex(_)
ExponentToLatex(minus, s) ==
    LET digits == s # <<>> /\ IsNumber(Head(s)) /\ Head(s) # NanConst
        open   == <<Token("^"), Token("{")>> \o minus
    IN  IF digits THEN open \o <<Number(WholePart(Head(s).num)), Token("}")>> \o PointAndOn(Head(s).num) \o SymbolicStrToLatex(Tail(s))
        ELSE open \o <<Token("}")>> \o SymbolicStrToLatex(s)
SymbolicStrToLatex(s) ==
    IF s = <<>> THEN <<>>
    ELSE IF Starts(s, {"*"}) THEN <<Token("\\cdot")>> \o SymbolicStrToLatex(Tail(s))
    ELSE IF ~Starts(s, {"^"}) THEN <<Head(s)>> \o SymbolicStrToLatex(Tail(s))
    ELSE IF Starts(Tail(s), {"-"}) THEN ExponentToLatex(<<Token("-")>>, Tail(Tail(s))) ELSE ExponentToLatex(<<>>, Tail(s))

\* The calculus functions show what they were asked: [form, its parts, is].
LatexOr(args, i, default) == IF i \in DOMAIN args /\ AstToLatexExpr(args[i]).ok THEN AstToLatexExpr(args[i]).is ELSE default
FormatLatexSymbolic(name, e, tokens) ==
    LET is    == SymbolicStrToLatex(tokens)
        args  == e.kids
        asked == [var |-> LatexOr(args, 2, Letter("x")), is |-> is, body |-> LatexOr(args, 1, IF name = "diff" THEN is ELSE <<>>)]
    IN  CASE e.kind # "call" -> [form |-> "plain", is |-> is]
          [] e.kind = "call" /\ name \in {"diff", "integrate"} -> [form |-> name] @@ asked
          [] e.kind = "call" /\ name = "limit" -> [form |-> name, point |-> LatexOr(args, 3, <<Digits(0)>>)] @@ asked
          [] e.kind = "call" /\ name \in {"series", "taylor"} -> [form |-> "series", body |-> LatexOr(args, 1, <<>>), is |-> is]
          [] OTHER -> [form |-> "plain", is |-> is]
FormatLatex(r, e, precision) ==
    CASE r.shape = "scalar"       -> FormatLatexScalar(r.value)
      [] r.shape = "complex"      -> FormatLatexComplex(r.value)
      [] r.shape = "matrix"       -> FormatLatexMatrix(r.value)
      [] r.shape = "bigint"       -> SignedText(Whole(r.value))
      [] r.shape = "rational"     -> FormatLatexBigRational(r.value, precision)
      [] r.shape = "vector"       -> FormatLatexVector(r.value)
      [] r.shape = "polynomial"   -> FormatLatexPolynomial(r.value)
      [] r.shape = "complex_list" -> FormatLatexComplexList(r.value)
      [] r.shape = "symbolic"     -> IF e.kind = "call" THEN FormatLatexSymbolic(e.head, e, r.value) ELSE [form |-> "plain", is |-> SymbolicStrToLatex(r.value)]
      [] r.shape = "steps"        -> Separated(r.value, <<Space, Word("\\to"), Space>>)
      [] r.shape = "datetime"     -> Letter("\\text") \o Braced(r.value)
-----------------------------------------------------------------------------
\* Text (cli.rs)
PlainScalar(q) == ScalarText(q, "inf", "NaN")
FormatComplex(z) ==
    PlainScalar(z[1]) \o (IF LessEq(Zero, z[2]) THEN <<Char("+")>> ELSE <<>>) \o PlainScalar(z[2]) \o Letter("i")
FormatVector(v) == Bracketed(Commas([i \in DOMAIN v |-> PlainScalar(v[i])]))
FormatMatrix(m) == Bracketed(Commas([i \in DOMAIN m |-> FormatVector(m[i])]))
FormatPolynomialTerm(q, i) ==
    CASE q = Zero          -> <<>>
      [] q # Zero /\ i = 0 -> PlainScalar(q)
      [] q # Zero /\ i = 1 -> Factor(q, PlainScalar(q)) \o Letter("x")
      [] q # Zero /\ i > 1 -> Factor(q, PlainScalar(q)) \o Letter("x") \o <<Char("^"), Digits(i)>>
JoinPolynomialTerms(terms) ==
    FoldLeft(LAMBDA t, u : IF Head(u) = Char("-") THEN t \o u ELSE t \o <<Char("+")>> \o u, Head(terms), Tail(terms))
FormatPolynomial(p) ==
    LET terms == TermsOf(p, FormatPolynomialTerm) IN IF terms = <<>> THEN <<Digits(0)>> ELSE JoinPolynomialTerms(terms)
FormatComplexList(c) == Bracketed(Commas([i \in DOMAIN c |-> FormatComplex(c[i])]))
FormatBigRational(q, precision) ==
    CASE precision # <<>>                  -> <<FormatDecimal(q, precision[1])>>
      [] precision = <<>> /\ IsInteger(q)  -> SignedText(q)
      [] precision = <<>> /\ ~IsInteger(q) -> SignedText(Whole(q[1])) \o <<Char("/"), Digits(q[2])>>
FormatResult(r, precision) ==
    CASE r.shape = "scalar"       -> PlainScalar(r.value)
      [] r.shape = "complex"      -> FormatComplex(r.value)
      [] r.shape = "matrix"       -> FormatMatrix(r.value)
      [] r.shape = "bigint"       -> SignedText(Whole(r.value))
      [] r.shape = "rational"     -> FormatBigRational(r.value, precision)
      [] r.shape = "vector"       -> FormatVector(r.value)
      [] r.shape = "polynomial"   -> FormatPolynomial(r.value)
      [] r.shape = "complex_list" -> FormatComplexList(r.value)
      [] r.shape = "steps"        -> Separated(r.value, <<Char("\n")>>)
      [] r.shape \in {"symbolic", "datetime"} -> r.value
\* the places asked for by a precision(N, e) at the top
ExtractFormatPrecision(e) ==
    IF e.kind = "call" /\ e.head = "precision" /\ Len(e.kids) = 2 /\ IsNumber(e.kids[1]) /\ IsInteger(e.kids[1].num)
       /\ 0 < e.kids[1].num[1] /\ e.kids[1].num[1] <= MaxPrecision
    THEN <<e.kids[1].num[1]>> ELSE <<>>

\* JSON, of the command line and of the server: numbers, texts, arrays and
\* objects; null takes the place of a number that JSON does not have.
Json2(kind, value) == [json |-> kind, value |-> value]
JsonNumber(q) == IF IsFinite(q) THEN Json2("number", q) ELSE Json2("null", Zero)
JsonText(t)   == Json2("text", t)
JsonArray(s)  == Json2("array", s)
JsonPair(z)   == Json2("object", [re |-> JsonNumber(z[1]), im |-> JsonNumber(z[2])])
JsonNumbers(v) == JsonArray([i \in DOMAIN v |-> JsonNumber(v[i])])
FormatJsonOutput(r, precision) ==
    CASE r.shape = "scalar"  -> JsonNumber(r.value)
      [] r.shape = "complex" -> JsonPair(r.value)
      [] r.shape = "steps"   -> JsonArray([i \in DOMAIN r.value |-> JsonText(r.value[i])])
      [] OTHER               -> JsonText(FormatResult(r, precision))
EvalResultToJson(r) ==
    CASE r.shape = "scalar"       -> IF IsFinite(r.value) THEN JsonNumber(r.value) ELSE JsonText(PlainScalar(r.value))
      [] r.shape = "complex"      -> JsonPair(r.value)
      [] r.shape = "matrix"       -> JsonArray([i \in DOMAIN r.value |-> JsonNumbers(r.value[i])])
      [] r.shape = "bigint"       -> JsonText(SignedText(Whole(r.value)))
      [] r.shape = "rational"     -> Json2("object", [num |-> JsonText(SignedText(Whole(r.value[1]))), den |-> JsonText(<<Digits(r.value[2])>>)])
      [] r.shape \in {"vector", "polynomial"} -> JsonNumbers(r.value)
      [] r.shape = "complex_list" -> JsonArray([i \in DOMAIN r.value |-> JsonPair(r.value[i])])
      [] r.shape = "symbolic"     -> JsonText(r.value)
      [] r.shape = "steps"        -> JsonArray([i \in DOMAIN r.value |-> JsonText(r.value[i])])
      [] r.shape = "datetime"     -> Json2("object", [type |-> JsonText(Letter("datetime")), value |-> JsonText(r.value)])
FromEval(r, precision) ==
    IF r.shape = "rational" /\ precision # <<>> THEN JsonText(FormatBigRational(r.value, precision)) ELSE EvalResultToJson(r)
\* all that may be shown of the result of e
Shown(r, e, places) ==
    [latex |-> FormatLatex(r, e, places), text |-> FormatResult(r, places), cli |-> FormatJsonOutput(r, places), server |-> FromEval(r, places)]
-----------------------------------------------------------------------------
(***************************************************************************)
(* What a reader may make of it.                                           *)
(***************************************************************************)
Operation(e) == e.kind \in {"binary", "neg", "call"}
RECURSIVE Operations(_)
Operations(e) == (IF Operation(e) THEN 1 ELSE 0) + FoldLeft(+, 0, [i \in DOMAIN e.kids |-> Operations(e.kids[i])])
LeafValues(e) == {Walk(n, 0).is.value : n \in {m \in NodesOutside(e, {}) : m.kind \in {"number", "bignumber", "variable"}}}
\* Each step taken on its own; the smallest integer's magnitude is no i64.
StepRight(s) ==
    LET a == s.args[1]  b == s.args[2]  v == s.value
    IN  CASE s.sign = "sqrt"  -> Times(v, v) = a
          [] s.sign = "floor" -> IsInteger(v) /\ LessEq(v, a) /\ LessF(a, Plus(v, Whole(1)))
          [] s.sign = "ceil"  -> IsInteger(v) /\ LessEq(a, v) /\ LessF(v, Plus(a, Whole(1)))
          [] s.sign = "round" -> IsInteger(v) /\ LessEq(AbsOf(Minus(v, a)), <<1, 2>>)
          [] s.sign \in {"min", "max"} -> v \in {a, b} /\ LessEq(a, v) = (s.sign = "max" \/ a = v) /\ LessEq(b, v) = (s.sign = "max" \/ b = v)
          [] s.sign \in {"gcd", "lcm"} -> LET i == IntegerAnswer(s.sign, <<a[1], b[1]>>) IN i.ok /\ ~({a[1], b[1]} \subseteq {0, -Wide}) => v = Whole(AsF64(Min({i.is, Wide - 1})))
          [] OTHER            -> TRUE
\* Evaluators that know what steps know: arithmetic and scientific.
ByEvaluating(e) == {v \in {EvalArithmetic(e), EvalScientific(e)} : v.ok}
Known(n)     == n.kind = "call" => <<n.head, Len(n.kids)>> \in (StepsOfOne \X {1}) \cup (StepsOfTwo \X {2}) \cup (StepsOfNone \X {0})
OnlySteps    == StepsOfTwo \cup StepsOfNone \cup {"sqrt", "log", "abs", "floor", "ceil", "round"}
Unbounded(e) == \E n \in NodesOutside(e, {}) : n.kind = "variable" /\ n.head \in DOMAIN Bindings /\ ~IsFinite(Bindings[n.head])
\* One step for each operation, from values given or found before, none in
\* vain; the last is the value evaluating gives.  Steps fail where evaluating
\* does, and for functions and infinities that they do not know.
StepsRight(e, r) ==
    LET s == r.is
    IN  IF r.ok
        THEN /\ Len(s) = Operations(e) /\ \A i \in DOMAIN s : StepRight(s[i])
             /\ \A i \in DOMAIN s : ToSet(s[i].args) \subseteq LeafValues(e) \cup {s[j].value : j \in 1 .. i - 1}
             /\ e.kind # "list" => \A i \in 1 .. Len(s) - 1 : \E j \in i + 1 .. Len(s) : s[i].value \in ToSet(s[j].args)
             /\ Operation(e) => \A v \in ByEvaluating(e) : Last(s).value = v.is
             /\ Operation(e) /\ ByEvaluating(e) = {} => FunctionsOf(e, {}) \cap OnlySteps # {} \/ \E n \in NodesOutside(e, {}) : n.kind = "bignumber"
        ELSE ByEvaluating(e) # {} => r = TooDeep \/ Unbounded(e) \/ \E n \in NodesOutside(e, {}) : ~Known(n)

\* The terms of a sum in the powers of a letter, and the coefficients of the
\* first n powers.
Sign3(a) == a \in {Char("+"), Char("-")}
ReadTerms(text, n) ==
    LET s == SelectSeq(text, LAMBDA a : a \notin {Space, Char("{"), Char("}")})
        starts == {i \in DOMAIN s : i = 1 \/ Sign3(s[i])}
        body(i) == SubSeq(s, IF Sign3(s[i]) THEN i + 1 ELSE i, Min({j \in starts : j > i} \cup {Len(s) + 1}) - 1)
        factor(b) == IF NumberAt(b, 1) = 0 THEN Whole(1) ELSE Mantissa(b, 1)
        letter(b) == SubSeq(b, NumberAt(b, 1) + 1, Len(b))
        power(b)  == IF letter(b) = <<>> THEN 0 ELSE IF Len(letter(b)) = 1 THEN 1 ELSE letter(b)[3].num
        value(i)  == IF s[i] = Char("-") THEN Negate(factor(body(i))) ELSE factor(body(i))
    IN  [k \in 1 .. n |-> FoldLeftDomain(LAMBDA sum, i : IF i \in starts /\ power(body(i)) = k - 1 THEN Plus(sum, value(i)) ELSE sum, Zero, s)]
Inside(t)      == SubSeq(t, 2, Len(t) - 1)
Parts2(t, sep) == SplitByPattern(t, <<sep>>)
ReadAll(texts, n) == [i \in DOMAIN texts |-> ReadTerms(texts[i], n)]
\* a number, an infinity or what is no number
ReadScalar(t) ==
    LET word == Last(t).text
    IN  CASE word \in {"NaN", "\\text{NaN}"} -> NaN
          [] word \in {"inf", "\\infty"}     -> IF Head(t) = Char("-") THEN Negate(Inf) ELSE Inf
          [] OTHER                            -> ReadTerms(t, 1)[1]
ReadNumbers(texts) == [i \in DOMAIN texts |-> ReadScalar(SelectSeq(texts[i], LAMBDA a : a # Space))]
DecimalOf(d, n) == Ratio((IF d.minus THEN -1 ELSE 1) * (d.whole * 10 ^ n + d.places), 10 ^ n)
\* JSON has no infinities: null stands for them, or their text
JsonHolds(j, q) ==
    CASE j.json = "number" -> j.value = q
      [] j.json = "null"   -> ~IsFinite(q)
      [] j.json = "text"   -> ReadScalar(j.value) = q
JsonHoldsPair(j, z) == JsonHolds(j.value.re, z[1]) /\ JsonHolds(j.value.im, z[2])
JsonHoldsAll(j, v)  == Len(j.value) = Len(v) /\ \A i \in DOMAIN v : JsonHolds(j.value[i], v[i])
\* LaTeX as a text for the parser, and the value of a text without variables
BraceEnd(t, i) == Min({j \in i .. Len(t) : Cardinality({k \in i .. j : t[k] = Char("{")}) = Cardinality({k \in i .. j : t[k] = Char("}")})})
RECURSIVE FromLatex(_)
FractionFrom(t, middle, end) ==
    Round(Round(FromLatex(SubSeq(t, 3, middle - 1))) \o <<Char("/")>> \o Round(FromLatex(SubSeq(t, middle + 2, end - 1)))) \o FromLatex(SubSeq(t, end + 1, Len(t)))
FromLatex(t) ==
    IF t = <<>> THEN <<>>
    ELSE IF Head(t) = Word("\\frac") THEN FractionFrom(t, BraceEnd(t, 2), BraceEnd(t, BraceEnd(t, 2) + 1))
    ELSE <<CASE Head(t) = Word("\\cdot") -> Char("*") [] Head(t) = Word("\\bmod") -> Char("%")
             [] Head(t) = Char("{") -> Char("(") [] Head(t) = Char("}") -> Char(")") [] OTHER -> Head(t)>>
         \o FromLatex(Tail(t))
ValueOfText(t) == AndThen(Parse(t), LAMBDA e : AndThen(ToSymbolic(e), LAMBDA s : ValueAt(s, <<>>)))
\* The numbers of a result are read back from its text, its LaTeX and the two
\* forms of JSON alike; rounded to the nearest in texts and cut in LaTeX where
\* places are given.  Steps, dates and symbolic results are texts already.
ShownRight(r, precision, shown) ==
    LET v == r.value
        numbers(t, sep) == ReadNumbers(Parts2(t, sep))
        rows(t, sep)    == Parts2(Inside(t), sep)
        exact == r.shape = "rational" /\ precision = <<>>
        cut   == r.shape = "rational" /\ precision # <<>>
        InBoth(Reads(_)) == Reads(shown.text) /\ Reads(shown.latex)
    IN  CASE r.shape = "scalar"  -> InBoth(LAMBDA t : ReadScalar(t) = v) /\ JsonHolds(shown.cli, v) /\ JsonHolds(shown.server, v) /\ shown.server.json # "null"
          [] r.shape = "bigint"  -> InBoth(LAMBDA t : ReadScalar(t) = Whole(v)) /\ JsonHolds(shown.cli, Whole(v)) /\ JsonHolds(shown.server, Whole(v))
          [] r.shape = "complex" -> InBoth(LAMBDA t : ReadTerms(t, 2) = v) /\ JsonHoldsPair(shown.cli, v) /\ JsonHoldsPair(shown.server, v)
          [] r.shape = "polynomial" -> InBoth(LAMBDA t : ReadTerms(t, Len(v)) = v) /\ JsonHoldsAll(shown.server, v)
          [] r.shape = "vector" -> InBoth(LAMBDA t : numbers(Inside(t), Char(",")) = v) /\ JsonHoldsAll(shown.server, v)
          [] r.shape = "matrix" -> \A i \in DOMAIN v :
                 /\ numbers(rows(shown.latex, Word("\\\\"))[i], Char("&")) = v[i]
                 /\ numbers(Inside(rows(shown.text, Char(","))[i]), Char(",")) = v[i]
                 /\ JsonHoldsAll(shown.server.value[i], v[i])
          [] r.shape = "complex_list" -> InBoth(LAMBDA t : ReadAll(rows(t, Char(",")), 2) = v) /\ \A i \in DOMAIN v : JsonHoldsPair(shown.server.value[i], v[i])
          [] exact -> /\ ValueOfText(shown.text) = Ok(v) /\ ValueOfText(FromLatex(shown.latex)) = Ok(v) /\ ValueOfText(shown.cli.value) = Ok(v)
                      /\ Over(ReadScalar(shown.server.value.num.value), ReadScalar(shown.server.value.den.value)) = v
          [] cut -> LET n == precision[1]  near == DecimalOf(shown.text[1], n)  below == DecimalOf(shown.latex[1], n)
                    IN  /\ LessEq(AbsOf(Minus(near, v)), Ratio(1, 2 * 10 ^ n)) /\ LessF(AbsOf(Minus(below, v)), Ratio(1, 10 ^ n))
                        /\ LessEq(AbsOf(below), AbsOf(v)) /\ DecimalOf(shown.server.value[1], n) = near /\ DecimalOf(shown.cli.value[1], n) = near
          [] OTHER -> TRUE

\* Where LaTeX without parentheses means what the tree does.
LatexLevel(e) ==
    CASE e.kind = "call" \/ Binary(e, "/")     -> 5
      [] IsNumber(e) /\ e.num[1] < 0           -> 3
      [] Binary(e, "mod")                       -> 2
      [] OTHER                                  -> Level(e)
Unshowable == {"complex", "list", "matrix", "row", "str"}
KeepsMeaning(n) ==
    CASE n.kind = "binary" /\ n.head \in {"+", "-"}   -> LatexLevel(n.kids[2]) >= 2
      [] n.kind = "binary" /\ n.head \in {"*", "mod"} -> LatexLevel(n.kids[1]) >= 2 /\ LatexLevel(n.kids[2]) >= 3
      [] Binary(n, "^")  -> LatexLevel(n.kids[1]) = 5
      [] n.kind = "neg"  -> LatexLevel(n.kids[1]) >= 3
      [] OTHER           -> n.kind \notin Unshowable
\* the tree as the parser writes it: numbers without a sign, mod a function
RECURSIVE AsParsed(_)
AsParsed(e) ==
    LET kids == [i \in DOMAIN e.kids |-> AsParsed(e.kids[i])]
    IN  CASE IsNumber(e) /\ e.num[1] < 0 -> Neg(Number(Negate(e.num)))
          [] Binary(e, "mod")            -> Call("mod", kids)
          [] OTHER                       -> [e EXCEPT !.kids = kids]
\* The numbers and names of a tree in order, but for arguments that have no form.
RECURSIVE InkOfTree(_)
InkOfTree(e) ==
    CASE e.kind \in {"number", "bignumber"} -> <<Lexeme("number", "", AbsOf(e.num))>>
      [] e.kind = "variable" -> <<Lexeme("name", e.head, Zero)>>
      [] OTHER -> (IF e.kind = "call" THEN <<Lexeme("name", e.head, Zero)>> ELSE <<>>)
                  \o Joins([i \in DOMAIN e.kids |-> IF AstToLatexExpr(e.kids[i]).ok THEN InkOfTree(e.kids[i]) ELSE <<>>])
\* A tree has LaTeX unless something without a form is in it outside of calls.
\* It has all numbers and names, in order, and reads as the tree it was written
\* from exactly where that needs no parentheses: none are written.
LatexRight(e, r) ==
    /\ r.ok <=> \A n \in NodesOutside(e, {"call"}) : n.kind \notin Unshowable
    /\ r.ok =>
         LET t == FromLatex(r.is)
         IN  /\ InkOf(LexemesFrom(t, 1)) = InkOfTree(e)
             /\ Len(Spelled(t)) <= MAX_EXPR_LEN /\ Nesting(t) <= MAX_AST_DEPTH =>
                   (Parse(t) = Ok(AsParsed(e)) <=> \A n \in NodesOutside(e, {}) : KeepsMeaning(n))
\* The LaTeX of a symbolic result has the tokens of its text and reads as the
\* text does where exponents are whole; it says which function was asked, of
\* which body, written as any tree is.
WholeExponents(e) == \A n \in NodesOutside(e, {}) : Binary(n, "^") => IsNumber(n.kids[2]) /\ n.kids[2] # NanConst /\ IsInteger(n.kids[2].num)
Untexed(s) == [i \in DOMAIN s |-> IF s[i].kind # "token" THEN s[i]
                  ELSE Token(CASE s[i].head = "\\cdot" -> "*" [] s[i].head = "{" -> "(" [] s[i].head = "}" -> ")" [] OTHER -> s[i].head)]
Unbraced(s) == SelectSeq(s, LAMBDA a : ~(a.kind = "token" /\ a.head \in {"{", "}"}))
Cut(s) == FlattenSeq([i \in DOMAIN s |-> IF IsNumber(s[i]) /\ s[i] # NanConst THEN <<Number(WholePart(s[i].num))>> \o PointAndOn(s[i].num) ELSE <<s[i]>>])
CalculusShownRight(e, shown) ==
    LET is == EvalSymbolic(e).is
    IN  /\ Cut(Untexed(Unbraced(shown.is))) = Cut(Printed(is))
        /\ WholeExponents(is) => ReadSum(Untexed(shown.is)).e = ReadSum(Printed(is)).e
        /\ shown.form = IF e.head = "simplify" THEN "plain" ELSE e.head
        /\ e.head # "simplify" => shown.var = Letter(e.kids[2].head) /\ LatexRight(e.kids[1], Ok(shown.body))
==============================================================================
