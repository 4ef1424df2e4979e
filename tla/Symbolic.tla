------------------------------ MODULE Symbolic ------------------------------
(***************************************************************************)
(* Symbolic calculus: math/symbolic.rs and the symbolic domain.  A         *)
(* SymbolicExpr is a tree of Ast, its constants the numbers.               *)
(*                                                                         *)
(* Values of sin, cos, tan, exp and ln are irrational but for one          *)
(* argument.  Rational functions stand for them that have the right value  *)
(* there and obey sin^2 + cos^2 = 1 and tan = sin / cos; no rule of the    *)
(* code knows more about them.  pi and e are the numbers of Floats.        *)
(***************************************************************************)
EXTENDS Floats

SymbolicFunctions == {"sin", "cos", "tan", "ln", "exp"}
NanConst         == Node("number", "nan", Zero, <<>>)       \* Const(f64::NAN)
IsZeroNode(e) == e = Num(0)
IsOneNode(e)  == e = Num(1)
Binary(e, op) == e.kind = "binary" /\ e.head = op
Squared2(e)   == BinaryOp("^", e, Num(2))

RECURSIVE ToSymbolic(_)
ToSymbolic(e) ==
    LET kids == Collected([i \in DOMAIN e.kids |-> ToSymbolic(e.kids[i])])
    IN  CASE e.kind \in {"number", "bignumber"} -> Ok(Number(e.num))
          [] e.kind = "variable" -> Ok(CASE e.head = "pi" -> Number(Pi) [] e.head = "e" -> Number(Euler) [] OTHER -> e)
          [] e.kind = "binary"   -> IF ~kids.ok THEN kids ELSE IF e.head = "mod" THEN BadArguments ELSE Ok([e EXCEPT !.kids = kids.is])
          [] e.kind = "neg"      -> IF kids.ok THEN Ok(Neg(kids.is[1])) ELSE kids
          [] e.kind = "call"     ->
                IF Len(e.kids) # 1 THEN BadArguments
                ELSE IF ~kids.ok THEN kids
                ELSE IF e.head \in SymbolicFunctions \cup {"log"} THEN Ok(Call(IF e.head = "log" THEN "ln" ELSE e.head, kids.is)) ELSE BadArguments
          [] OTHER               -> BadArguments
-----------------------------------------------------------------------------
RECURSIVE Diff(_, _)
DiffPow(f, g, x) ==
    IF IsNumber(g)
    THEN BinaryOp("*", BinaryOp("*", g, BinaryOp("^", f, Number(Minus(g.num, Whole(1))))), Diff(f, x))
    ELSE IF IsZeroNode(f) THEN NanConst
    ELSE BinaryOp("*", BinaryOp("^", f, g),
            BinaryOp("+", BinaryOp("*", Diff(g, x), Call("ln", <<f>>)), BinaryOp("/", BinaryOp("*", g, Diff(f, x)), f)))
\* f' of sin(f) ... is multiplied with what the function becomes
DiffFunction(name, f) ==
    CASE name = "sin" -> Call("cos", <<f>>)
      [] name = "cos" -> Neg(Call("sin", <<f>>))
      [] name = "tan" -> BinaryOp("/", Num(1), Squared2(Call("cos", <<f>>)))
      [] name = "exp" -> Call("exp", <<f>>)
      [] name = "ln"  -> BinaryOp("/", Num(1), f)
Diff(e, x) ==
    LET f == e.kids[1]  g == e.kids[2]
        left == BinaryOp("*", Diff(f, x), g)  right == BinaryOp("*", f, Diff(g, x))
    IN  CASE e.kind = "number"   -> Num(0)
          [] e.kind = "variable" -> Num(IF e.head = x THEN 1 ELSE 0)
          [] e.kind = "neg"      -> Neg(Diff(f, x))
          [] e.kind = "call"     -> BinaryOp("*", DiffFunction(e.head, f), Diff(f, x))
          [] e.kind = "binary" /\ e.head \in {"+", "-"} -> BinaryOp(e.head, Diff(f, x), Diff(g, x))
          [] Binary(e, "*")      -> BinaryOp("+", left, right)
          [] Binary(e, "/")      -> BinaryOp("/", BinaryOp("-", left, right), Squared2(g))
          [] Binary(e, "^")      -> DiffPow(f, g, x)

\* Integrals: sums, constant factors, powers of the variable, 1/x and the
\* functions of the variable alone.
IntegratePow(f, g, x) ==
    LET n == Plus(g.num, Whole(1))
    IN  IF f # Variable(x) \/ ~IsNumber(g) THEN BadArguments
        ELSE IF n = Zero THEN Ok(Call("ln", <<f>>))
        ELSE Ok(BinaryOp("/", BinaryOp("^", f, Number(n)), Number(n)))
IntegrateFunction(name, f, x) ==
    CASE f # Variable(x) \/ name \in {"ln", "tan"} -> BadArguments
      [] f = Variable(x) /\ name = "sin" -> Ok(Neg(Call("cos", <<f>>)))
      [] f = Variable(x) /\ name = "cos" -> Ok(Call("sin", <<f>>))
      [] f = Variable(x) /\ name = "exp" -> Ok(Call("exp", <<f>>))
RECURSIVE Integrate(_, _)
IntegrateMul(f, g, x) ==
    IF IsNumber(f) THEN AndThen(Integrate(g, x), LAMBDA i : Ok(BinaryOp("*", f, i)))
    ELSE IF IsNumber(g) THEN AndThen(Integrate(f, x), LAMBDA i : Ok(BinaryOp("*", g, i)))
    ELSE BadArguments
Integrate(e, x) ==
    LET f == e.kids[1]  g == e.kids[2]
        both == Collected(<<Integrate(f, x), Integrate(g, x)>>)
    IN  CASE e.kind = "number"   -> Ok(BinaryOp("*", e, Variable(x)))
          [] e.kind = "variable" -> Ok(IF e.head = x THEN BinaryOp("/", Squared2(e), Num(2)) ELSE BinaryOp("*", e, Variable(x)))
          [] e.kind = "neg"      -> AndThen(Integrate(f, x), LAMBDA i : Ok(Neg(i)))
          [] e.kind = "call"     -> IntegrateFunction(e.head, f, x)
          [] e.kind = "binary" /\ e.head \in {"+", "-"} -> IF both.ok THEN Ok(BinaryOp(e.head, both.is[1], both.is[2])) ELSE both
          [] Binary(e, "*")      -> IntegrateMul(f, g, x)
          [] Binary(e, "/")      -> IF f = Num(1) /\ g = Variable(x) THEN Ok(Call("ln", <<g>>)) ELSE BadArguments
          [] Binary(e, "^")      -> IntegratePow(f, g, x)
-----------------------------------------------------------------------------
\* Greedy simplification, from the leaves up.  f64 arithmetic on constants:
Constant(op, a, b) ==
    IF NanConst \in {a, b}
    THEN CASE op = "^" /\ (IsZeroNode(b) \/ IsOneNode(a)) -> Num(1)
           [] op = "^" /\ ~IsZeroNode(b) /\ ~IsOneNode(a) -> BinaryOp(op, a, b)
           [] op = "/" /\ IsZeroNode(b)                   -> BinaryOp(op, a, b)
           [] OTHER                                       -> NanConst
    ELSE CASE op = "+" -> Number(Plus(a.num, b.num))
           [] op = "-" -> Number(Minus(a.num, b.num))
           [] op = "*" -> Number(Times(a.num, b.num))
           [] op = "/" -> IF b.num = Zero THEN BinaryOp(op, a, b) ELSE Number(Over(a.num, b.num))
           [] op = "^" -> IF a.num = Zero /\ b.num[1] < 0 THEN BinaryOp(op, a, b) ELSE Number(Power(a.num, b.num[1]))

\* <<c, rest>>: e is the constant c times rest
ExtractCoeff(e) ==
    CASE IsNumber(e) -> <<e, Num(1)>>
      [] Binary(e, "*") /\ IsNumber(e.kids[1]) -> e.kids
      [] Binary(e, "*") /\ ~IsNumber(e.kids[1]) /\ IsNumber(e.kids[2]) -> <<e.kids[2], e.kids[1]>>
      [] OTHER -> <<Num(1), e>>
CoeffTimes(c, rest) == IF IsZeroNode(c) THEN Num(0) ELSE IF IsOneNode(c) THEN rest ELSE BinaryOp("*", c, rest)
SameTree(a, b) == a = b /\ NanConst \notin NodesOutside(a, {})       \* NaN # NaN
\* sin(a)^2 + cos(a)^2, in either order
IsPythagorean(l, r) ==
    \E name \in {"sin", "cos"} :
       LET other == IF name = "sin" THEN "cos" ELSE "sin"
           Is(e, f) == Binary(e, "^") /\ e.kids[2] = Num(2) /\ e.kids[1].kind = "call" /\ e.kids[1].head = f
       IN  Is(l, name) /\ Is(r, other) /\ SameTree(l.kids[1].kids[1], r.kids[1].kids[1])
LikeTerms(op, l, r) ==
    LET a == ExtractCoeff(l)  b == ExtractCoeff(r)
    IN  IF SameTree(a[2], b[2]) THEN CoeffTimes(Constant(op, a[1], b[1]), a[2]) ELSE BinaryOp(op, l, r)
SimplifyAdd(l, r) ==
    IF IsZeroNode(l) THEN r ELSE IF IsZeroNode(r) THEN l
    ELSE IF IsPythagorean(l, r) THEN Num(1) ELSE LikeTerms("+", l, r)
SimplifySub(l, r) ==
    IF IsZeroNode(r) THEN l ELSE IF IsZeroNode(l) THEN Neg(r) ELSE LikeTerms("-", l, r)
SimplifyMul(l, r) ==
    IF Num(0) \in {l, r} THEN Num(0) ELSE IF IsOneNode(l) THEN r ELSE IF IsOneNode(r) THEN l ELSE BinaryOp("*", l, r)
SimplifyDiv(l, r) ==
    IF IsOneNode(r) THEN l ELSE IF IsZeroNode(l) THEN Num(0) ELSE BinaryOp("/", l, r)
SimplifyPow(l, r) ==
    IF IsZeroNode(r) \/ IsOneNode(l) THEN Num(1) ELSE IF IsOneNode(r) THEN l ELSE BinaryOp("^", l, r)
SimplifyNeg(e) ==
    CASE e = NanConst         -> NanConst
      [] e # NanConst /\ IsNumber(e) -> Number(Minus(Zero, e.num))
      [] e.kind = "neg"  -> e.kids[1]
      [] OTHER           -> Neg(e)
RECURSIVE Simplify(_)
Simplify(e) ==
    LET kids == [i \in DOMAIN e.kids |-> Simplify(e.kids[i])]
        l == kids[1]  r == kids[2]
    IN  CASE e.kind \in {"number", "variable"} -> e
          [] e.kind = "neg"  -> SimplifyNeg(l)
          [] e.kind = "call" -> Call(e.head, kids)
          [] e.kind = "binary" /\ IsNumber(l) /\ IsNumber(r) -> Constant(e.head, l, r)
          [] e.kind = "binary" /\ ~(IsNumber(l) /\ IsNumber(r)) ->
                CASE e.head = "+" -> SimplifyAdd(l, r) [] e.head = "-" -> SimplifySub(l, r) [] e.head = "*" -> SimplifyMul(l, r)
                  [] e.head = "/" -> SimplifyDiv(l, r) [] e.head = "^" -> SimplifyPow(l, r)
-----------------------------------------------------------------------------
FunctionAt(name, v) ==
    LET square == Times(v, v)
        sin == Over(Times(Whole(2), v), Plus(Whole(1), square))
        cos == Over(Minus(Whole(1), square), Plus(Whole(1), square))
    IN  CASE name = "sin" -> Ok(sin)
          [] name = "cos" -> Ok(cos)
          [] name = "tan" -> IF cos = Zero THEN Fail("nan") ELSE Ok(Over(sin, cos))
          [] name = "exp" -> Ok(Plus(Whole(1), Plus(v, square)))
          [] name = "ln"  -> IF v[1] <= 0 THEN BadArguments ELSE Ok(Minus(v, Whole(1)))
RECURSIVE ValueAt(_, _)
ValueAt(e, env) ==
    LET at(i) == ValueAt(e.kids[i], env)
    IN  CASE e = NanConst             -> Fail("nan")
          [] e # NanConst /\ IsNumber(e) -> Ok(e.num)
          [] e.kind = "variable" -> IF e.head \in DOMAIN env THEN Ok(env[e.head]) ELSE Fail("eval")
          [] e.kind = "neg"      -> AndThen(at(1), LAMBDA v : Ok(Minus(Zero, v)))
          [] e.kind = "call"     -> AndThen(at(1), LAMBDA v : FunctionAt(e.head, v))
          [] e.kind = "binary"   -> AndThen(at(1), LAMBDA v : AndThen(at(2), LAMBDA w : ScalarBinary(e.head, v, w)))

MaxHopitalDepth == 5
RECURSIVE LimitFrom(_, _, _, _)
LimitFrom(e, x, point, depth) ==
    LET value == ValueAt(e, x :> point)
        below == Diff(e.kids[2], x)
    IN  CASE value.ok -> value
          [] ~value.ok /\ depth < MaxHopitalDepth /\ Binary(e, "/") ->
                IF IsZeroNode(below) THEN BadArguments
                ELSE LimitFrom(BinaryOp("/", Diff(e.kids[1], x), below), x, point, depth + 1)
          [] OTHER -> BadArguments
Limit(e, x, point) == LimitFrom(e, x, point, 0)

\* the terms <<coefficient, power>> of the series that are not zero
MaxTaylorOrder == 20
RECURSIVE TaylorFrom(_, _, _, _, _)
TaylorFrom(e, x, order, k, factorial) ==
    AndThen(ValueAt(e, x :> Zero), LAMBDA v :
       LET term == IF v = Zero THEN <<>> ELSE <<<<Over(v, Whole(factorial)), k>>>>
       IN  IF k = order THEN Ok(term)
           ELSE AndThen(TaylorFrom(Diff(e, x), x, order, k + 1, factorial * (k + 1)), LAMBDA rest : Ok(term \o rest)))
Taylor(e, x, order) == IF order > MaxTaylorOrder THEN BadArguments ELSE TaylorFrom(e, x, order, 0, 1)
-----------------------------------------------------------------------------
\* Printing: a tree becomes a sequence of tokens, numbers and names as they
\* are; what is put in parentheses depends on the node around it.
Token(s)       == Node("token", s, Zero, <<>>)
InParens(s)    == <<Token("(")>> \o s \o <<Token(")")>>
RECURSIVE Printed(_)
Enclosed(e, bare) == IF bare THEN Printed(e) ELSE InParens(Printed(e))
BareInProduct(e)  == e.kind \in {"number", "variable", "call"} \/ Binary(e, "^")
BareInPower(e)    == e.kind \in {"number", "variable"}
BareAfterMinus(e) == ~Binary(e, "+") /\ ~Binary(e, "-")
Printed(e) ==
    LET l == e.kids[1]  r == e.kids[2]
        infix(left, right) == left \o <<Token(e.head)>> \o right
    IN  CASE e.kind = "number"   -> IF e # NanConst /\ e.num[1] < 0 THEN <<Token("-"), Number(AbsOf(e.num))>> ELSE <<e>>
          [] e.kind = "variable" -> <<e>>
          [] e.kind = "call"     -> <<Token(e.head)>> \o InParens(Printed(l))
          [] e.kind = "neg"      -> <<Token("-")>> \o Enclosed(l, BareAfterMinus(l))
          [] Binary(e, "+")      -> infix(Printed(l), Printed(r))
          [] Binary(e, "-")      -> infix(Printed(l), Enclosed(r, BareAfterMinus(r)))
          [] Binary(e, "^")      -> infix(Enclosed(l, BareInPower(l)), Enclosed(r, BareInPower(r)))
          [] OTHER               -> infix(Enclosed(l, BareInProduct(l)), Enclosed(r, BareInProduct(r)))

\* The domain's functions and the API's methods of the same names.
VariableName(e) == IF e.kind = "variable" THEN Ok(e.head) ELSE BadArguments
RECURSIVE ExtractNumber(_)
ExtractNumber(e) ==
    CASE e.kind \in {"number", "bignumber"} -> Ok(e.num)
      [] e.kind = "neg" -> AndThen(ExtractNumber(e.kids[1]), LAMBDA v : Ok(Minus(Zero, v)))
      [] OTHER          -> BadArguments
SymbolicArity == [diff |-> 2, integrate |-> 2, simplify |-> 1, limit |-> 3, taylor |-> 3]
\* Each of them on an expression, a variable and a number.
OfSymbolic(name, e, x, n) ==
    CASE name = "diff"      -> Ok(Simplify(Diff(e, x)))
      [] name = "integrate" -> AndThen(Integrate(e, x), LAMBDA i : Ok(Simplify(i)))
      [] name = "simplify"  -> Ok(Simplify(e))
      [] name = "limit"     -> Limit(e, x, n)
      [] name = "taylor"    -> Taylor(e, x, Quo(n[1], n[2]))
EvalSymbolic(q) ==
    LET args == q.kids
        x == IF Len(args) > 1 THEN VariableName(args[2]) ELSE Ok("")
        n == IF Len(args) > 2 THEN ExtractNumber(args[3]) ELSE Ok(Zero)
    IN  IF q.kind # "call" \/ q.head \notin DOMAIN SymbolicArity THEN BadArguments
        ELSE IF Len(args) # SymbolicArity[q.head] THEN BadArguments
        ELSE AndThen(ToSymbolic(args[1]), LAMBDA e : AndThen(x, LAMBDA name : AndThen(n, LAMBDA number :
             IF q.head = "taylor" /\ number[1] < 0 THEN BadArguments ELSE OfSymbolic(q.head, e, name, number))))
ApiTaylor(e, x, center, order) ==
    AndThen(ToSymbolic(e), LAMBDA s : IF center # Zero THEN BadArguments ELSE Taylor(s, x, order))
-----------------------------------------------------------------------------
(***************************************************************************)
(* What calculus is to be.  DualAt computes with pairs <<value, slope>>,   *)
(* SeriesAt with the first coefficients of power series.                   *)
(***************************************************************************)
RECURSIVE DualAt(_, _, _)
DualAt(e, x, env) ==
    LET Of(i, Step(_)) == AndThen(DualAt(e.kids[i], x, env), Step)
        Fn(name, v)    == FunctionAt(name, v).is
        slope(name, v) ==
           CASE name = "sin" -> Fn("cos", v)  [] name = "cos" -> Minus(Zero, Fn("sin", v))
             [] name = "tan" -> Over(Whole(1), Power(Fn("cos", v), 2))
             [] name = "exp" -> Fn("exp", v)  [] name = "ln"  -> Over(Whole(1), v)
        power(a, b) ==
           IF IsNumber(e.kids[2])
           THEN IF a[1] = Zero /\ b[1][1] < 1 THEN BadArguments
                ELSE Ok(<<Power(a[1], b[1][1]), Times(Times(b[1], Power(a[1], b[1][1] - 1)), a[2])>>)
           ELSE IF a[1][1] <= 0 \/ ~IsInteger(b[1]) THEN BadArguments
           ELSE LET v == Power(a[1], b[1][1])
                IN  Ok(<<v, Times(v, Plus(Times(b[2], Fn("ln", a[1])), Over(Times(b[1], a[2]), a[1])))>>)
    IN  CASE e = NanConst             -> Fail("nan")
          [] e # NanConst /\ IsNumber(e) -> Ok(<<e.num, Zero>>)
          [] e.kind = "variable" -> IF e.head \in DOMAIN env THEN Ok(<<env[e.head], Whole(IF e.head = x THEN 1 ELSE 0)>>) ELSE Fail("eval")
          [] e.kind = "neg"      -> Of(1, LAMBDA a : Ok(<<Minus(Zero, a[1]), Minus(Zero, a[2])>>))
          [] e.kind = "call"     -> Of(1, LAMBDA a : AndThen(FunctionAt(e.head, a[1]), LAMBDA v : Ok(<<v, Times(slope(e.head, a[1]), a[2])>>)))
          [] e.kind = "binary"   -> Of(1, LAMBDA a : Of(2, LAMBDA b :
                CASE e.head \in {"+", "-"} -> Ok(<<ScalarBinary(e.head, a[1], b[1]).is, ScalarBinary(e.head, a[2], b[2]).is>>)
                  [] e.head = "*" -> Ok(<<Times(a[1], b[1]), Plus(Times(a[2], b[1]), Times(a[1], b[2]))>>)
                  [] e.head = "/" -> IF b[1] = Zero THEN DivByZero
                                     ELSE Ok(<<Over(a[1], b[1]), Over(Minus(a[2], Times(Over(a[1], b[1]), b[2])), b[1])>>)
                  [] e.head = "^" -> power(a, b)))

\* Series with Terms coefficients.
Terms == 6
SeriesOf(c(_))      == [i \in 1 .. Terms |-> c(i - 1)]
SeriesConst(q)      == SeriesOf(LAMBDA i : IF i = 0 THEN q ELSE Zero)
SeriesPlus(s, t)    == [i \in DOMAIN s |-> Plus(s[i], t[i])]
SeriesScaled(s, q)  == [i \in DOMAIN s |-> Times(s[i], q)]
SeriesTimes(s, t)   == WrittenOut([k \in DOMAIN s |-> FoldLeft(LAMBDA sum, i : Plus(sum, Times(s[i], t[k - i + 1])), Zero, [i \in 1 .. k |-> i])])
RECURSIVE SeriesPower(_, _)
SeriesPower(s, n)   == IF n = 0 THEN SeriesConst(Whole(1)) ELSE SeriesTimes(s, SeriesPower(s, n - 1))
\* c(0) + c(1) s + c(2) s^2 + ... for a series without constant term
Composed(c(_), s)   == FoldLeft(LAMBDA sum, k : SeriesPlus(sum, SeriesScaled(SeriesPower(s, k), c(k))), SeriesConst(c(0)), [k \in 1 .. Terms - 1 |-> k])
FactorialOf[n \in Nat] == IF n = 0 THEN 1 ELSE n * FactorialOf[n - 1]
Alternating(k)      == IF (k \div 2) % 2 = 0 THEN 1 ELSE -1
SinTerm(k) == IF k % 2 = 1 THEN Ratio(Alternating(k), FactorialOf[k]) ELSE Zero
CosTerm(k) == IF k % 2 = 0 THEN Ratio(Alternating(k), FactorialOf[k]) ELSE Zero
ExpTerm(k) == Ratio(1, FactorialOf[k])
LnTerm(k)  == IF k = 0 THEN Zero ELSE Ratio(IF k % 2 = 1 THEN 1 ELSE -1, k)
Unshifted(s)        == [s EXCEPT ![1] = Zero]
\* 1 / s for a series whose constant term c is not zero
Reciprocal(s)       == LET c == s[1] IN SeriesScaled(Composed(LAMBDA k : Whole(IF k % 2 = 0 THEN 1 ELSE -1), Unshifted(SeriesScaled(s, Over(Whole(1), c)))), Over(Whole(1), c))
\* The series in x at point, given the values of other variables.
RECURSIVE SeriesAt(_, _, _, _)
SeriesAt(e, x, point, others) ==
    LET Of(i, Step(_)) == AndThen(SeriesAt(e.kids[i], x, point, others), Step)
        invert(s) == IF s[1] = Zero THEN BadArguments ELSE Ok(Reciprocal(s))
        function(name, s) ==
           IF s = SeriesConst(s[1]) THEN AndThen(FunctionAt(name, s[1]), LAMBDA v : Ok(SeriesConst(v)))
           ELSE IF s[1] # Whole(IF name = "ln" THEN 1 ELSE 0) THEN BadArguments
           ELSE LET t == Unshifted(s) IN
                CASE name = "sin" -> Ok(Composed(SinTerm, t))
                  [] name = "cos" -> Ok(Composed(CosTerm, t))
                  [] name = "tan" -> Ok(SeriesTimes(Composed(SinTerm, t), Reciprocal(Composed(CosTerm, t))))
                  [] name = "exp" -> Ok(Composed(ExpTerm, t))
                  [] name = "ln"  -> Ok(Composed(LnTerm, t))
    IN  CASE e.kind = "number"   -> Ok(SeriesConst(e.num))
          [] e.kind = "variable" /\ e.head = x -> Ok(SeriesOf(LAMBDA i : CASE i = 0 -> point [] i = 1 -> Whole(1) [] OTHER -> Zero))
          [] e.kind = "variable" /\ e.head # x -> IF e.head \in DOMAIN others THEN Ok(SeriesConst(others[e.head])) ELSE Fail("eval")
          [] e.kind = "neg"      -> Of(1, LAMBDA s : Ok(SeriesScaled(s, Whole(-1))))
          [] e.kind = "call"     -> Of(1, LAMBDA s : function(e.head, s))
          [] Binary(e, "^")      -> Of(1, LAMBDA s :
                IF ~IsNumber(e.kids[2]) THEN BadArguments
                ELSE LET n == e.kids[2].num[1] IN IF n >= 0 THEN Ok(SeriesPower(s, n)) ELSE AndThen(invert(s), LAMBDA t : Ok(SeriesPower(t, -n))))
          [] OTHER               -> Of(1, LAMBDA s : Of(2, LAMBDA t :
                CASE e.head = "+" -> Ok(SeriesPlus(s, t))
                  [] e.head = "-" -> Ok(SeriesPlus(s, SeriesScaled(t, Whole(-1))))
                  [] e.head = "*" -> Ok(SeriesTimes(s, t))
                  [] e.head = "/" -> AndThen(invert(t), LAMBDA u : Ok(SeriesTimes(s, u)))))
LeadingTerm(s) == LET nonzero == {i \in DOMAIN s : s[i] # Zero} IN IF nonzero = {} THEN Terms + 1 ELSE Min(nonzero)

\* Reading tokens with the usual precedences: [e, rest].
Parsed(e, rest) == [e |-> e, rest |-> rest]
Starts(s, heads) == s # <<>> /\ Head(s).kind = "token" /\ Head(s).head \in heads
RECURSIVE ReadLevel(_, _, _), ReadUnary(_)
ReadSum(s) == ReadLevel(s, {"+", "-"}, "sum")
ReadOperand(s, level) == IF level = "sum" THEN ReadLevel(s, {"*", "/"}, "product") ELSE ReadUnary(s)
RECURSIVE ReadMore(_, _, _, _)
ReadMore(left, s, ops, level) ==
    IF ~Starts(s, ops) THEN Parsed(left, s)
    ELSE LET right == ReadOperand(Tail(s), level) IN ReadMore(BinaryOp(Head(s).head, left, right.e), right.rest, ops, level)
ReadLevel(s, ops, level) == LET first == ReadOperand(s, level) IN ReadMore(first.e, first.rest, ops, level)
ReadAtom(s) ==
    LET inner(t) == LET r == ReadSum(t) IN Parsed(r.e, Tail(r.rest))
        f == inner(Tail(Tail(s)))
    IN  IF Starts(s, {"("}) THEN inner(Tail(s))
        ELSE IF Starts(s, SymbolicFunctions) THEN Parsed(Call(Head(s).head, <<f.e>>), f.rest)
        ELSE Parsed(Head(s), Tail(s))
ReadUnary(s) ==
    IF Starts(s, {"-"}) THEN LET r == ReadUnary(Tail(s)) IN Parsed(Neg(r.e), r.rest)
    ELSE LET base == ReadAtom(s)
         IN  IF ~Starts(base.rest, {"^"}) THEN base
             ELSE LET exponent == ReadUnary(Tail(base.rest)) IN Parsed(BinaryOp("^", base.e, exponent.e), exponent.rest)

Environments == {[x |-> <<2, 1>>, y |-> <<3, 1>>], [x |-> <<-1, 1>>, y |-> <<2, 1>>], [x |-> <<1, 1>>, y |-> <<-2, 1>>]}
Others       == {[y |-> <<2, 1>>], [y |-> <<-3, 1>>]}
\* a negative number is printed without parentheses where it is a base, and
\* reads back as minus the power
RECURSIVE AsRead(_)
AsRead(e) ==
    IF Binary(e, "^") /\ IsNumber(e.kids[1]) /\ e.kids[1].num[1] < 0
    THEN Neg(BinaryOp("^", Number(AbsOf(e.kids[1].num)), AsRead(e.kids[2])))
    ELSE [e EXCEPT !.kids = [i \in DOMAIN e.kids |-> AsRead(e.kids[i])]]
ReadsBack(e) == \A env \in Environments : ValueAt(ReadSum(Printed(e)).e, env) = ValueAt(AsRead(e), env)

\* A limit is the value of the series.  A quotient that has no value at the
\* point, for whatever reason, is answered with the coefficients at the power
\* that the denominator starts with, its constant left aside: a limit where
\* both vanish and the numerator does not start lower.
LimitRight(e, x, point, value) ==
    LET series == SeriesAt(e, x, point, <<>>)
        Quotient(others) ==
           LET top == SeriesAt(e.kids[1], x, point, others)  bottom == SeriesAt(e.kids[2], x, point, others)
               b   == LeadingTerm(Unshifted(bottom.is))
           IN  top.ok /\ bottom.ok => b <= Terms /\ value = Over(top.is[b], bottom.is[b])
    IN  CASE series.ok -> value = series.is[1]
          [] ~series.ok /\ Binary(e, "/") -> \A others \in Others : Quotient(others)
          [] OTHER -> \E n \in NodesOutside(e, {}) : Binary(n, "^") /\ ~IsNumber(n.kids[2])   \* no series
TaylorRight(e, x, order, terms) ==
    LET s == SeriesAt(e, x, Zero, <<>>)
    IN  s.ok /\ \A k \in 0 .. order : {t \in ToSet(terms) : t[2] = k} = IF s.is[k + 1] = Zero THEN {} ELSE {<<s.is[k + 1], k>>}

SymbolicRight(q, r) ==
    LET e == ToSymbolic(q.kids[1]).is
        x == q.kids[2].head
        n == ExtractNumber(q.kids[3]).is
        Everywhere(Law(_)) == \A env \in Environments : Law(env)
        order == Quo(n[1], n[2])
    IN  CASE r.ok /\ q.head = "diff" -> ReadsBack(r.is) /\
                Everywhere(LAMBDA env : LET d == DualAt(e, x, env) IN d.ok => ValueAt(r.is, env) = Ok(d.is[2]))
          [] r.ok /\ q.head = "integrate" -> ReadsBack(r.is) /\
                Everywhere(LAMBDA env : LET d == DualAt(r.is, x, env) IN d.ok => ValueAt(e, env) = Ok(d.is[2]))
          [] r.ok /\ q.head = "simplify"  -> ReadsBack(r.is) /\
                Everywhere(LAMBDA env : ValueAt(e, env).ok => ValueAt(r.is, env) = ValueAt(e, env))
          [] r.ok /\ q.head = "limit"  -> LimitRight(e, x, n, r.is)
          [] r.ok /\ q.head = "taylor" -> TaylorRight(e, x, order, r.is) /\ ApiTaylor(q.kids[1], x, Zero, order) = r
          [] OTHER -> TRUE
=============================================================================
