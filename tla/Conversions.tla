---------------------------- MODULE Conversions ----------------------------
(***************************************************************************)
(* The evaluators of the unit and fx domains, which mix the conversions of *)
(* Amounts with arithmetic, and the hint for a misspelt unit.  The         *)
(* spelling of a name matters to Levenshtein only, which reads sequences   *)
(* of letters.                                                             *)
(***************************************************************************)
EXTENDS Ast, Amounts

CONSTANTS Env,      \* EvalContext.vars: name -> rational
          Quotes    \* the rate table: [base, rates: code -> rational]

ASSUME QuotesAssumption == Quotes.base \in STRING /\ DOMAIN Quotes.rates \subseteq STRING

\* One row of the edit distance table from the row above; a is one letter.
NextRow(prev, a, b) ==
    FoldLeftDomain(LAMBDA row, j : Append(row, Min({prev[j + 1] + 1, row[j] + 1,
                                                     prev[j] + (IF a = b[j] THEN 0 ELSE 1)})),
                   <<prev[1] + 1>>, b)
Levenshtein(a, b) ==
    IF a = <<>> THEN Len(b) ELSE IF b = <<>> THEN Len(a)
    ELSE Last(FoldLeft(LAMBDA row, letter : NextRow(row, letter, b),
                              [j \in 1 .. Len(b) + 1 |-> j - 1], a))
-----------------------------------------------------------------------------
\* The evaluators of the domains "unit" and "fx".
ScalarBinary(op, a, b) ==
    CASE op = "+" -> Ok(Plus(a, b))
      [] op = "-" -> Ok(Minus(a, b))
      [] op = "*" -> Ok(Times(a, b))
      [] op \in {"/", "mod"} ->
            IF b[1] = 0 THEN DivByZero
            ELSE IF op = "/" THEN Ok(Over(a, b))
            ELSE Ok(Minus(a, Times(b, Whole(Quo(a[1] * b[2], a[2] * b[1])))))
      [] op = "^" -> IF a[1] = 0 /\ b[1] < 0 THEN BadArguments ELSE Ok(Power(a, b[1]))

\* convert, fx and fx_rate take their names as string literals only
Conversion(d, name, args, q) ==
    LET names == Tail(args)
    IN  IF \E i \in DOMAIN names : names[i].kind # "str" THEN BadArguments
        ELSE IF d = "unit" THEN ConvertValue(q, names[1].head, names[2].head)
        ELSE Convert(q, names[1].head, names[2].head, Quotes)

RECURSIVE EvalScalarIn(_, _), CallIn(_, _)
EvalScalarIn(d, e) ==
    CASE e.kind \in {"number", "bignumber"} -> Ok(e.num)
      [] e.kind = "variable" -> IF e.head \in DOMAIN Env THEN Ok(Env[e.head]) ELSE Fail("eval")
      [] e.kind = "binary"   -> LET both == Collected([i \in 1 .. 2 |-> EvalScalarIn(d, e.kids[i])])
                                IN  IF both.ok THEN ScalarBinary(e.head, both.is[1], both.is[2]) ELSE both
      [] e.kind = "neg"      -> LET v == EvalScalarIn(d, e.kids[1]) IN IF v.ok THEN Ok(Minus(Zero, v.is)) ELSE v
      [] e.kind = "call"     -> CallIn(d, e)
      [] OTHER               -> BadArguments
CallIn(d, e) ==
    LET arity == CASE e.head = "abs" -> 1 [] e.head \in {"mod", "fx_rate"} -> 2 [] OTHER -> 3
        first == EvalScalarIn(d, e.kids[1])
    IN  CASE e.head \notin {"mod", "abs"} \cup (IF d = "unit" THEN {"convert"} ELSE {"fx", "fx_rate"}) -> BadArguments
          [] Len(e.kids) # arity  -> BadArguments
          [] e.head = "fx_rate"   -> Conversion(d, "fx", <<Num(1)>> \o e.kids, Whole(1))
          [] ~first.ok /\ e.head # "fx_rate" -> first
          [] e.head = "abs" /\ first.ok      -> Ok(AbsOf(first.is))
          [] e.head = "mod" /\ first.ok      -> EvalScalarIn(d, BinaryOp("mod", e.kids[1], e.kids[2]))
          [] OTHER -> Conversion(d, e.head, e.kids, first.is)
\* the fx domain's evaluator is a copy of the unit domain's
EvalFx(e) == EvalScalarIn("fx", e)
-----------------------------------------------------------------------------
(***************************************************************************)
(* What a conversion is to be.                                             *)
(***************************************************************************)
\* The least number of single-letter edits from a to b.
Edited(a, letters) ==
    {RemoveAt(a, i) : i \in DOMAIN a} \cup {ReplaceAt(a, i, c) : i \in DOMAIN a, c \in letters}
    \cup {InsertAt(a, i, c) : i \in 1 .. Len(a) + 1, c \in letters}
RECURSIVE EditsFrom(_, _, _)
EditsFrom(reached, b, letters) ==
    IF b \in reached THEN 0 ELSE 1 + EditsFrom(UNION {Edited(a, letters) : a \in reached}, b, letters)

\* An expression in which every conversion takes a detour over `via`.
RECURSIVE Detour(_, _)
Detour(e, via) ==
    LET kids == [i \in DOMAIN e.kids |-> Detour(e.kids[i], via)]
    IN  IF e.kind = "call" /\ e.head \in {"convert", "fx"} /\ e.kids[2].kind = "str"
        THEN Call(e.head, <<Call(e.head, <<kids[1], kids[2], Str(via)>>), Str(via), kids[3]>>)
        ELSE [e EXCEPT !.kids = kids]

EditsRight(a, b, letters, r) == r = Ok(EditsFrom({a}, b, letters))

MixedRight(d, e, r) ==
    LET calls    == {n \in NodesOutside(e, {}) : n.kind = "call" /\ n.head \in {"convert", "fx"}}
        named    == {n.kids[2].head : n \in calls}
        detours  == IF d = "fx" THEN (IF named \subseteq CodesOf(Quotes) THEN CodesOf(Quotes) ELSE {})
                    ELSE {via \in UnitNames : \A name \in named : Dimension(via) = Dimension(name)}
    IN  r.ok => \A via \in detours : EvalScalarIn(d, Detour(e, via)) = r
=============================================================================
