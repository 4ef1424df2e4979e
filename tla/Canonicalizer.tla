---------------------------- MODULE Canonicalizer ----------------------------
(***************************************************************************)
(* The AST canonicalizer (core/canonicalizer.rs): constant folding, a      *)
(* canonical operand order for + and *, double negation, and the           *)
(* S-expression that becomes the cache key.                                *)
(*                                                                         *)
(* A canonical string is modelled by its token tree: what is between a     *)
(* pair of parentheses is a head and a collection of arguments.  The       *)
(* arguments of + and * are printed sorted, so only their multiset shows:  *)
(* [args |-> {<<count, tree>>}]; all others show their positions:          *)
(* [args |-> {<<position, tree>>}].  A string is printed as it is between  *)
(* "(str " and ")", so one with ") (str " inside prints as several.        *)
(* MAX_AST_DEPTH is not modelled: the parser refuses deeper input first.   *)
(***************************************************************************)
EXTENDS Ast, SequencesExt

CONSTANTS
    NameOrder,   \* the variable names in their string order
    Broken       \* the strings with ") (str " inside, and what stands between

ASSUME NamesAssumption == NameOrder \in Seq(STRING)
ASSUME BrokenAssumption == \A s \in DOMAIN Broken : s \in STRING /\ Broken[s] \in Seq(STRING)

\* The error of a failed fold; an AST otherwise.
FoldError == Node("error", "", Zero, <<>>)
Failed(e) == e.kind = "error"

(***************************************************************************)
(* Constant folding                                                        *)
(***************************************************************************)
\* a op b, or <<0, 0>> where the operation fails.  Exponents are integers.
Undefined == <<0, 0>>
Apply(op, a, b) ==
    CASE op = "+" -> Ratio(a[1] * b[2] + b[1] * a[2], a[2] * b[2])
      [] op = "-" -> Ratio(a[1] * b[2] - b[1] * a[2], a[2] * b[2])
      [] op = "*" -> Ratio(a[1] * b[1], a[2] * b[2])
      [] op = "/" -> IF b[1] = 0 THEN Undefined ELSE Ratio(a[1] * b[2], a[2] * b[1])
      [] op = "^" -> IF b[1] >= 0 THEN Power(a, b[1])
                     ELSE IF a[1] = 0 THEN Undefined
                     ELSE Power(Ratio(a[2], a[1]), -b[1])
      [] op = "mod" ->
            IF b[1] = 0 THEN Undefined
            ELSE LET n == a[1] * b[2]  d == b[1] * a[2]
                 IN  Ratio(n - d * Quo(n, d), a[2] * b[2])

FoldBinary(op, l, r) ==
    LET q == Apply(op, l.num, r.num) IN IF q = Undefined THEN FoldError ELSE Number(q)

(***************************************************************************)
(* Operand order: a number before anything else, variables by name, any    *)
(* other pair stays as it is.                                              *)
(***************************************************************************)
Position(x) == CHOOSE i \in DOMAIN NameOrder : NameOrder[i] = x
LessNum(a, b) == a[1] * b[2] < b[1] * a[2]

\* mutant: any two variables are swapped
AfterUnordered(l, r) ==
    \/ IsNumber(l) /\ IsNumber(r) /\ LessNum(r.num, l.num)
    \/ ~IsNumber(l) /\ IsNumber(r)
    \/ l.kind = "variable" /\ r.kind = "variable"
After(l, r) ==
    \/ IsNumber(l) /\ IsNumber(r) /\ LessNum(r.num, l.num)
    \/ ~IsNumber(l) /\ IsNumber(r)
    \/ l.kind = "variable" /\ r.kind = "variable" /\ Position(l.head) > Position(r.head)

Commutes(op) == op \in {"+", "*"}
Ordered(op, l, r) ==
    IF Commutes(op) /\ After(l, r) THEN BinaryOp(op, r, l) ELSE BinaryOp(op, l, r)

(***************************************************************************)
(* transform_inner(ast, fold_constants, fold_unary = TRUE)                 *)
(***************************************************************************)
TransformBinary(op, l, r, fold) ==
    IF fold /\ IsNumber(l) /\ IsNumber(r) THEN FoldBinary(op, l, r) ELSE Ordered(op, l, r)

TransformNeg(e) ==
    IF e.kind = "neg" THEN e.kids[1]
    ELSE IF IsNumber(e) THEN Number(<<-e.num[1], e.num[2]>>)
    ELSE Neg(e)

\* precision(N, expr) keeps expr unfolded, so that it stays exact.
FoldsArgument(e, i, fold) ==
    fold /\ ~(e.kind = "call" /\ e.head = "precision" /\ Len(e.kids) = 2 /\ i = 2)

RECURSIVE Transform(_, _)
Transform(e, fold) ==
    LET kids == [i \in DOMAIN e.kids |-> Transform(e.kids[i], FoldsArgument(e, i, fold))]
    IN  IF \E i \in DOMAIN kids : Failed(kids[i]) THEN FoldError
        ELSE CASE e.kind = "binary" -> TransformBinary(e.head, kids[1], kids[2], fold)
               [] e.kind = "neg"    -> TransformNeg(kids[1])
               [] OTHER             -> [e EXCEPT !.kids = kids]

Canonical(e) == Transform(e, TRUE)

(***************************************************************************)
(* Serialization                                                           *)
(***************************************************************************)
Token(head, num, args) == [head |-> head, num |-> num, args |-> args]

\* collect_same_op: the operands of a tree of one associative operator.
RECURSIVE Operands(_, _)
Operands(op, e) ==
    IF e.kind = "binary" /\ e.head = op
    THEN Operands(op, e.kids[1]) \o Operands(op, e.kids[2])
    ELSE <<e>>

Listed(s) == {<<i, s[i]>> : i \in DOMAIN s}
\* mutant: equal operands are printed once
SortedDistinct(s) == {<<1, t>> : t \in {s[i] : i \in DOMAIN s}}
Sorted(s) == {<<Cardinality({i \in DOMAIN s : s[i] = t}), t>> : t \in {s[i] : i \in DOMAIN s}}

StrTokens(s) ==
    LET texts == IF s \in DOMAIN Broken THEN Broken[s] ELSE <<s>>
    IN  [i \in DOMAIN texts |-> Token("str", Zero, {<<1, Token(texts[i], Zero, {})>>})]

\* One token, or several for a string.  A Number and a BigNumber of the same
\* value print the same digits; a list literal and a call of a function named
\* list, a string and a call of str print the same.  (No domain gives a value
\* to a string as an operand of + or *, which alone are sorted.)
RECURSIVE Serialize(_)
Serialize(e) ==
    LET flat    == e.kind = "binary" /\ Commutes(e.head)
        parts   == IF flat THEN Operands(e.head, e) ELSE e.kids
        printed == FlattenSeq([i \in DOMAIN parts |-> Serialize(parts[i])])
    IN  IF e.kind = "str" THEN StrTokens(e.head)
        ELSE <<Token(e.head, e.num, IF flat THEN Sorted(printed) ELSE Listed(printed))>>
=============================================================================
