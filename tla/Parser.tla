------------------------------- MODULE Parser -------------------------------
(***************************************************************************)
(* core/parser.rs.  A text is a sequence of atoms: a run of digits, a run  *)
(* of letters or one other character; no pass of the parser looks closer.  *)
(* The passes rewrite it until the mathexpr library reads it: literals     *)
(* become placeholders, names of the form __cb_0 made of atoms like any    *)
(* other, which the tree read has put back.                                *)
(***************************************************************************)
EXTENDS Conversions

CONSTANTS MAX_EXPR_LEN,   \* 4096 bytes in the code
          MAX_AST_DEPTH   \* 256 in the code

ASSUME ParserAssumption == {MAX_EXPR_LEN, MAX_AST_DEPTH} \subseteq Nat \ {0}

Atom(kind, text, num) == [kind |-> kind, text |-> text, num |-> num]
Digits(i) == Atom("digits", ToString(i), i)
Word(s)   == Atom("word", s, 0)
Char(s)   == Atom("char", s, 0)
Space     == Char(" ")
Quote     == Char("\"")
Backslash == Char("\\")

IsDigits(a) == a.kind = "digits"
IsWord(a)   == a.kind = "word"
BeginsName(a)   == IsWord(a) \/ a = Char("_")          \* may start a name
AtomAt(t, i)    == IF i \in DOMAIN t THEN t[i] ELSE Char("end")
Spelled(t)  == FoldLeft(LAMBDA s, a : s \o a.text, "", t)

\* the first place from i on that is no space
SkipSpaces(t, i) == Min({Len(t) + 1} \cup {j \in i .. Len(t) : t[j] # Space})
Trimmed(t) ==
    LET ink == {i \in DOMAIN t : t[i] # Space} IN IF ink = {} THEN <<>> ELSE SubSeq(t, Min(ink), Max(ink))

ParseError == Fail("parse")
TooDeep    == Fail("depth")
-----------------------------------------------------------------------------
\* A pass that extracts literals: the text written so far, the nodes held
\* back under their placeholders, and the number of the next one.
Pass(text, held)      == [text |-> text, held |-> held, count |-> 0]
Placeholder(prefix, n) == <<Char("_"), Char("_"), Word(prefix), Char("_"), Digits(n)>>
Kept(s, atom)         == [s EXCEPT !.text = Append(@, atom)]
Extracted(s, prefix, node) ==
    LET name == Placeholder(prefix, s.count)
    IN  [text |-> s.text \o name, held |-> (Spelled(name) :> node) @@ s.held, count |-> s.count + 1]
NothingHeld == [name \in {} |-> Num(0)]

\* The string literal whose content goes on at i; after = 0: never closed.
RECURSIVE Literal(_, _, _)
Literal(t, i, content) ==
    IF i > Len(t) THEN [content |-> content, after |-> 0]
    ELSE IF t[i] = Backslash /\ AtomAt(t, i + 1) \in {Quote, Backslash} THEN Literal(t, i + 2, content \o t[i + 1].text)
    ELSE IF t[i] = Quote THEN [content |-> content, after |-> i + 1]
    ELSE Literal(t, i + 1, content \o t[i].text)

RECURSIVE PreprocessStrings(_, _, _)
StringFrom(t, l, s) == IF l.after = 0 THEN ParseError ELSE PreprocessStrings(t, l.after, Extracted(s, "str", Str(l.content)))
PreprocessStrings(t, i, s) ==
    IF i > Len(t) THEN Ok(s)
    ELSE IF t[i] = Quote THEN StringFrom(t, Literal(t, i + 1, ""), s)
    ELSE PreprocessStrings(t, i + 1, Kept(s, t[i]))

\* an integer of 16 digits or more that is no part of a decimal number
IsLong(t, i) == IsDigits(t[i]) /\ t[i].num > MaxExact /\ Char(".") \notin {AtomAt(t, i - 1), AtomAt(t, i + 1)}
PreprocessBigint(t, held) ==
    FoldLeftDomain(LAMBDA s, i : IF IsLong(t, i) THEN Extracted(s, "bn", BigNumber(t[i].num)) ELSE Kept(s, t[i]),
                   Pass(<<>>, held), t)

ConsecutiveOperators(t) ==
    \E i \in DOMAIN t : t[i] \in {Char("+"), Char("*"), Char("/"), Char("^")} /\ AtomAt(t, SkipSpaces(t, i + 1)) = t[i]
-----------------------------------------------------------------------------
\* The regular expressions \d+(\.\d+)? and \d+(\.\d+)?\s*i, at i: how many
\* atoms the number has, and the place of the word that starts with an i.
NumberAt(t, i) ==
    IF ~IsDigits(AtomAt(t, i)) THEN 0 ELSE IF AtomAt(t, i + 1) = Char(".") /\ IsDigits(AtomAt(t, i + 2)) THEN 3 ELSE 1
UnitAfter(t, i) ==
    LET j == SkipSpaces(t, i + NumberAt(t, i))
    IN  IF NumberAt(t, i) > 0 /\ IsWord(AtomAt(t, j)) /\ SubSeq(t[j].text, 1, 1) = "i" THEN j ELSE 0
\* what a match at i becomes, and the word less its i
ComplexCall(re, sign, t, i) ==
    <<Word("complex"), Char("(")>> \o re \o <<Char(",")>> \o sign \o SubSeq(t, i, i + NumberAt(t, i) - 1) \o <<Char(")")>>
RestOf(word) == IF Len(word.text) = 1 THEN <<>> ELSE <<Word(SubSeq(word.text, 2, Len(word.text)))>>

SignAfter(t, i) == SkipSpaces(t, i + NumberAt(t, i))
IsFull(t, i, j) == NumberAt(t, i) > 0 /\ AtomAt(t, j) \in {Char("+"), Char("-")} /\ UnitAfter(t, SkipSpaces(t, j + 1)) # 0
RECURSIVE FullFrom(_, _), PureFrom(_, _)
FullMatch(t, i, j, k) ==
    ComplexCall(SubSeq(t, i, i + NumberAt(t, i) - 1), <<t[j]>>, t, k) \o RestOf(t[UnitAfter(t, k)]) \o FullFrom(t, UnitAfter(t, k) + 1)
FullFrom(t, i) ==
    IF i > Len(t) THEN <<>>
    ELSE IF IsFull(t, i, SignAfter(t, i)) THEN FullMatch(t, i, SignAfter(t, i), SkipSpaces(t, SignAfter(t, i) + 1))
    ELSE <<t[i]>> \o FullFrom(t, i + 1)
PureFrom(t, i) ==
    IF i > Len(t) THEN <<>>
    ELSE IF UnitAfter(t, i) # 0
    THEN ComplexCall(<<Digits(0)>>, <<>>, t, i) \o RestOf(t[UnitAfter(t, i)]) \o PureFrom(t, UnitAfter(t, i) + 1)
    ELSE <<t[i]>> \o PureFrom(t, i + 1)
PreprocessComplex(t) == PureFrom(FullFrom(t, 1), 1)
-----------------------------------------------------------------------------
\* x! becomes factorial(x); the operand is searched for from the end of what
\* is written so far.
RECURSIVE MatchParenBackward(_, _, _)
MatchParenBackward(t, i, depth) ==
    IF depth = 0 THEN i + 1 ELSE IF i = 0 THEN 0
    ELSE MatchParenBackward(t, i - 1, depth + (IF t[i] = Char(")") THEN 1 ELSE IF t[i] = Char("(") THEN -1 ELSE 0))
WordsBefore(t, p) == Min({q \in 1 .. p : \A j \in q .. p - 1 : IsWord(t[j])})
InOperand(a)      == IsWord(a) \/ IsDigits(a) \/ a \in {Char("."), Char("_")}
NameBefore(t, e)  == Min({q \in 1 .. e + 1 : \A j \in q .. e : InOperand(t[j])})
FindOperandStart(t) ==
    LET e == Max({0} \cup {i \in DOMAIN t : t[i] # Space})
        open == MatchParenBackward(t, e - 1, 1)
    IN  IF e = 0 THEN ParseError
        ELSE IF t[e] # Char(")") THEN Ok(NameBefore(t, e))
        ELSE IF open = 0 THEN ParseError ELSE Ok(WordsBefore(t, open))
ApplyFactorial(t) ==
    AndThen(FindOperandStart(t), LAMBDA q :
        Ok(SubSeq(t, 1, q - 1) \o <<Word("factorial"), Char("(")>> \o SubSeq(t, q, Len(t)) \o <<Char(")")>>))
PreprocessFactorial(t) ==
    FoldLeft(LAMBDA r, a : AndThen(r, LAMBDA u : IF a = Char("!") THEN ApplyFactorial(u) ELSE Ok(Append(u, a))), Ok(<<>>), t)

\* A product sign is put where a number or a closing parenthesis meets a name,
\* a number or an opening one, except inside names and before an exponent.
IsScientific(t, i) ==
    t[i].text \in {"e", "E"} /\ (IsDigits(AtomAt(t, i + 1)) \/ (AtomAt(t, i + 1) \in {Char("+"), Char("-")} /\ IsDigits(AtomAt(t, i + 2))))
ShouldInsert(s, a) ==
    \/ s.number /\ (BeginsName(a) \/ a = Char("("))
    \/ s.close /\ (BeginsName(a) \/ IsDigits(a) \/ a = Char("("))
ImplicitStepForgets(s, t, i, inserts) ==
    [text |-> (IF inserts THEN Append(s.text, Char("*")) ELSE s.text) \o <<t[i]>>,
     number |-> IsDigits(t[i]), close |-> t[i] = Char(")"), name |-> FALSE]
ImplicitStep(s, t, i, inserts) ==
    [text |-> (IF inserts THEN Append(s.text, Char("*")) ELSE s.text) \o <<t[i]>>,
     number |-> IsDigits(t[i]) /\ ~(s.name /\ ~inserts),
     close |-> t[i] = Char(")"),
     name |-> BeginsName(t[i]) \/ (IsDigits(t[i]) /\ s.name /\ ~inserts)]
InsertImplicitMultiplication(t) ==
    FoldLeftDomain(LAMBDA s, i : ImplicitStep(s, t, i, ~(s.number /\ IsScientific(t, i)) /\ ShouldInsert(s, t[i])),
                   [text |-> <<>>, number |-> FALSE, close |-> FALSE, name |-> FALSE], t).text

\* the deepest nesting of parentheses; unmatched closing ones are ignored
Nesting(t) ==
    LET at == FoldLeft(LAMBDA d, a : IF a = Char("(") THEN [now |-> d.now + 1, most |-> Max({d.most, d.now + 1})]
                                      ELSE IF a = Char(")") THEN [d EXCEPT !.now = Max({0, @ - 1})] ELSE d,
                       [now |-> 0, most |-> 0], t)
    IN  at.most
-----------------------------------------------------------------------------
\* The mathexpr library: names, numbers and signs, with the usual precedence,
\* powers to the right, a minus before a power, + as the sign of a number.
NameEnd(t, i)   == Max({j \in i .. Len(t) : \A k \in i .. j : BeginsName(t[k]) \/ IsDigits(t[k])})
Exponent(t, i)  == IF IsWord(AtomAt(t, i)) /\ IsScientific(t, i) THEN (IF IsDigits(t[i + 1]) THEN 2 ELSE 3) ELSE 0
Tens(i)         == Whole(10 ^ Len(ToString(i)))
Mantissa(t, i)  == IF NumberAt(t, i) = 3 THEN Plus(Whole(t[i].num), Over(Whole(t[i + 2].num), Tens(t[i + 2].num))) ELSE Whole(t[i].num)
Scale(t, i) ==
    CASE Exponent(t, i) = 0 -> Whole(1)
      [] Exponent(t, i) = 2 -> Power(Whole(10), t[i + 1].num)
      [] Exponent(t, i) = 3 -> Power(Whole(10), IF t[i + 1] = Char("-") THEN -t[i + 2].num ELSE t[i + 2].num)
Lexeme(kind, text, q) == [kind |-> kind, text |-> text, num |-> q]
RECURSIVE LexemesFrom(_, _)
LexemesFrom(t, i) ==
    IF i > Len(t) THEN <<>>
    ELSE IF t[i] = Space THEN LexemesFrom(t, i + 1)
    ELSE IF BeginsName(t[i]) THEN <<Lexeme("name", Spelled(SubSeq(t, i, NameEnd(t, i))), Zero)>> \o LexemesFrom(t, NameEnd(t, i) + 1)
    ELSE IF IsDigits(t[i])
    THEN LET e == i + NumberAt(t, i)
         IN  <<Lexeme("number", "", Times(Mantissa(t, i), Scale(t, e)))>> \o LexemesFrom(t, e + Exponent(t, e))
    ELSE <<Lexeme("char", t[i].text, Zero)>> \o LexemesFrom(t, i + 1)

\* a tree and the place after it; at = 0 where there is none
Reading(e, at) == [e |-> e, at |-> at]
Unread      == Reading(Num(0), 0)
Sees(s, i, texts) == i \in DOMAIN s /\ s[i].kind = "char" /\ s[i].text \in texts
RECURSIVE SumAt(_, _), ProductAt(_, _), FactorAt(_, _), PrimaryAt(_, _), ArgsAt(_, _, _)
RECURSIVE SumAfter(_, _), ProductAfter(_, _)
Joined(op, left, right) == IF left.at = 0 \/ right.at = 0 THEN Unread ELSE Reading(BinaryOp(op, left.e, right.e), right.at)
SumAfter(s, left) ==
    IF left.at # 0 /\ Sees(s, left.at, {"+", "-"}) THEN SumAfter(s, Joined(s[left.at].text, left, ProductAt(s, left.at + 1))) ELSE left
SumAt(s, i) == SumAfter(s, ProductAt(s, i))
ProductAfter(s, left) ==
    IF left.at # 0 /\ Sees(s, left.at, {"*", "/", "%"})
    THEN ProductAfter(s, Joined(IF s[left.at].text = "%" THEN "mod" ELSE s[left.at].text, left, FactorAt(s, left.at + 1)))
    ELSE left
ProductAt(s, i) == ProductAfter(s, FactorAt(s, i))
Negative(r) == IF r.at = 0 THEN r ELSE Reading(Neg(r.e), r.at)
PowerAfter(s, base) == IF base.at # 0 /\ Sees(s, base.at, {"^"}) THEN Joined("^", base, FactorAt(s, base.at + 1)) ELSE base
FactorAt(s, i) == IF Sees(s, i, {"-"}) THEN Negative(FactorAt(s, i + 1)) ELSE PowerAfter(s, PrimaryAt(s, i))
Closed(s, r) == IF r.at # 0 /\ Sees(s, r.at, {")"}) THEN Reading(r.e, r.at + 1) ELSE Unread
\* the arguments from i on, a call's children so far
MoreArgs(s, f, arg) ==
    IF arg.at = 0 THEN Unread
    ELSE IF Sees(s, arg.at, {","}) THEN ArgsAt(s, Append(f, arg.e), arg.at + 1)
    ELSE Closed(s, Reading(Append(f, arg.e), arg.at))
ArgsAt(s, f, i) == MoreArgs(s, f, SumAt(s, i))
Called(name, args) == IF args.at = 0 THEN Unread ELSE Reading(Call(name, args.e), args.at)
PrimaryAt(s, i) ==
    IF i \notin DOMAIN s THEN Unread
    ELSE IF s[i].kind = "number" THEN Reading(Number(s[i].num), i + 1)
    ELSE IF Sees(s, i, {"+"}) /\ i < Len(s) /\ s[i + 1].kind = "number" THEN Reading(Number(s[i + 1].num), i + 2)
    ELSE IF Sees(s, i, {"("}) THEN Closed(s, SumAt(s, i + 1))
    ELSE IF s[i].kind # "name" THEN Unread
    ELSE IF ~Sees(s, i + 1, {"("}) THEN Reading(Variable(s[i].text), i + 1)
    ELSE IF Sees(s, i + 2, {")"}) THEN Reading(Call(s[i].text, <<>>), i + 3)
    ELSE Called(s[i].text, ArgsAt(s, <<>>, i + 2))
Whole1(s, r) == IF r.at = Len(s) + 1 THEN Ok(r.e) ELSE ParseError
MathExpr(t)  == Whole1(LexemesFrom(t, 1), SumAt(LexemesFrom(t, 1), 1))
-----------------------------------------------------------------------------
RECURSIVE TreeDepth(_), Converted(_), ReplacePlaceholders(_, _)
TreeDepth(e) == 1 + Max({0} \cup {TreeDepth(e.kids[i]) : i \in DOMAIN e.kids})
\* complex(re, im) of two numbers, the second possibly negated, is a literal
TryComplexLiteral(args) ==
    IF IsNumber(args[1]) /\ IsNumber(args[2]) THEN Complex(args[1].num, args[2].num)
    ELSE IF IsNumber(args[1]) /\ args[2].kind = "neg" /\ IsNumber(args[2].kids[1])
    THEN Complex(args[1].num, Minus(Zero, args[2].kids[1].num))
    ELSE Call("complex", args)
ConvertedNode(e, kids) ==
    IF e.kind = "binary" /\ e.head = "mod" THEN Call("mod", kids)
    ELSE IF e.kind = "call" /\ e.head \in {"pi", "e"} /\ kids = <<>> THEN Variable(e.head)
    ELSE IF e.kind = "call" /\ e.head = "complex" /\ Len(kids) = 2 THEN TryComplexLiteral(kids)
    ELSE [e EXCEPT !.kids = kids]
Converted(e) == ConvertedNode(e, [i \in DOMAIN e.kids |-> Converted(e.kids[i])])
ConvertWithDepth(e) == IF TreeDepth(e) > MAX_AST_DEPTH THEN TooDeep ELSE Ok(Converted(e))

\* the node put back is not searched for placeholders again
ReplacePlaceholders(e, held) ==
    IF e.kind = "variable" THEN (IF e.head \in DOMAIN held THEN held[e.head] ELSE e)
    ELSE [e EXCEPT !.kids = [i \in DOMAIN e.kids |-> ReplacePlaceholders(e.kids[i], held)]]

\* what is left when every literal is a placeholder
ReadRewritten(t, held) ==
    IF Nesting(t) > MAX_AST_DEPTH THEN TooDeep
    ELSE AndThen(MathExpr(t), LAMBDA e : AndThen(ConvertWithDepth(e), LAMBDA ast : Ok(ReplacePlaceholders(ast, held))))
Rewritten(s) ==
    IF ConsecutiveOperators(s.text) THEN ParseError
    ELSE AndThen(PreprocessFactorial(PreprocessComplex(s.text)), LAMBDA t : ReadRewritten(InsertImplicitMultiplication(t), s.held))
Unbracketed(s) ==
    IF Cardinality(DOMAIN s.held) = 1 /\ Spelled(s.text) \in DOMAIN s.held THEN Ok(s.held[Spelled(s.text)])
    ELSE Rewritten(PreprocessBigint(s.text, s.held))
-----------------------------------------------------------------------------
\* Brackets hold texts that are parsed on their own; nested counts the
\* literals around them (LITERAL_PARSE_DEPTH).
RECURSIVE MatchingBracket(_, _, _)
MatchingBracket(t, i, depth) ==
    IF depth = 0 THEN i ELSE IF i > Len(t) THEN 0
    ELSE MatchingBracket(t, i + 1, depth + (IF t[i] = Char("[") THEN 1 ELSE IF t[i] = Char("]") THEN -1 ELSE 0))

\* the parts between separators that no bracket and no parenthesis encloses
SepAt(t, i, sep) == i + Len(sep) - 1 <= Len(t) /\ SubSeq(t, i, i + Len(sep) - 1) = sep
RECURSIVE SplitFrom(_, _, _, _, _, _)
SplitFrom(t, i, sep, part, square, round) ==
    IF i > Len(t) THEN <<part>>
    ELSE IF square = 0 /\ round = 0 /\ SepAt(t, i, sep) THEN <<part>> \o SplitFrom(t, i + Len(sep), sep, <<>>, 0, 0)
    ELSE SplitFrom(t, i + 1, sep, Append(part, t[i]),
                   square + (CASE t[i] = Char("[") -> 1 [] t[i] = Char("]") -> -1 [] OTHER -> 0),
                   round + (CASE t[i] = Char("(") -> 1 [] t[i] = Char(")") -> -1 [] OTHER -> 0))
SplitByPattern(t, sep) == SplitFrom(t, 1, sep, <<>>, 0, 0)

RECURSIVE ParseNested(_, _)
Elements(parts, nested) == AndThen(Collected([i \in DOMAIN parts |-> ParseNested(parts[i], nested)]), LAMBDA s : Ok(List(s)))
ParseListLiteral(t, nested) ==
    LET inner == Trimmed(SubSeq(t, 2, Len(t) - 1))
    IN  IF AtomAt(t, 1) # Char("[") \/ AtomAt(t, Len(t)) # Char("]") \/ Len(t) < 2 THEN ParseError
        ELSE IF inner = <<>> THEN Ok(List(<<>>)) ELSE Elements(SplitByPattern(inner, <<Char(",")>>), nested)
Rows(parts, nested) ==
    AndThen(Collected([i \in DOMAIN parts |-> ParseListLiteral(<<Char("[")>> \o Trimmed(parts[i]) \o <<Char("]")>>, nested)]),
            LAMBDA rows : Ok(Matrix([i \in DOMAIN rows |-> rows[i].kids])))
ParseMatrixLiteral(t, nested) ==
    IF ~SepAt(t, Len(t) - 1, <<Char("]"), Char("]")>>) THEN ParseError
    ELSE Rows(SplitByPattern(SubSeq(t, 3, Len(t) - 2), <<Char("]"), Char(","), Char("[")>>), nested)
ParseBracketLiteral(t, nested) ==
    IF nested + 1 > MAX_AST_DEPTH THEN TooDeep
    ELSE IF AtomAt(t, 2) = Char("[") THEN ParseMatrixLiteral(t, nested + 1) ELSE ParseListLiteral(t, nested + 1)

RECURSIVE PreprocessBrackets(_, _, _, _)
BracketFrom(t, i, after, s, nested) ==
    IF after = 0 THEN ParseError
    ELSE AndThen(ParseBracketLiteral(SubSeq(t, i, after - 1), nested),
                 LAMBDA node : PreprocessBrackets(t, after, Extracted(s, "cb", node), nested))
PreprocessBrackets(t, i, s, nested) ==
    IF i > Len(t) THEN Ok(s)
    ELSE IF t[i] = Char("[") THEN BracketFrom(t, i, MatchingBracket(t, i + 1, 1), s, nested)
    ELSE PreprocessBrackets(t, i + 1, Kept(s, t[i]), nested)

ParseNested(t, nested) ==
    IF Len(Spelled(t)) > MAX_EXPR_LEN \/ Trimmed(t) = <<>> THEN ParseError
    ELSE AndThen(PreprocessStrings(Trimmed(t), 1, Pass(<<>>, NothingHeld)), LAMBDA s :
         AndThen(PreprocessBrackets(s.text, 1, Pass(<<>>, s.held), nested), Unbracketed))
Parse(t) == ParseNested(t, 0)
-----------------------------------------------------------------------------
(***************************************************************************)
(* How a tree is written down by hand, and what a parser must make of it.  *)
(***************************************************************************)
\* tight: no spaces; juxtaposed: 2x and 3(x+1) for products
Styles == [tight : BOOLEAN, juxtaposed : BOOLEAN]

Level(e) ==
    CASE e.kind = "binary" -> (CASE e.head \in {"+", "-"} -> 1 [] e.head \in {"*", "/"} -> 2 [] e.head = "^" -> 4)
      [] e.kind = "neg"    -> 3
      [] e.kind = "complex" -> 1
      [] e.kind = "call" /\ e.head = "mod" -> 2
      [] OTHER -> 5
IsBang(e)     == e.kind = "call" /\ e.head = "factorial"
Round(t)      == <<Char("(")>> \o t \o <<Char(")")>>
Bracketed(t)     == <<Char("[")>> \o t \o <<Char("]")>>
Infix(l, sign, r, st) == l \o (IF st.tight THEN <<Char(sign)>> ELSE <<Space, Char(sign), Space>>) \o r
Decimal(q)    == IF IsInteger(q) THEN <<Digits(q[1])>> ELSE <<Digits(q[1] \div q[2]), Char("."), Digits((10 * (q[1] % q[2])) \div q[2])>>
Commas(texts) == FoldLeftDomain(LAMBDA t, i : (IF i = 1 THEN t ELSE t \o <<Char(",")>>) \o texts[i], <<>>, texts)
Quoted(text)  == <<Quote>> \o FoldLeft(LAMBDA t, a : t \o (IF a \in {Quote, Backslash} THEN <<Backslash, a>> ELSE <<a>>), <<>>, text) \o <<Quote>>
LettersOf(s)  == CASE s = "kg" -> <<Word("kg")>> [] s = "a,[b" -> <<Word("a"), Char(","), Char("["), Word("b")>>
                   [] s = "\"\\" -> <<Quote, Backslash>> [] OTHER -> <<>>

RECURSIVE Written(_, _)
Within(e, level, st) == IF Level(e) >= level THEN Written(e, st) ELSE Round(Written(e, st))
\* a number, times something that starts with a letter or a parenthesis
Juxtaposed(e) ==
    /\ IsNumber(e.kids[1])
    /\ \/ e.kids[2].kind = "variable"
       \/ Level(e.kids[2]) = 1
       \/ e.kids[2].kind = "binary" /\ e.kids[2].head = "^" /\ e.kids[2].kids[1].kind = "variable"
Unit(e) == Decimal(AbsOf(e.kids[2].num)) \o <<Word("i")>>
Written(e, st) ==
    CASE e.kind = "number"    -> Decimal(e.num)
      [] e.kind = "bignumber" -> Decimal(e.num)
      [] e.kind = "variable"  -> <<Word(e.head)>>
      [] e.kind = "str"       -> Quoted(LettersOf(e.head))
      [] e.kind = "complex"   -> IF e.kids[1].num = Zero THEN Unit(e)
                                 ELSE Infix(Decimal(e.kids[1].num), IF e.kids[2].num[1] < 0 THEN "-" ELSE "+", Unit(e), st)
      [] e.kind = "neg"       -> <<Char("-")>> \o Within(e.kids[1], 5, st)
      [] e.kind = "list"      -> Bracketed(Commas([i \in DOMAIN e.kids |-> Written(e.kids[i], st)]))
      [] e.kind \in {"matrix", "row"} -> Bracketed(Commas([i \in DOMAIN e.kids |-> Written(e.kids[i], [st EXCEPT !.tight = TRUE])]))
      [] IsBang(e)            -> Within(e.kids[1], 5, st) \o <<Char("!")>>
      [] e.kind = "call" /\ e.head = "mod" -> Infix(Within(e.kids[1], 2, st), "%", Within(e.kids[2], 4, st), st)
      [] e.kind = "call" /\ ~IsBang(e) /\ e.head # "mod" -> <<Word(e.head)>> \o Round(Commas([i \in DOMAIN e.kids |-> Written(e.kids[i], st)]))
      [] e.kind = "binary"    ->
            LET l == e.kids[1]  r == e.kids[2]
            IN  CASE e.head \in {"+", "-"} -> Infix(Within(l, 1, st), e.head, Within(r, 2, st), st)
                  [] e.head = "*" /\ st.juxtaposed /\ Juxtaposed(e) -> Decimal(l.num) \o Within(r, 4, st)
                  [] e.head \in {"*", "/"} /\ ~(st.juxtaposed /\ e.head = "*" /\ Juxtaposed(e)) ->
                        Infix(Within(l, 2, st), e.head, Within(r, 4, st), st)
                  [] e.head = "^" -> Infix(Within(l, 5, st), "^", Within(r, 4, st), st)

\* What is written down is what is read, and no bracket is one too many.
WrittenRight(e, r) == r.ok /\ r.is = e
-----------------------------------------------------------------------------
\* The numbers and names of a text and of a tree, in order.
RECURSIVE InkOf(_), LeavesOf(_)
InkOf(s) == IF s = <<>> THEN <<>> ELSE (IF Head(s).kind = "char" THEN <<>> ELSE <<Head(s)>>) \o InkOf(Tail(s))
Joins(seqs) == FoldLeft(LAMBDA t, u : t \o u, <<>>, seqs)
LeavesOf(e) ==
    CASE e.kind = "number"   -> <<Lexeme("number", "", e.num)>>
      [] e.kind = "variable" -> <<Lexeme("name", e.head, Zero)>>
      [] e.kind = "complex"  -> (IF e.kids[1].num = Zero THEN <<>> ELSE LeavesOf(e.kids[1])) \o LeavesOf(Number(AbsOf(e.kids[2].num)))
                                \o <<Lexeme("name", "i", Zero)>>
      [] OTHER -> (IF e.kind = "call" /\ e.head \notin {"factorial", "mod"} THEN <<Lexeme("name", e.head, Zero)>> ELSE <<>>)
                  \o Joins([i \in DOMAIN e.kids |-> LeavesOf(e.kids[i])])
CountOf(t, text) == Cardinality({i \in DOMAIN t : t[i] = Char(text)})
RECURSIVE BangsIn(_)
BangsIn(e) == (IF IsBang(e) THEN 1 ELSE 0) + FoldLeft(+, 0, [i \in DOMAIN e.kids |-> BangsIn(e.kids[i])])

\* A placeholder becomes part of the name it touches, and an i after a number
\* is taken out of the name around it: such texts are left out.
Glued(t) ==
    \E i \in 1 .. Len(t) - 1 :
        \/ t[i] = Char("]") /\ (InOperand(t[i + 1]) \/ t[i + 1] \in {Char("("), Char("[")})
        \/ IsWord(t[i]) /\ t[i + 1] = Char("[")
        \/ BeginsName(t[i]) /\ UnitAfter(t, i + 1) # 0
        \/ UnitAfter(t, i) # 0 /\ InOperand(AtomAt(t, UnitAfter(t, i) + 1))

\* A text that is accepted has every number and name of it in the tree, in
\* their order, every ! and matching brackets; a text nested too deeply is
\* refused for that.
AnyTextRight(t, r) ==
    /\ r.ok /\ ~Glued(t) =>
        /\ LeavesOf(r.is) = InkOf(LexemesFrom(t, 1))
        /\ BangsIn(r.is) = CountOf(t, "!")
        /\ CountOf(t, "(") = CountOf(t, ")") /\ CountOf(t, "[") = CountOf(t, "]")
        /\ TreeDepth(r.is) <= 2 * MAX_AST_DEPTH
    /\ Nesting(t) > MAX_AST_DEPTH => ~r.ok
=============================================================================
