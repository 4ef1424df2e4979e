------------------------------ MODULE MCSession ------------------------------
(* Instances of the session: which expressions are asked for. *)
EXTENDS EvalSession, TLC

MCNameOrder == <<"x", "y">>
MCEnv       == ("x" :> <<3, 1>>) @@ ("y" :> <<-2, 1>>)

X == Variable("x")
Y == Variable("y")

(* Every arithmetic tree over 0, 1, 2, x and y with one operator, and every  *)
(* one of those combined with a leaf or negated once more.                   *)
Leaves  == {Num(0), Num(1), Num(2), X, Y}
Pairs(s, ops, t) == {BinaryOp(op, l, r) : op \in ops, l \in s, r \in t}
Small   == Leaves \cup {Neg(e) : e \in Leaves}
           \cup Pairs(Leaves, {"+", "-", "*", "/", "^"}, Leaves)
Scalars == Small \cup {Neg(e) : e \in Small}
           \cup Pairs(Small, {"+", "-", "*", "/", "^"}, Leaves)
           \cup Pairs(Leaves, {"+", "-", "*", "/"}, Small)
           \cup {ModCall(l, r) : l \in Small, r \in {Num(2), X}}
           \cup {AbsCall(e) : e \in Small}

(* Expressions of several domains, with the clock and the rates in every     *)
(* place an expression can have them.                                        *)
Rate    == Call("fx", <<Num(2)>>)
Now     == Call("now", <<>>)
Sum(l)  == Call("sum", <<List(l)>>)
Mean(l) == Call("mean", <<List(l)>>)
Mixed == {Rate, Now, Num(2), BinaryOp("+", Rate, X), BinaryOp("-", Now, Now), Neg(Now),
          BinaryOp("*", Num(2), Rate), BinaryOp("+", Now, Rate), BinaryOp("/", Num(1), Num(0)),
          Sum(<<Rate, Num(1)>>), Sum(<<Now, Num(1)>>), Mean(<<Num(2), X>>), Mean(<<X, Num(2)>>),
          BinaryOp("+", Mean(<<Num(2), X>>), Rate), BinaryOp("+", Sum(<<X>>), Sum(<<Y>>)),
          BinaryOp("+", Sum(<<Y>>), Sum(<<X>>)), BinaryOp("*", List(<<Num(1), Rate>>), Num(2)),
          BinaryOp("*", List(<<Num(1), X>>), Num(2)), BinaryOp("*", Num(2), List(<<Num(1), X>>)),
          BinaryOp("+", List(<<Num(1), Now>>), List(<<Num(1), X>>)),
          Matrix(<<<<Rate, Num(1)>>, <<Num(0), Num(1)>>>>), Matrix(<<<<Now>>>>),
          Matrix(<<<<Num(1), BinaryOp("+", Num(1), X)>>>>),
          BinaryOp("+", Num(1), BinaryOp("+", X, Y)), BinaryOp("+", BinaryOp("+", Y, Num(1)), X),
          BigNumber(9), BinaryOp("*", BigNumber(9), X), Call("precision", <<Num(5), BinaryOp("/", Num(1), Num(2))>>),
          BinaryOp("/", Num(1), Num(2)), Call("conj", <<X>>), Complex(<<1, 1>>, <<2, 1>>),
          ModCall(X, Num(2)), AbsCall(Y), Call("unknown", <<Now>>), Call("unknown", <<X>>)}

(* Expressions that look alike in their keys.  The big number is one that an *)
(* f64 can hold too, as 10^16.                                               *)
Convert(from, to) == Call("convert", <<Num(2), from, to>>)
MCBroken   == ("m) (str km" :> <<"m", "km">>)
Four       == BinaryOp("^", Num(2), Num(2))
Sixteen    == BinaryOp("^", Num(4), Num(2))
LookAlikes == {Sixteen, BigNumber(16), BinaryOp("*", Sixteen, X), BinaryOp("*", BigNumber(16), X),
               BinaryOp("*", X, BigNumber(16)), Four, Num(4), Sum(<<Sixteen>>), Sum(<<BigNumber(16)>>),
               BinaryOp("+", BigNumber(16), BigNumber(9)), BinaryOp("+", BigNumber(9), Sixteen),
               Convert(Str("m"), Str("km")), Convert(Str("km"), Str("m")), Call("convert", <<Num(2), Str("m) (str km")>>),
               Convert(Call("str", <<Variable("m")>>), Call("str", <<Variable("km")>>)),
               Call("mean", <<Call("list", <<Num(2), X>>)>>), Call("complex", <<Num(1), Num(2)>>)}

OnlyOnce == (Scalars \cup LookAlikes) \ Mixed

(* Two matrix products that differ in the order of their factors.            *)
Shear    == Matrix(<<<<Num(1), Num(1)>>, <<Num(0), Num(1)>>>>)
Swap     == Matrix(<<<<Num(0), Num(1)>>, <<Num(1), Num(0)>>>>)
Products == {BinaryOp("*", Shear, Swap), BinaryOp("*", Swap, Shear), Shear, Swap}
            \cup {BinaryOp("+", Num(i), X) : i \in 0 .. 40}

(* The rate and a big number with % and abs around them.                     *)
Wrapped == {Rate, Neg(Rate), ModCall(Rate, Num(2)), AbsCall(Neg(Rate)), BigNumber(9), ModCall(BigNumber(9), Num(2)),
            AbsCall(BigNumber(9)), ModCall(X, Num(2))}
           \cup {BinaryOp("+", Num(i), X) : i \in 0 .. 40}
=============================================================================
