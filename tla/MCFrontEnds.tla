---------------------------- MODULE MCFrontEnds ----------------------------
(***************************************************************************)
(* Instances of FrontEnds.  Expressions: x, the variable, whose value is   *)
(* the binding; vec, a list; typo, a syntax error; fold, 1/0; rate, which  *)
(* finds no upstream.                                                      *)
(***************************************************************************)
EXTENDS FrontEnds, TLC

MCExprs    == {"x", "vec", "typo", "fold", "rate"}
MCParsable == MCExprs \ {"typo"}
MCFoldable == MCParsable \ {"fold"}
MCVars     == {"none", "one"}
MCTimeouts == {1, 4, 50}
MCValues   == {"one", "[1]"}
MCMeaning  ==
    [e \in MCExprs |-> [m \in Modes |-> [v \in MCVars |-> [w \in Worlds |->
        CASE e = "x" /\ v = "one" -> Ok("one")
          [] e = "vec" /\ m = "regular" -> Ok("[1]")
          [] e = "rate" -> Err("unavailable")
          [] OTHER -> Err("domain")]]]]
MCFormOf   == [e \in MCExprs |-> e]
MCBinding  == [s \in {"one"} |-> "one"]
MCRequests == AllRequests

Text(e)  == [kind |-> "expr", expr |-> e]
Blank    == [kind |-> "blank", expr |-> "x"]
Plain(m) == [mode |-> m, timeout |-> <<>>, envTimeout |-> <<>>, cache |-> <<>>, envCache |-> <<>>,
             varsGood |-> TRUE, vars |-> "none", precision |-> "none", steps |-> FALSE, latex |-> FALSE,
             from |-> "text", lines |-> <<>>]
With(m, lines) == [Plain(m) EXCEPT !.lines = lines, !.vars = "one"]

Settings ==
    {[Plain("list") EXCEPT !.timeout = t, !.envTimeout = e, !.cache = c, !.envCache = d] :
        t \in {<<>>, <<0>>, <<1>>}, e \in {<<>>, <<0>>, <<4>>}, c \in {<<>>, <<0>>}, d \in {<<>>, <<0>>, <<1>>}}
Singles ==
    {[With("value", <<Text(e)>>) EXCEPT !.precision = p] : e \in MCExprs, p \in PrecisionArgs}
    \cup {With("canonical", <<Text(e)>>) : e \in MCExprs}
    \cup {[With("show", <<Text(e)>>) EXCEPT !.steps = s, !.latex = l] : e \in MCExprs, s \in BOOLEAN, l \in BOOLEAN}
    \cup {Plain("value"), [Plain("value") EXCEPT !.from = "terminal"], [With("value", <<Text("x")>>) EXCEPT !.timeout = <<1>>]}
    \cup {[Plain(m) EXCEPT !.varsGood = FALSE] : m \in {"repl", "batch", "value"}} \cup {Plain("server")}
Batches ==
    {With("batch", <<Blank>> \o ls) : ls \in {<<Text(a), Text(b), Text(c)>> : a, b, c \in {"x", "vec", "rate", "typo"}}
        \cup {<<>>, <<Text("x"), Blank, Text("rate")>>, <<[kind |-> "long", expr |-> "x"], Text("x")>>,
              <<Text("x"), Text("x"), Text("x"), Text("x")>>}}
    \cup {[With("batch", <<Text("x")>>) EXCEPT !.from = "unreadable"]}
MCInvocations ==
    Settings \cup Singles \cup Batches \cup {[Plain("repl") EXCEPT !.precision = p] : p \in {"none", "within"}}

Line(d, e, v) == [do |-> d, expr |-> e, vars |-> v]
MCLines == {Line("eval", e, "none") : e \in {"x", "vec", "typo"}}
           \cup {Line("let", e, "none") : e \in {"x", "vec", "typo"}}
           \cup {Line("set", "x", v) : v \in MCVars}
=============================================================================
