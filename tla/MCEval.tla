------------------------------- MODULE MCEval -------------------------------
(***************************************************************************)
(* Instances of EvalPipeline.  Expressions stand for: sum and mus, two     *)
(* spellings of one sum; now, which reads the clock; zero, a constant      *)
(* division by zero; gap, which evaluates to a domain error; wide, whose   *)
(* result is above the admission threshold; text, a syntax error; odd,     *)
(* which no domain supports; ab and ba, two products of matrices that the  *)
(* canonicalizer gives one canonical string.                               *)
(***************************************************************************)
EXTENDS EvalPipeline, TLC

MCExprs    == {"sum", "mus", "now", "zero", "gap", "wide", "text", "odd", "ab", "ba"}
MCParsable == MCExprs \ {"text"}
MCFoldable == MCParsable \ {"zero"}
MCRoutable == MCFoldable \ {"odd"}
MCFormOf   == [e \in MCExprs |-> CASE e \in {"sum", "mus"} -> "sum"
                                   [] e \in {"ab", "ba"} -> "ab"
                                   [] OTHER -> e]
MCForms    == {MCFormOf[e] : e \in MCExprs}
MCVars     == {"u", "v"}
MCTimeouts == {0, 1}
MCModes    == {"regular", "precision"}

\* The regular mode evaluates everything but gap; the precision domain
\* supports sums only.  Only sums have variables.
MCOutcome(e, m, v, w) ==
    CASE e \in {"sum", "mus"} -> [tag |-> "ok", val |-> <<m, "sum", v, 0>>]
      [] m = "regular" /\ e = "now" -> [tag |-> "ok", val |-> <<m, "now", "u", w>>]
      [] m = "regular" /\ e \in {"wide", "ab", "ba"} -> [tag |-> "ok", val |-> <<m, e, "u", 0>>]
      [] OTHER -> [tag |-> "err", val |-> "domain"]
MCMeaning  == [e \in MCExprs |-> [m \in MCModes |-> [v \in MCVars |->
                  [w \in 0 .. MaxWorld |-> MCOutcome(e, m, v, w)]]]]
MCValues   == MCModes \X MCExprs \X MCVars \X (0 .. MaxWorld)
MCOversize == {<<"regular", "wide", "u", 0>>}

Ask(e, t, p)  == [expr |-> e, vars |-> "v", timeout |-> t, precision |-> p]
Regular(es)   == {Ask(e, 1, "none") : e \in es}

\* Every way through the pipeline, for two calls.
AllPaths == Regular(MCExprs \ {"mus", "ab", "ba"})
                \cup {Ask("sum", 1, "within"), Ask("now", 1, "within"),
                      Ask("sum", 0, "none"), Ask("sum", 1, "above"),
                      [Ask("sum", 1, "none") EXCEPT !.vars = "u"]}
\* The paths through the cache, for three calls; ab and ba have one key and
\* different values.
Crowd    == Regular({"ab", "ba", "gap", "now"})

\* Calls are interchangeable (used where no liveness is checked).
CallSymmetry == Permutations(Calls)

\* Expressions with one canonical string mean the same, but for Crowd.
ASSUME Requests # Crowd =>
    \A q, r \in Requests : FormOf[q.expr] = FormOf[r.expr] => Meaning[q.expr] = Meaning[r.expr]
=============================================================================
