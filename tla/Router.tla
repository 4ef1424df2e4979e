------------------------------- MODULE Router -------------------------------
(***************************************************************************)
(* The domain router (core/domain.rs), the default registration            *)
(* (domains/factory.rs) and what each domain's supports() claims.          *)
(*                                                                         *)
(* Every supports() is a recursive search for a node; three of the         *)
(* searches do not look into lists or matrices.  The feature numerical     *)
(* is compiled in.                                                         *)
(***************************************************************************)
EXTENDS Ast

CONSTANT Features     \* the optional domains compiled in: time, unit, fx

ASSUME FeaturesAssumption == Features \subseteq {"time", "unit", "fx"}

CoreDomains == <<"precision", "complex", "matrix", "vector", "symbolic", "polynomial",
                 "number_theory", "combinatorics", "scientific", "statistics",
                 "arithmetic">>
OptionalDomains == SelectSeq(<<"time", "unit", "fx">>, LAMBDA d : d \in Features)
Registration    == CoreDomains \o OptionalDomains
Domains         == {Registration[i] : i \in DOMAIN Registration}

Priority(d) ==
    CASE d \in {"complex", "matrix", "vector", "symbolic", "time", "unit", "fx"} -> 30
      [] d \in {"precision", "polynomial", "number_theory", "combinatorics"}     -> 25
      [] d \in {"scientific", "statistics"}                                      -> 20
      [] d = "arithmetic"                                                        -> 10

ARITHMETIC_FUNCTIONS    == {"factorial", "mod", "abs"}
SCIENTIFIC_FUNCTIONS    == {"sin", "cos", "tan", "asin", "acos", "atan", "ln", "log10", "log2", "log", "exp", "sinh", "cosh", "tanh",
                            "gamma", "erf", "erfc", "lgamma", "polylog", "besselj", "bessely", "besseli", "besselk", "beta", "zeta",
                            "airy_ai", "airy_bi", "root", "integral"}
COMPLEX_FUNCTIONS       == {"complex", "conj", "arg"}
MATRIX_FUNCTIONS        == {"det", "transpose", "inverse", "identity", "lu", "qr", "eig", "eig_general", "svd", "solve"}
VECTOR_FUNCTIONS        == {"dot", "cross", "norm", "angle", "normalize", "scalar_triple", "cosine_similarity", "project", "reflect",
                            "euclidean", "manhattan", "outer", "lerp"}
SYMBOLIC_FUNCTIONS      == {"diff", "integrate", "simplify", "limit", "taylor"}
POLYNOMIAL_FUNCTIONS    == {"poly_add", "poly_sub", "poly_mul", "poly_div", "poly_eval", "poly_diff", "poly_integrate", "roots", "factor"}
NUMBER_THEORY_FUNCTIONS == {"gcd", "lcm", "is_prime", "prime_sieve", "mod_inverse", "mod_pow", "euler_phi"}
COMBINATORICS_FUNCTIONS == {"P", "C", "catalan", "stirling"}
STATISTICS_FUNCTIONS    == {"mean", "variance", "std", "median", "min", "max", "sum", "count", "norm_pdf", "norm_cdf", "norm_inv", "t_pdf",
                            "t_cdf", "t_inv", "chi2_pdf", "chi2_cdf", "chi2_inv", "f_pdf", "f_cdf", "f_inv", "poisson_pmf", "poisson_cdf",
                            "binom_pmf", "binom_cdf", "t_test_one", "t_test_two", "chi2_test", "pearson", "spearman"}
TIME_FUNCTIONS          == {"date", "datetime", "timestamp", "from_timestamp", "date_diff", "date_add", "parse_date", "format_date",
                            "reformat_date", "weekday", "day_of_year", "is_leap_year", "now", "today"}
UNIT_FUNCTIONS          == {"convert", "mod", "abs"}
FX_FUNCTIONS            == {"fx", "fx_rate"}
OTHER_DOMAIN_FUNCTIONS  == NUMBER_THEORY_FUNCTIONS \cup COMBINATORICS_FUNCTIONS

\* A search through the nodes of e outside those of the kinds in opaque.
Calls(names, e, opaque) == \E n \in NodesOutside(e, opaque) : n.kind = "call" /\ n.head \in names
Holds(kind, e)          == \E n \in NodesOutside(e, {}) : n.kind = kind

\* precision leaves expressions with these functions to their domains
ContainsOtherDomainFunction(e) == Calls(OTHER_DOMAIN_FUNCTIONS, e, {})
ContainsPrecision(e)     == Holds("bignumber", e) \/ Calls({"precision"}, e, {})
ContainsComplex(e)       == Holds("complex", e) \/ Calls(COMPLEX_FUNCTIONS, e, {})
ContainsMatrix(e)        == Holds("matrix", e) \/ Calls(MATRIX_FUNCTIONS, e, {})
ContainsVectorFunction(e) == Calls(VECTOR_FUNCTIONS, e, {})
ContainsVectorArithmetic(e) ==
    \E n \in NodesOutside(e, {}) :
        /\ n.kind = "binary" /\ n.head \in {"+", "-", "*"}
        /\ IsList(n.kids[1]) \/ IsList(n.kids[2])
ContainsSymbolicFunction(e)     == Calls(SYMBOLIC_FUNCTIONS, e, {"list", "matrix"})
ContainsPolynomialFunction(e)   == Calls(POLYNOMIAL_FUNCTIONS, e, {})
ContainsNumberTheoryFunction(e) == Calls(NUMBER_THEORY_FUNCTIONS, e, {})
ContainsCombinatoricsFunction(e) == Calls(COMBINATORICS_FUNCTIONS, e, {})
ContainsScientific(e) ==
    \/ Calls(SCIENTIFIC_FUNCTIONS, e, {})
    \/ \E n \in NodesOutside(e, {}) : n.kind = "variable" /\ n.head \in {"pi", "e"}
ContainsStatisticsFunction(e) == Calls(STATISTICS_FUNCTIONS, e, {"matrix"})
ContainsTimeFunction(e)       == Calls(TIME_FUNCTIONS, e, {"list", "matrix"})
ContainsUnitFunction(e)       == Calls(UNIT_FUNCTIONS, e, {})
ContainsFxFunction(e)         == Calls(FX_FUNCTIONS, e, {})
IsArithmeticOnly(e) ==
    \A n \in NodesOutside(e, {}) :
        \/ n.kind \in {"number", "variable", "binary", "neg"}
        \/ n.kind = "call" /\ n.head \in ARITHMETIC_FUNCTIONS

Supports(d, e) ==
    CASE d = "precision"     -> ContainsPrecision(e) /\ ~ContainsOtherDomainFunction(e)
      [] d = "complex"       -> ContainsComplex(e)
      [] d = "matrix"        -> ContainsMatrix(e)
      [] d = "vector"        -> ContainsVectorFunction(e) \/ ContainsVectorArithmetic(e)
      [] d = "symbolic"      -> ContainsSymbolicFunction(e)
      [] d = "polynomial"    -> ContainsPolynomialFunction(e)
      [] d = "number_theory" -> ContainsNumberTheoryFunction(e)
      [] d = "combinatorics" -> ContainsCombinatoricsFunction(e)
      [] d = "scientific"    -> ContainsScientific(e)
      [] d = "statistics"    -> ContainsStatisticsFunction(e)
      [] d = "arithmetic"    -> IsArithmeticOnly(e)
      [] d = "time"          -> ContainsTimeFunction(e)
      [] d = "unit"          -> ContainsUnitFunction(e)
      [] d = "fx"            -> ContainsFxFunction(e)

\* register sorts stably by descending priority.
RegisteredAt(d) == CHOOSE i \in DOMAIN Registration : Registration[i] = d
Precedes(c, d)  == \/ Priority(c) > Priority(d)
                   \/ Priority(c) = Priority(d) /\ RegisteredAt(c) < RegisteredAt(d)

\* route: the first registered domain that supports e; "none" when no domain does.
Supporters(e) == {d \in Domains : Supports(d, e)}
Route(e) == IF Supporters(e) = {} THEN "none"
            ELSE CHOOSE d \in Supporters(e) : \A c \in Supporters(e) \ {d} : Precedes(d, c)

\* is_nondeterministic
Nondeterministic == (IF "fx" \in Features THEN {"fx", "fx_rate"} ELSE {})
                    \cup (IF "time" \in Features THEN {"now", "today"} ELSE {})
\* mutant: only the outermost call is looked at
IsNondeterministicAtRoot(e) == e.kind = "call" /\ e.head \in Nondeterministic
\* collect_function_names does not descend into lists and matrices.
IsNondeterministic(e) == FunctionsOf(e, {"list", "matrix"}) \cap Nondeterministic # {}
=============================================================================
