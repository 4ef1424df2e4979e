------------------------------ MODULE MCLibrary ------------------------------
(* The questions asked of the library. *)
EXTENDS Library

SmallInts == -6 .. 6
Triples(s) == {<<r, m>> : r \in {<<a>> : a \in s} \cup {<<a, b>> : a, b \in s}, m \in {<<4>>, <<-4>>, <<3, 5>>, <<4, 6>>, <<6, 4>>, <<0, 2>>, <<1, 7>>}}
              \cup {<<<<a, b, c>>, m>> : a, b, c \in 0 .. 3, m \in {<<2, 3, 5>>, <<4, 6, 9>>}}
MCIntegerFns == {"gcd", "lcm", "is_prime", "prime_sieve", "mod_pow", "mod_inverse", "euler_phi", "crt",
                 "discrete_log", "perm", "comb", "catalan", "stirling_first", "stirling_second"}
MCIntegerArgs(fn) ==
    CASE fn \in {"gcd", "lcm"}      -> {<<a, b>> : a \in SmallInts, b \in -13 .. 13}
      [] fn = "mod_inverse"         -> {<<a, b>> : a \in -9 .. 9, b \in -9 .. 9}
      [] fn = "is_prime"            -> {<<n>> : n \in -2 .. 130 \cup {561, 1105, 2047, 1373 * 3, 3277, 4033, 7919, 46339}}
      [] fn = "prime_sieve"         -> {<<n>> : n \in -1 .. 40}
      [] fn = "euler_phi"           -> {<<n>> : n \in -12 .. 130}
      [] fn = "mod_pow"             -> {<<b, e, m>> : b \in -4 .. 7, e \in -1 .. 6, m \in -3 .. 7}
      [] fn = "crt"                 -> Triples(-3 .. 6)
      [] fn = "discrete_log"        -> {<<g, h, p>> : g \in -2 .. 8, h \in 0 .. 10, p \in {0, 2, 3, 6, 7, 11, 13}}
                                       \cup {<<g, h, 293>> : g \in {2, 3}, h \in {1, 2, 5, 150}}
      [] fn = "perm"                -> {<<n, k>> : n \in 0 .. 5, k \in 0 .. 6}
      [] fn = "comb"                -> {<<n, k>> : n \in 0 .. 9, k \in 0 .. 9}
      [] fn = "catalan"             -> {<<n>> : n \in 0 .. 6}
      [] fn \in {"stirling_first", "stirling_second"} -> {<<n, k>> : n \in 0 .. 4, k \in 0 .. 4}

MCVars == [x |-> <<3, 1>>, h |-> <<1, 2>>]
IntLeaves == {Num(0), Num(2), Num(-3), Num(7), Number(<<1, 2>>), BigNumber(150), Variable("x"), Variable("h"), Variable("z")}
IntPairs == {BinaryOp(op, l, r) : op \in BinaryOps, l \in IntLeaves, r \in {Num(0), Num(-3), Variable("x")}} \cup {Neg(l) : l \in IntLeaves}
MCIntegerExprs ==
   {Call(f, <<a, b>>) : f \in {"gcd", "lcm", "mod_inverse"}, a \in IntLeaves \cup IntPairs, b \in {Num(5), Variable("x"), BigNumber(150)}}
   \cup {Call(f, <<a, b>>) : f \in {"P", "C", "stirling"}, a \in {Num(6), Num(-3), Number(<<1, 2>>), Variable("x"), BinaryOp("+", Variable("x"), Num(2)), Call("C", <<Num(3), Num(2)>>)},
                              b \in {Num(0), Num(2), Num(5), Neg(Num(2)), Variable("h")}}
   \cup {Call("gcd", <<Call("lcm", <<a, Num(4)>>), b>>) : a, b \in IntLeaves}
   \cup {BinaryOp(op, Call("gcd", <<a, Num(100)>>), b) : op \in {"+", "*", "^", "/"}, a \in IntLeaves, b \in {Num(2), Num(99)}}
   \cup {Call("is_prime", <<a>>) : a \in IntLeaves \cup IntPairs}
   \cup {Call("prime_sieve", <<a>>) : a \in IntLeaves \cup {BinaryOp("+", Variable("x"), Num(35)), Num(39)}}
   (* results of calls that are not f64s (105 and 123), or beyond an i64 (205) *)
   \cup {Call(f, <<Call("lcm", <<Num(m), a>>), b>>) : f \in {"gcd", "lcm"}, m \in {35, 41}, a \in {Num(2), Num(5), Variable("x")}, b \in {Num(5), BigNumber(150)}}
   \cup {BinaryOp("-", Call("lcm", <<Num(m), Num(3)>>), Num(100)) : m \in {35, 20, 41}}

Few == {Zero, Whole(1), Whole(-40), <<5, 2>>, Whole(100)}
MCUnitQuestions == {<<q, f, t>> : q \in Few, f, t \in {"m", "in", "km", "kg", "g", "L", "m/s", "km/h", "KiB", "KB", "day", "min", "C", "F", "K", "R", "furlong"}}
Words(n) == UNION {[1 .. l -> {"a", "b"}] : l \in 0 .. n}
MCEditQuestions == {<<a, b>> : a \in Words(3), b \in Words(3) \cup {<<"c", "a", "b">>, <<"c", "c">>}}
MCQuotes == [base |-> "EUR", rates |-> [USD |-> <<5, 4>>, CNY |-> <<15, 2>>, JPY |-> <<160, 1>>]]
MCTables == {{}, {MCQuotes}, {[base |-> "USD", rates |-> [EUR |-> <<4, 5>>, CNY |-> <<7, 1>>]]}, {[base |-> "EUR", rates |-> [USD |-> <<5, 4>>]]}}
MCCurrencyQuestions == {<<q, f, t>> : q \in Few, f, t \in {"EUR", "USD", "CNY", "JPY", "usd", "XXX"}}
Conv(e, f, t) == Call("convert", <<e, Str(f), Str(t)>>)
Fx(e, f, t) == Call("fx", <<e, Str(f), Str(t)>>)
FxLeaves == {Num(0), Num(7), Number(<<5, 2>>), Variable("x"), Variable("z"), BigNumber(90)}
FxOnce == {Fx(e, f, t) : e \in FxLeaves, f \in {"EUR", "USD", "usd"}, t \in {"CNY", "EUR"}} \cup {Call("fx_rate", <<Str("JPY"), Str("USD")>>), Call("fx", <<Num(1), Variable("x"), Str("EUR")>>), Call("fx", <<Num(1), Str("EUR")>>)}
UnitOnce == {Conv(e, f, t) : e \in FxLeaves, f \in {"C", "F", "furlong"}, t \in {"K", "F", "m"}} \cup {Conv(e, "m", "in") : e \in FxLeaves}
Around(once) == once \cup {Neg(e) : e \in once} \cup {AbsCall(Neg(e)) : e \in once} \cup {ModCall(e, Num(3)) : e \in once}
  \cup {BinaryOp(op, e, l) : op \in {"+", "-", "*", "/"}, e \in once, l \in {Num(0), Num(3), Variable("x")}} \cup {BinaryOp("^", e, Num(n)) : e \in once \cap FxOnce, n \in {-1, 2}}
MCFxExprs == Around(FxOnce) \cup {Fx(e, "CNY", "JPY") : e \in Around(FxOnce)} \cup {BinaryOp("+", Conv(Num(1), "C", "F"), Num(1))}
MCUnitExprs == Around(UnitOnce) \cup {Conv(e, "K", "C") : e \in Around(UnitOnce)} \cup {Conv(e, "in", "km") : e \in UnitOnce}
               \cup {BinaryOp("+", Fx(Num(1), "EUR", "USD"), Num(1))}
MCCurrencyCodes == {"EUR", "USD", "CNY", "JPY", "usd", "XXX"}
MCBudgetRequests == [tuition : {Zero, Whole(1000), <<2501, 2>>}, years : {0, 1, 3, 10, 11}, currency : {"USD", "EUR", "XXX", "EURO"}, home : {"CNY", "EUR", "usd"},
   living : {Missing, Zero, Whole(-1), Whole(50)}]
MCPricingRequests == [cost : {Zero, Whole(100), <<33, 4>>}, profit : {Zero, <<3, 10>>, <<1, 8>>, Whole(1)}, platform : {Whole(-1), Zero, <<3, 20>>, Whole(1)}, buffer : {Zero, <<1, 20>>, <<1, 2>>, <<3, 5>>},
   currencies : {<<>>, <<"USD">>, <<"EUR", "CNY">>, <<"XXX", "USD">>, <<"EURO">>, [i \in 1 .. 11 |-> "USD"]}]

At1972(month, day, h, m) == DaysOf(1972, month, day) * Day + h * Hour + m * 60
MCSpring == At1972(3, 12, 7, 0)
MCFall   == At1972(11, 5, 6, 0)
MCZones  == [name \in {"UTC", "Asia/Shanghai", "America/New_York"} |->
               CASE name = "UTC" -> UTC [] name = "Asia/Shanghai" -> Fixed(8 * Hour) [] OTHER -> City]
Says(format, local) == Text(format :> local, 0, UTC)
MCTexts ==
    [name \in {"jan31", "feb29", "newyear", "dmy", "noon", "skipped", "twice", "zulu", "offset", "zoned", "zoned31",
               "chinese", "chinesetime", "seconds", "bad"} |->
       CASE name = "jan31"   -> Says("%Y-%m-%d", At1972(1, 31, 0, 0))
         [] name = "feb29"   -> Says("%d %b %Y", At1972(2, 29, 0, 0))
         [] name = "newyear" -> Says("%Y/%m/%d", At1972(1, 0, 0, 0))
         [] name = "dmy"     -> [Says("%d/%m/%Y", At1972(7, 4, 0, 0)) EXCEPT !.ambiguous = TRUE]
         [] name = "noon"    -> Says("%Y-%m-%dT%H:%M:%S", At1972(3, 11, 12, 0))
         [] name = "skipped" -> Says("%Y/%m/%d %H:%M", At1972(3, 12, 2, 30))
         [] name = "twice"   -> Says("%Y-%m-%d %H:%M", At1972(11, 5, 1, 30))
         [] name = "zulu"    -> Says(ZuluFormat, At1972(10, 31, 23, 30))
         [] name = "offset"  -> Text(OffsetFormat :> At1972(12, 31, 18, 0), 8 * Hour, Fixed(8 * Hour))
         [] name = "zoned"   -> Text(ZoneFormat :> At1972(3, 11, 2, 30), -5 * Hour, City)
         [] name = "zoned31" -> Text(ZoneFormat :> At1972(10, 31, 12, 0), -4 * Hour, City)
         [] name = "chinese" -> [Says("%Y year %m month %d day", At1972(7, 25, 0, 0)) EXCEPT !.chinese = TRUE]
         [] name = "chinesetime" -> [Says("%Y year %m month %d day %H:%M", At1972(7, 25, 8, 15)) EXCEPT !.chinese = TRUE]
         [] name = "seconds" -> Says("%s", At1972(1, 15, 6, 0))
         [] OTHER            -> Says("%H", 0)]
MCDays == {c + d : c \in {0, 10957, -719468, -719162, -25508, 146097 * 3, 47482}, d \in -70 .. 70}
Dates == {Str(t) : t \in DOMAIN MCTexts}
DateTimes == {Call("datetime", <<d, Str(z)>>) : d \in Dates, z \in DOMAIN MCZones}
Instants == {Num(0), Num(86399), Num(MCFall), Number(<<3, 2>>), Variable("z"), Neg(Num(1)), BinaryOp("+", Num(MCSpring), Num(1))}
FromSeconds == {Call("from_timestamp", <<n, Str(z)>>) : n \in Instants \cup {Num(2000000000)}, z \in {"UTC", "America/New_York", "Mars"}}
Dated == Dates \cup DateTimes \cup {Call("from_timestamp", <<Num(MCSpring), Str(z)>>) : z \in DOMAIN MCZones} \cup {Num(MCFall)}
SomeDates == {Str(t) : t \in {"jan31", "skipped", "twice", "offset", "zoned31", "seconds"}}
Units == {Str("min"), Str("hours"), Str("day"), Str("week"), Str("month"), Str("years")}
MCTimeExprs ==
    DateTimes \cup FromSeconds
    \cup {Call(f, <<d>>) : f \in {"date", "datetime", "timestamp", "weekday", "day_of_year"}, d \in Dated}
    \cup {Call("date_add", <<d, n, u>>) : d \in Dated, n \in {Num(1), Num(-1), Num(13)}, u \in Units}
    \cup {Call("date_add", <<Str("jan31"), n, u>>) : n \in {Num(0), Num(40), Num(63), Num(100001), Variable("x"), Number(<<1, 2>>)}, u \in Units \cup {Str("decade")}}
    \cup {Call("date_diff", <<a, b, u>>) : a \in SomeDates, b \in Dated, u \in Units}
    \cup {Call("date_diff", <<a, b>>) : a, b \in Dates}
    \cup {Call("parse_date", <<d, Str(f)>>) : d \in Dates, f \in {"%Y-%m-%d", "%d/%m/%Y", "%s", OffsetFormat}}
    \cup {Call("reformat_date", <<d, Str(f), Str("%Y-%m-%d")>>) : d \in Dates, f \in {"%d/%m/%Y", "%s"}}
    \cup {Call("format_date", <<d, Str(OffsetFormat), Str(z)>>) : d \in Dated, z \in DOMAIN MCZones}
    \cup {Call("is_leap_year", <<n>>) : n \in Instants \cup {Num(1900), Num(2000), Num(-4), Num(1972)}}
    \cup {BinaryOp("-", a, b) : a \in DateTimes, b \in {e \in FromSeconds : e.kids[1] \in {Num(MCFall), Neg(Num(1))}} \cup {Call("now", <<>>), Call("today", <<Str("Asia/Shanghai")>>)}}
    \cup {Neg(d) : d \in Dated} \cup {BinaryOp("+", Call("format_date", <<Str("jan31"), Str("%Y-%m-%d")>>), Num(1)), Call("timestamp", <<>>)}

Cells  == {Num(0), Num(1), Num(-2)}
Lists(n) == {List(c) : c \in [1 .. n -> Cells]}
When(b, set) == IF b THEN set ELSE {}
Pairs(s, t)  == {<<a, b>> : a \in s, b \in t}
Singles(s)   == {<<a>> : a \in s}
MCVectorQuestions == [f \in {"dot", "cross", "angle", "cosine_similarity", "project", "reflect", "euclidean", "manhattan", "outer", "norm", "normalize", "scalar_triple", "lerp"} |->
    When(f \notin {"norm", "normalize", "scalar_triple", "lerp"}, Pairs(Lists(3), {l \in Lists(3) : l.kids[3] = Num(1) /\ l.kids[2] # Num(0)}))
    \cup When(f \in {"dot", "cross", "project", "euclidean", "outer"}, Pairs(Lists(2), Lists(2)))
    \cup When(f \in {"dot", "cross", "angle"}, Pairs(Lists(1) \cup {Num(1), Variable("z")}, Lists(1) \cup Lists(2)))
    \cup When(f \in {"norm", "normalize", "dot"}, Singles(Lists(2) \cup {List(<<>>), List(<<Variable("x"), Variable("h")>>), Num(1)}))
    \cup When(f = "scalar_triple", {<<a, b, c>> : a \in Lists(3), b \in {l \in Lists(3) : l.kids[1] = Num(1)}, c \in {List(<<Num(1), Num(2), Num(-1)>>), List(<<Num(0), Num(3), Num(1)>>)}})
    \cup When(f = "lerp", {<<a, b, t>> : a \in Lists(2) \cup Cells, b \in {l \in Lists(2) : l.kids[1] = Num(1)} \cup Cells \cup {List(<<Num(1)>>)}, t \in {Num(0), Number(<<1, 3>>), Variable("h"), Variable("z")}})]
Samples(n) == [1 .. n -> {0, 1, 2, 5}]
ListOf(s)  == List([i \in DOMAIN s |-> Num(s[i])])
Twos    == {Matrix(<<<<a, b>>, <<c, d>>>>) : a, b, c, d \in Cells}
Threes  == {Matrix(<<<<Num(1), a, b>>, <<c, Num(2), a>>, <<b, d, Num(1)>>>>) : a, b, c, d \in Cells}
Flat    == {Matrix(<<<<Num(1), Num(2), Num(0)>>, <<Num(-1), Num(3), Num(1)>>>>)}
Fixed2  == {Matrix(<<<<Num(2), Num(1)>>, <<Num(3), Num(-1)>>>>), Matrix(<<<<Num(1), Num(1)>>, <<Num(2), Num(2)>>>>)}
MCMatrixExprs ==
    {Call(f, <<m>>) : f \in {"inverse", "det", "transpose"}, m \in Twos \cup Threes \cup Flat \cup {Num(3)}
                        \cup {BinaryOp(op, a, b) : op \in {"+", "*"}, a \in {Matrix(<<<<Num(1), b>>, <<c, d>>>>) : b, c, d \in Cells}, b \in Fixed2 \cup Flat \cup {Num(2)}}
                        \cup {Neg(m) : m \in Fixed2}}
    \cup {Call("identity", <<n>>) : n \in {Num(-1), Num(0), Num(1), Num(3), Num(4), Variable("h")}}
    \cup {Call("inverse", <<Call("inverse", <<m>>)>>) : m \in Twos}
    \cup {Call("solve", <<m, b>>) : m \in Twos \cup Flat \cup {Num(2)}, b \in {ListOf(<<1, 2>>), ListOf(<<1, 2, 3, 4>>), Matrix(<<<<Num(3)>>, <<Num(-1)>>>>), Num(1), List(<<Num(1), Variable("q")>>)}}
    \cup {Call("solve", <<m, ListOf(<<1, 0, 2>>)>>) : m \in Threes} \cup {Call("solve", <<m>>) : m \in Flat}
    \cup {Call("precision", <<Num(3), m>>) : m \in Flat} \cup {Neg(Call("lu", <<m>>)) : m \in Flat}
    \cup {Call("lu", <<m>>) : m \in Twos \cup Flat \cup {Num(1)}}
ListsOf(samples) == {ListOf(s) : s \in samples}
MCStatQuestions == [f \in {"mean", "variance", "std", "median", "min", "max", "sum", "count", "pearson", "t_test_two", "chi2_test", "spearman", "t_test_one"} |->
    When(f \notin {"t_test_two", "chi2_test", "spearman", "t_test_one"}, Singles(ListsOf(Samples(3) \cup [1 .. 4 -> {0, 1, 5}] \cup {<<>>, <<2>>})))
    \cup When(f \in {"t_test_two", "chi2_test", "pearson", "spearman"}, Pairs(ListsOf([1 .. 3 -> {0, 1, 5}]), ListsOf({s \in [1 .. 3 -> {0, 1, 5}] : s[1] # 5} \cup {<<1, 2>>, <<>>})))
    \cup When(f = "spearman", Pairs(ListsOf([1 .. 4 -> {0, 1, 5}]), {ListOf(<<1, 3, 2, 3>>)}))
    \cup When(f = "t_test_one", Pairs(ListsOf(Samples(2) \cup {<<>>, <<3>>}), {Num(1), Variable("z"), Call("mean", <<ListOf(<<1, 2>>)>>)}))
    \cup When(f = "mean", {<<List(<<Call("max", <<ListOf(<<1, 4>>)>>), BinaryOp("+", Num(1), Variable("x")), a>>)>> : a \in {Num(1), List(<<>>), Variable("z"), BigNumber(5)}})]
Q(set) == {Whole(n) : n \in set}
NormPlaces == {<<x, mu, sigma>> : x \in Q(-2 .. 2) \cup {<<1, 2>>}, mu \in {Zero, Whole(1)}, sigma \in {Whole(1), Whole(2), Zero}}
TPlaces    == {<<x, Whole(2)>> : x \in {Zero, <<1, 2>>, <<-1, 2>>, <<7, 4>>, <<-7, 4>>, <<7, 6>>}}
              \cup {<<x, Whole(4)>> : x \in {Zero, <<3, 2>>, <<-3, 2>>}} \cup {<<<<1, 2>>, q>> : q \in Q({0, -1, -2})}
FPlaces    == {<<x, d1, d2>> : x \in Q({-1, 0, 1, 2, 4}) \cup {<<1, 2>>, <<1, 4>>}, d1, d2 \in Q({2, 4})} \cup {<<Zero, Whole(1), Whole(2)>>, <<Whole(1), Zero, Whole(2)>>, <<Whole(1), Whole(2), Whole(-1)>>}
Chances01  == {Zero, <<1, 4>>, <<1, 2>>, <<2, 3>>, Whole(1), Whole(2), NaN}
Quantiles  == {Zero, Whole(1), NaN, Whole(-1), <<1, 8>>, <<1, 4>>, <<1, 2>>, <<3, 4>>, <<7, 8>>}
MCInverseTol == <<1, 4>>
MCLeast == <<1, 1000>>
MCDistributionQuestions ==
    {<<f, s>> : f \in {"norm_cdf", "norm_pdf"}, s \in NormPlaces \cup {<<Whole(1), Zero, Whole(-1)>>}} \cup {<<"norm_inv", <<p, mu, sigma>>>> : p \in Quantiles \cup {<<1, 10>>, <<9, 10>>}, mu \in Q({0, 1}), sigma \in Q({1, 2})}
    \cup {<<f, s>> : f \in {"t_cdf", "t_pdf"}, s \in TPlaces} \cup {<<"t_inv", <<p, Whole(2)>>>> : p \in Quantiles}
    \cup {<<f, <<x, k>>>> : f \in {"chi2_cdf", "chi2_pdf"}, x \in Q({-1, 0, 1, 2, 4, 8}), k \in Q({0, 2, 4, 6})} \cup {<<"chi2_pdf", <<Zero, Whole(1)>>>>} \cup {<<"chi2_cdf", <<Whole(n), Whole(3)>>>> : n \in {1, 4}}
    \cup {<<"chi2_inv", <<p, Whole(2)>>>> : p \in Quantiles \ {<<7, 8>>}}
    \cup {<<f, s>> : f \in {"f_cdf", "f_pdf"}, s \in FPlaces} \cup {<<"f_inv", <<p, Whole(d[1]), Whole(d[2])>>>> : p \in Quantiles \cup {<<1, 20>>}, d \in {<<2, 2>>, <<2, 4>>, <<4, 2>>}}
    \cup {<<f, <<k, lambda>>>> : f \in {"poisson_pmf", "poisson_cdf"}, k \in Q({-1, 0, 1, 2, 3}) \cup {<<5, 2>>, NaN}, lambda \in {Zero, <<1, 2>>, Whole(1), Whole(3), Whole(-1)}}
    \cup {<<f, <<k, n, p>>>> : f \in {"binom_pmf", "binom_cdf"}, k \in Q(-1 .. 4) \cup {<<3, 2>>, NaN, Inf}, n \in Q({-1, 0, 3}), p \in Chances01}
MCDistributionCalls ==
    {<<"norm_inv", <<Call("norm_cdf", <<x, Num(1), s>>), Num(1), s>>>> : x \in {Num(0), Num(1), Num(3), BinaryOp("-", Num(0), Num(2))}, s \in {Num(1), Num(2), Num(0)}}
    \cup {<<"norm_cdf", <<Call("norm_inv", <<p, Num(0), s>>), Num(0), s>>>> : p \in {Num(0), Number(<<1, 2>>), Number(<<1, 8>>), Number(<<7, 8>>), Num(2)}, s \in {Num(1), Num(2)}}
    \cup {<<f, args>> : f \in {"t_pdf", "chi2_cdf", "f_pdf", "poisson_pmf", "binom_cdf"}, args \in UNION {[1 .. n -> {Num(1), Num(2), List(<<>>)}] : n \in 1 .. 3}}
Grid2(rows, cols, cells) == {[i \in 1 .. rows |-> [j \in 1 .. cols |-> Whole(g[cols * (i - 1) + j])]] : g \in [1 .. rows * cols -> cells]}
Sym3    == {[i \in 1 .. 3 |-> [j \in 1 .. 3 |-> Whole(IF i = j THEN d[i] ELSE o[i + j - 2])]] : d \in {<<1, 1, 1>>, <<2, 0, 1>>}, o \in [1 .. 3 -> {0, 1, -1}]}
Rational(m) == \A p \in ToSet(SymmetricEigen(m)) : MatrixVector(m, p.vector) = ScalarMulVec(p.vector, p.value)
EigenRational(set) == {m \in set : IsSymmetric(m) /\ Spectrum(m) # {} /\ Rational(m)}
GramRational(set)  == {m \in set : LET g == IF Len(m) < Len(m[1]) THEN Multiply(m, Transpose(m)) ELSE Multiply(Transpose(m), m) IN Spectrum(g) # {} /\ Rational(g)}
Tall    == {<<<<Whole(a), Whole(b)>>, <<Whole(c), Whole(d)>>, <<Whole(e), Whole(1)>>>> : a, b, e \in {0, 1, -1}, c, d \in {0, 1}} \cup {[i \in 1 .. 3 |-> <<Zero, Zero>>]}
Independent(set)   == {m \in set : \A q \in ToSet(ThinQr(m).directions) : ~Nought(q)}
Upper3  == {<<<<Whole(a), Whole(b), Whole(c)>>, <<Zero, Whole(d), Whole(e)>>, <<Zero, Zero, Whole(f)>>>> : a, d, f \in {0, 2}, b, e \in {0, 1, -3}, c \in {1}}
Blocks  == {<<<<1, -2>>, <<1, -1>>>>, <<<<2, -3>>, <<3, 2>>>>, <<<<1, 4>>, <<1, 1>>>>, <<<<0, -1>>, <<4, 0>>>>}
BlockFirst == {<<<<Whole(b[1][1]), Whole(b[1][2]), Whole(x)>>, <<Whole(b[2][1]), Whole(b[2][2]), Whole(y)>>, <<Zero, Zero, Whole(z)>>>> : b \in Blocks, x, y \in {0, 1}, z \in {-1, 3}}
BlockLast  == {<<<<Whole(z), Whole(x), Whole(y)>>, <<Zero, Whole(b[1][1]), Whole(b[1][2])>>, <<Zero, Whole(b[2][1]), Whole(b[2][2])>>>> : b \in Blocks, x, y \in {0, 1}, z \in {2}}
Broken  == {<<<<NaN, Zero>>, <<Zero, Whole(1)>>>>, <<<<Whole(1), Inf>>>>}
Strict3 == {<<<<Zero, Whole(a), Whole(b)>>, <<Zero, Zero, Whole(c)>>, <<Zero, Zero, Zero>>>> : a, b, c \in {0, 1, -2}}
Nilpotent == Strict3 \cup {Transpose(m) : m \in Strict3} \cup {<<<<Whole(2), Whole(-4)>>, <<Whole(1), Whole(-2)>>>>}
             \cup {<<<<Zero, Whole(a)>>, <<Zero, Zero>>>> : a \in {-20, 8, 32, 33, 40, 100}}
Square2 == Grid2(2, 2, {0, 1, -2})
MCNumericalFns == {"lu", "qr", "svd", "eig", "matrix_exp", "eig_general", "solve", "lstsq"}
MCNumericalQuestions(f) ==
    CASE f = "lu"  -> Singles(Square2 \cup {Transpose(m) : m \in Upper3} \cup Sym3 \cup Broken \cup Grid2(2, 3, {1}))
      [] f = "qr"  -> Singles(Independent(Square2 \cup Tall \cup Grid2(2, 3, {0, 1}) \cup Sym3) \cup Broken)
      [] f = "svd" -> Singles(GramRational(Square2 \cup {<<<<Whole(3), Zero>>, <<Whole(4), Zero>>>>, <<<<Whole(3), Whole(1)>>, <<Whole(-1), Whole(3)>>>>} \cup {m \in Tall : m[2][2] = Zero} \cup Grid2(2, 3, {0, 2})) \cup Broken)
      [] f \in {"eig", "matrix_exp", "eig_general"} ->
             Singles(EigenRational({<<<<Whole(a), Whole(b)>>, <<Whole(b), Whole(c)>>>> : a, b, c \in -1 .. 1} \cup {<<<<Whole(2), Whole(2)>>, <<Whole(2), Whole(-1)>>>>} \cup Sym3) \cup Broken \cup Grid2(2, 3, {1})
                     \cup When(f = "eig_general", Upper3 \cup BlockFirst) \cup When(f # "matrix_exp", BlockLast) \cup When(f = "matrix_exp", Nilpotent))
      [] f = "solve" -> Pairs(Square2 \cup Broken \cup Grid2(2, 3, {1}), {<<Whole(1), Whole(3)>>, <<<<1, 2>>, NaN>>, <<Zero>>})
                        \cup Pairs(Sym3, {<<Whole(1), Zero, Whole(2)>>})
      [] f = "lstsq" -> Pairs(Tall \cup {<<>>} \cup Sym3, {<<Whole(1), Zero, Whole(2)>>})
                        \cup Pairs({m \in Tall : m[1] = m[3]}, {<<Inf, Zero, Zero>>, <<>>})
                        \cup Pairs(Grid2(2, 3, {0, 1}) \cup Square2 \cup Broken, {<<Whole(3), Whole(1)>>})
Points(s) == [i \in DOMAIN s |-> Whole(s[i])]
MCRegressionQuestions ==
    {<<Points(s), Points(t)>> : s \in [1 .. 3 -> {0, 1, 5}], t \in {<<1, 0, 2>>, <<2, 2, 2>>, <<0, 5, 1>>}}
    \cup {<<Points(s), Points(<<1, 0, 2, 5>>)>> : s \in {q \in [1 .. 4 -> {0, 1, 3}] : q[4] # 3} \cup {<<0, 1>>}}
    \cup {<<Points(<<1>>), Points(<<2>>)>>, <<<<>>, <<>>>>}
-----------------------------------------------------------------------------
T == Variable("t")
PolyLeaves == {Num(0), Num(1), Num(-2), Number(<<1, 2>>), BigNumber(3), T, Variable("u"), Variable("x")}
PolyPairs  == {BinaryOp(op, l, r) : op \in BinaryOps, l, r \in PolyLeaves \ {Number(<<1, 2>>)}} \cup {Neg(l) : l \in PolyLeaves}
Lin(a, b)  == BinaryOp("+", BinaryOp("*", Num(a), T), Num(b))
Quad(a, b, c) == BinaryOp("+", BinaryOp("*", Num(a), BinaryOp("^", T, Num(2))), Lin(b, c))
Prod(s) == FoldLeft(LAMBDA e, f : BinaryOp("*", e, f), Head(s), Tail(s))
Lins == {Lin(a, b) : a \in {1, -2}, b \in -2 .. 2}
Quads == {Quad(1, -2 * m, m * m + i * i) : m \in -1 .. 1, i \in 1 .. 2}
MonicLins == {Lin(1, b) : b \in -2 .. 2}
Rootable == Lins \cup Quads \cup {Prod(<<a, b>>) : a \in Lins, b \in MonicLins \cup Quads} \cup {Prod(<<a, b, c>>) : a \in {Lin(1, 2), Lin(-2, 1)}, b, c \in MonicLins}
  \cup {Prod(<<a, b>>) : a, b \in Quads} \cup {Prod(<<a, b, c>>) : a, b \in {Lin(1, 1), Lin(1, -2)}, c \in Quads} \cup {Prod(<<a, b, c, Lin(2, -2)>>) : a, b, c \in {Lin(1, 1), Lin(1, -2), Lin(1, 0)}}
Deg5 == {BinaryOp("^", T, Num(5)), BinaryOp("^", T, Num(12))}
Two  == {"poly_add", "poly_sub", "poly_mul", "poly_div"}
PolyArgs == Lins \cup {Quad(1, 1, -2), Quad(0, 0, 0), Lin(0, 0), Prod(<<Lin(1, 1), Lin(1, -2)>>), Num(3), Variable("x"), Variable("u"), Call("poly_diff", <<Quad(2, 1, 1)>>), Call("roots", <<T>>)}
MCPolyExprs == PolyPairs \cup {BinaryOp(op, p, Num(2)) : op \in {"*", "/", "^"}, p \in PolyPairs} \cup {BinaryOp(op, p, Lin(1, 1)) : op \in {"-", "*"}, p \in PolyPairs}
  \cup {Call(f, <<p>>) : f \in {"poly_diff", "poly_integrate"}, p \in Lins \cup {Prod(<<a, b>>) : a, b \in Quads}} \cup {Call(f, <<p>>) : f \in {"roots", "poly_diff", "poly_integrate"}, p \in Deg5 \cup {Num(0), Num(2), Variable("x")}}
  \cup {Call("roots", <<p>>) : p \in Rootable}
  \cup {Call("factor", <<p>>) : p \in Lins \cup Quads \cup {Num(4), Quad(2, -3, 1)} \cup {Prod(<<a, b>>) : a \in Lins, b \in MonicLins} \cup Deg5}
  \cup {Call(f, <<a, b>>) : f \in Two, a \in PolyArgs, b \in PolyArgs \ {Lin(a, b) : a \in {1, -2}, b \in {-1, 1, 2}}}
  \cup {Call("poly_div", <<Prod(<<a, b>>), c>>) : a \in MonicLins, b \in Quads, c \in {Lin(1, 1), Lin(-2, 0), Lin(-2, 1), Quad(1, 0, 1)}}
  \cup {Call("poly_eval", <<a, b>>) : a \in PolyArgs, b \in {Num(2), Neg(Num(1)), Variable("h"), T, BinaryOp("/", Num(1), Num(0)), BinaryOp("^", Num(2), Num(-1)), BinaryOp("mod", Num(7), Num(4))}}
-----------------------------------------------------------------------------
X == Variable("x")
SymLeaves == {Num(0), Num(1), Num(-2), X, Variable("y")}
SymOps == {"+", "-", "*", "/", "^"}
Fns(es) == {Call(f, <<e>>) : f \in SymbolicFunctions, e \in es}
SymOnce == {BinaryOp(op, l, r) : op \in SymOps, l, r \in SymLeaves} \cup Fns({X, Num(0), Variable("y")}) \cup {Neg(l) : l \in SymLeaves}
Some1 == {BinaryOp("*", Num(2), X), BinaryOp("^", X, Num(2)), BinaryOp("+", X, Num(1)), BinaryOp("-", X, Variable("y")), BinaryOp("^", X, Variable("y")),
          BinaryOp("/", Num(1), X), BinaryOp("*", X, Num(3)), BinaryOp("*", X, Variable("y")), Neg(X), Neg(Call("sin", <<X>>)), BinaryOp("^", Num(0), X)} \cup Fns({X})
Inner == {BinaryOp("*", Num(2), X), BinaryOp("^", X, Num(2)), BinaryOp("+", X, Num(1)), BinaryOp("/", Num(1), X), Call("sin", <<X>>)}
Twice == {BinaryOp(op, l, r) : op \in SymOps, l \in Some1 \ {Call(f, <<X>>) : f \in {"cos", "tan", "exp"}}, r \in Inner \cup {Num(2), Num(-1), Num(0), X}} \cup {BinaryOp(op, l, r) : op \in SymOps, l \in {Num(2), X}, r \in Some1}
   \cup Fns(Some1 \ {BinaryOp("^", Num(0), X)}) \cup {Neg(e) : e \in Some1}
Squares == {BinaryOp("^", Call(f, <<a>>), n) : f \in {"sin", "cos"}, a \in {X, BinaryOp("*", Num(2), X)}, n \in {Num(2), BinaryOp("+", Num(1), Num(1))}}
Thrice == {BinaryOp("+", l, r) : l, r \in Squares} \cup {BinaryOp("-", X, BinaryOp("-", l, r)) : l, r \in SymLeaves} \cup {BinaryOp("-", l, BinaryOp("+", r, X)) : l, r \in Inner}
   \cup {BinaryOp("/", l, BinaryOp("/", r, X)) : l \in Some1, r \in Inner} \cup {BinaryOp("^", BinaryOp("^", l, Num(2)), r) : l \in Some1, r \in {Num(2), Num(-1), X}}
PiConst == Variable("pi")
EConst  == Variable("e")
Consts == {PiConst, Call("sin", <<PiConst>>), Call("ln", <<EConst>>), BinaryOp("^", X, PiConst)} \cup {BinaryOp(op, EConst, X) : op \in SymOps} \cup {BinaryOp(op, X, EConst) : op \in SymOps \ {"^"}}
Bad == {Call("sin", <<X, X>>), Call("sqrt", <<X>>), BinaryOp("mod", X, Num(2)), List(<<X>>), Call("log", <<X>>), BigNumber(150)}
Vanish == {X, BinaryOp("^", X, Num(2)), Call("sin", <<X>>), Call("tan", <<X>>), BinaryOp("-", Call("exp", <<X>>), Num(1)), BinaryOp("-", Num(1), Call("cos", <<X>>)),
    Call("ln", <<BinaryOp("+", Num(1), X)>>), BinaryOp("*", X, Call("sin", <<X>>)), BinaryOp("-", Call("sin", <<X>>), X), Call("sin", <<BinaryOp("*", Num(3), X)>>)}
Steady == {Num(2), Call("cos", <<X>>), BinaryOp("+", Num(1), X), Call("exp", <<Neg(X)>>), BinaryOp("/", Num(1), BinaryOp("-", Num(2), X)), BinaryOp("^", BinaryOp("+", X, Num(2)), Num(-1)), Num(0), Variable("y")}
AtOne == {BinaryOp("-", BinaryOp("^", X, Num(n)), Num(1)) : n \in 1 .. 3} \cup {Call("ln", <<X>>), BinaryOp("-", BinaryOp("*", X, X), X)}
Quotients(tops, bottoms, points) == {Call("limit", <<BinaryOp("/", l, r), X, p>>) : l \in tops, r \in bottoms, p \in points}
Simple == {X, BinaryOp("^", X, Num(2)), Call("sin", <<X>>), BinaryOp("-", Num(1), Call("cos", <<X>>)), Num(0), Call("exp", <<Neg(X)>>), BinaryOp("+", Num(1), X)}
MCSymbolicExprs == [f \in DOMAIN SymbolicArity |->
    CASE f = "diff"      -> {Call("diff", <<e, X>>) : e \in SymLeaves \cup SymOnce \cup Twice \cup Squares \cup Bad} \cup {Call("diff", <<e, Variable("y")>>) : e \in SymLeaves \cup SymOnce \cup Some1} \cup {Call("diff", <<e, v>>) : e \in Consts, v \in {X, EConst}} \cup {Call("diff", <<X, Num(1)>>), Call("diff", <<X>>), X}
      [] f = "simplify"  -> {Call("simplify", <<e>>) : e \in SymOnce \cup Twice \cup Thrice \cup Consts \cup Bad}
      [] f = "integrate" -> {Call("integrate", <<e, X>>) : e \in SymLeaves \cup SymOnce \cup Twice \cup Consts \cup Bad}
      [] f = "limit"     -> Quotients(Vanish \cup Steady, Simple, {Num(0)}) \cup Quotients(AtOne, AtOne, {Num(1), Neg(Num(1)), Variable("y")}) \cup {Call("limit", <<e, X, Num(0)>>) : e \in Vanish \cup Steady \cup Consts}
      [] f = "taylor"    -> {Call("taylor", <<e, X, n>>) : e \in Vanish \cup Steady, n \in {Num(0), Number(<<5, 2>>)}}
                            \cup {Call("taylor", <<e, X, Num(3)>>) : e \in Vanish \cup Steady \cup {BinaryOp(op, l, r) : op \in {"+", "*"}, l \in Vanish, r \in Simple}}
                            \cup {Call("taylor", <<e, X, n>>) : e \in {X, Call("sin", <<X>>)}, n \in {Num(5), Num(21), Neg(Num(1)), BigNumber(2)}}]
-----------------------------------------------------------------------------
TextLeaves == {Number(<<5, 2>>), X, BigNumber(150), Complex(<<3, 1>>, <<-4, 1>>), Complex(Zero, <<2, 1>>)}
TextOnce == TextLeaves \cup {BinaryOp(op, a, b) : op \in SymOps, a, b \in TextLeaves} \cup {Neg(a) : a \in TextLeaves} \cup {ModCall(a, b) : a, b \in TextLeaves}
  \cup {Call("factorial", <<a>>) : a \in TextLeaves} \cup {Call("f", <<a, b>>) : a, b \in TextLeaves} \cup {List(<<a, b>>) : a, b \in TextLeaves}
Literals == {Matrix(<<<<a, b>>, <<b, a>>>>) : a, b \in TextLeaves} \cup {Call("g", <<a, Str(s)>>) : a \in TextLeaves, s \in {"kg", "a,[b", "\"\\"}}
  \cup {Call("g", <<Str("kg"), List(<<BigNumber(90)>>), Str("a,[b"), BigNumber(90), List(<<b, List(<<a>>)>>), Str("\"\\")>>) : a, b \in {Num(2), X}}
TextTwice == {BinaryOp(op, a, X) : op \in {"-", "*", "^"}, a \in TextOnce} \cup {BinaryOp(op, Num(2), a) : op \in {"-", "*", "^"}, a \in TextOnce \cup Literals}
  \cup {Neg(a) : a \in TextOnce} \cup {Call("factorial", <<a>>) : a \in TextOnce} \cup {ModCall(a, Num(3)) : a \in TextOnce} \cup {List(<<Num(1), a>>) : a \in TextOnce}
MCWrittenExprs == ((TextOnce \cup Literals) \X Styles) \cup (TextTwice \X {[tight |-> TRUE, juxtaposed |-> TRUE]})
Alphabet == {Digits(2), Word("x"), Word("i"), Char("+"), Char("("), Char(")"), Char("!"), Char("["), Char("]"), Char(","), Space, Char("^")}
Apart(t) == \A i \in 1 .. Len(t) - 1 : t[i].kind = t[i + 1].kind => t[i].kind = "char"
Deep(n) == [i \in 1 .. 2 * n + 1 |-> IF i <= n THEN Char("(") ELSE IF i = n + 1 THEN Digits(7) ELSE Char(")")]
DeepLists(n) == [i \in 1 .. 2 * n + 1 |-> IF i <= n THEN Char("[") ELSE IF i = n + 1 THEN Digits(7) ELSE Char("]")]
MCParseTexts == {t \in UNION {[1 .. n -> Alphabet] : n \in 0 .. 3} : Apart(t)} \cup {Deep(n) : n \in 5 .. 8} \cup {DeepLists(n) : n \in 5 .. 8}
  \cup {t \in [1 .. 5 -> {Digits(2), Word("i"), Char("("), Char(")"), Char("!"), Char("^"), Char("+")}] : t[2].kind = "char" /\ t[3] # Char(")") /\ Apart(t) /\ t[1] \in {Digits(2), Char("(")} /\ t[5] \in {Digits(2), Char(")"), Char("!")}}
-----------------------------------------------------------------------------
MCNearOne     == <<7, 8>>
MCTiny        == <<1, 64>>
MCSlopeStep   == <<1, 8>>
MCRootTol     == <<1, 4>>
MCIntegralTol == <<1, 16>>
MCBindings == [x |-> <<3, 1>>, h |-> <<1, 2>>, big |-> Inf, none |-> NaN]
Floating == {Zero, One, Whole(-1), Whole(2), <<1, 2>>, <<-3, 2>>, Whole(6), Whole(-9), Inf, Negate(Inf), NaN}
Grouped == {<<n, 4>> : n \in {-9, -3, 1, 3, 5, 15}} \cup {<<-7, 2>>, <<7, 2>>, Whole(-3), Whole(-4), Whole(3), Whole(4), Whole(5)}
RealLeaves == {Num(0), Num(1), Num(-2), Number(<<1, 2>>), Num(128), Variable("x"), Variable("big"), Variable("none"), Variable("z")}
FewReals == {Num(0), Num(3), Neg(Num(1)), Variable("x"), Variable("big")}
Fractional(e) == e = Number(<<1, 2>>)
RealPairs == {e \in {BinaryOp(op, l, r) : op \in BinaryOps, l, r \in RealLeaves} : ~(e.head = "^" /\ (Fractional(e.kids[2]) \/ e.kids[2].num[1] > 2))}
   \cup {Neg(l) : l \in RealLeaves} \cup {Call(f, <<l>>) : f \in {"factorial", "abs"}, l \in RealLeaves}
MCRealExprs == RealPairs \cup {BinaryOp(op, e, Num(3)) : op \in {"-", "*", "/"}, e \in RealPairs} \cup {BinaryOp("^", e, Num(-1)) : e \in RealPairs}
   \cup {Call("factorial", <<e>>) : e \in RealPairs} \cup {ModCall(e, Num(3)) : e \in RealPairs}
   \cup {Call("mod", <<Num(1)>>), Call("sin", <<Num(1)>>), BigNumber(3), List(<<>>), Call("factorial", <<Num(3), Num(3)>>), Neg(Call("abs", <<>>))}
MCExactExprs == {Call("precision", <<n, e>>) : n \in {Num(2)}, e \in RealPairs}
   \cup {Call("precision", <<n, Num(3)>>) : n \in {Num(0), Num(7), Num(-1), Number(<<1, 2>>), Variable("x")}} \cup {Call("precision", <<Num(2)>>), Call("precision", <<Num(2), Call("precision", <<Num(2), Num(3)>>)>>)}
   \cup {Call("precision", <<Num(2), BinaryOp("/", BigNumber(a), Num(b))>>) : a \in {99, 150}, b \in {-7, 8, 3}}
ComplexLeaves == {Complex(<<3, 1>>, <<4, 1>>), Complex(Zero, <<-2, 1>>), Complex(<<1, 2>>, Zero), Variable("i"), Num(0), Num(-2), Variable("x"), Variable("big")}
ComplexOnce == {BinaryOp(op, l, r) : op \in {"+", "-", "*", "/", "mod"}, l, r \in ComplexLeaves} \cup {BinaryOp("^", l, Num(n)) : l \in ComplexLeaves, n \in {-2, 0, 3}} \cup {Neg(l) : l \in ComplexLeaves}
   \cup {Call(f, <<l>>) : f \in {"conj", "arg", "abs", "exp", "ln"}, l \in ComplexLeaves} \cup {Call("complex", <<l, r>>) : l, r \in {Num(1), Variable("x"), Variable("i"), Num(0)}}
MCComplexExprs == ComplexLeaves \cup ComplexOnce \cup {BinaryOp(op, e, Complex(<<1, 1>>, <<-1, 1>>)) : op \in {"+", "*", "/"}, e \in ComplexOnce} \cup {BinaryOp("*", e, Variable("i")) : e \in ComplexOnce}
   \cup {Call(f, <<e>>) : f \in {"conj", "arg", "exp"}, e \in ComplexOnce} \cup {Call("factorial", <<Num(3)>>), Call("exp", <<Num(1), Num(1)>>), Matrix(<<>>)}
\* the stand-in for a power has no roots, and MaxFloat no room for airy's series at 6
Askable(f, q) == CASE f = "zeta" -> ~IsFinite(q) \/ LessF(Zero, q) \/ (IsInteger(q) /\ LessF(Whole(-5), q))
                   [] f \in {"airy_ai", "airy_bi"} -> ~IsFinite(q) \/ LessEq(AbsOf(q), Whole(2)) \/ LessF(Whole(8), AbsOf(q))
                   [] OTHER -> TRUE
MCFunctionQuestions == UNION {{<<f, <<q>>>> : q \in {p \in Floating \cup {<<-1, 2>>, <<5, 2>>, <<-5, 2>>, Whole(-3), Whole(3), Whole(4), Whole(-2)} : Askable(f, p)}} : f \in OneArgument \cup {"factorial", "abs"}}
   \cup {<<f, <<n, q>>>> : f \in OrderedFunctions, n \in {0, 1, 2, 3, 5}, q \in {Zero, One, Whole(-1), Whole(2), <<1, 2>>, <<-1, 2>>, <<1, 4>>, <<9, 10>>, Inf, NaN, Whole(-2)}}
   \cup {<<"log", <<p, q>>>> : p, q \in Floating \cup {Whole(3)}} \cup {<<"beta", <<p, q>>>> : p, q \in {<<1, 2>>, One, <<3, 2>>, Whole(3), Zero, Whole(-1), Inf}}
   \cup {<<op, <<p, q>>>> : op \in BinaryOps, p \in Floating \ {<<1, 2>>}, q \in Floating}
MCSolverQuestions == {<<m, c, <<p, q>>>> : m \in {"bisection", "brent", "secant"}, c \in {<<>>, <<0, 1>>, <<-2, 0, 1>>, <<1, 0, 1>>, <<-1, 1, 0, 1>>, <<3>>, <<1, -3, 0, 1>>}, p \in {Whole(-3), Zero, <<1, 2>>}, q \in {Whole(2), One, <<5, 4>>}}
   \cup {<<"newton", c, o>> : c \in {<<>>, <<0, 1>>, <<-2, 0, 1>>, <<1, 0, 1>>, <<-1, 1, 0, 1>>, <<3>>}, o \in {<<>>, <<Whole(2)>>, <<Zero>>}} \cup {<<"bisection", <<0, 1>>, <<One>>>>, <<"laguerre", <<0, 1>>, <<>>>>}
   \cup {<<"derivative", c, <<q>>>> : c \in {<<>>, <<3>>, <<0, 1>>, <<-2, 0, 1>>, <<1, -3, 0, 1>>, <<0, 1, 0, 0, 1>>}, q \in {Zero, One, <<-3, 2>>, Whole(2)}}
V == Variable("v")
Cubic(a, b, c) == BinaryOp("+", BinaryOp("*", Num(a), BinaryOp("^", V, Num(3))), BinaryOp("+", BinaryOp("*", Num(b), V), Num(c)))
Bodies == {V, Cubic(1, -3, 1), Cubic(1, 0, -2), BinaryOp("-", BinaryOp("*", V, X), Num(4)), Call("sin", <<V>>), Variable("z")}
MCScientificExprs ==
   {Call(f, <<body, V, a, b>>) : f \in {"root", "integral"}, body \in Bodies, a \in {Num(0), Neg(Num(1)), Number(<<1, 2>>)}, b \in {Num(0), Num(2), Variable("big")}}
   \cup {Call("integral", <<BinaryOp("^", V, Num(4)), V, a, b>>) : a, b \in {Num(0), Neg(Num(1)), Num(1)}} \cup {Call("root", <<BinaryOp("/", Num(1), V), V, Neg(Num(1)), b>>) : b \in {Num(1), Num(3)}}
   \cup {Call(f, <<Renamed(body, "v", n), Variable(n), a, b>>) : f \in {"root", "integral"}, body \in {Cubic(1, 0, -2), V}, n \in {"x", "pi", "h"}, a \in {Num(0)}, b \in {Num(2)}}
   \cup {Call(f, <<V, n, Num(0), b>>) : f \in {"root", "integral"}, n \in {Num(1), V}, b \in {Variable("z"), BinaryOp("/", Num(1), Num(0))}} \cup {Call("root", <<V, V, Num(1)>>)}
   \cup RealPairs \cup {Call(f, <<Variable("pi")>>) : f \in {"sin", "cos", "tan", "gamma"}} \cup {Call("log", <<Num(3)>>), Call("besselj", <<Number(<<1, 2>>), Num(1)>>), Call("besselj", <<Num(101), Num(1)>>), Call("besseli", <<Num(3), Num(2)>>), Call("beta", <<Num(1), Num(2)>>)}
   \cup {BinaryOp(op, Call("exp", <<l>>), r) : op \in {"+", "*", "/"}, l, r \in FewReals \cup {Variable("e"), List(<<>>)}}
-----------------------------------------------------------------------------
StepLeaves == {Num(0), Num(3), Num(-2), Number(<<5, 2>>), Variable("x"), Num(128)}
StepInts == {Num(0), Num(-2), Num(6), Number(<<5, 2>>), Num(-128)}
StepOnce == {BinaryOp(op, l, r) : op \in {"+", "*", "/"}, l, r \in StepLeaves} \cup {Call(f, <<l, r>>) : f \in {"gcd", "lcm", "min", "max"}, l \in StepInts, r \in StepInts \cup {Num(48), Num(127), Number(<<-7, 2>>), Variable("x")}}
   \cup {Call(f, <<l>>) : f \in {"floor", "ceil", "round", "abs", "sin", "exp", "ln", "log", "log2"}, l \in StepLeaves \cup {Variable("big"), Variable("none")}}
   \cup {Call("sqrt", <<Number(q)>>) : q \in {<<9, 1>>, <<1, 4>>, Zero, Whole(-4), <<25, 4>>}} \cup {Call("pow", <<l, Num(n)>>) : l \in StepLeaves, n \in {-1, 0, 2}}
   \cup {Call("atan2", <<l, r>>) : l, r \in {Num(0), Num(1), Num(-2)}} \cup {Call(f, <<>>) : f \in {"pi", "e", "x"}}
Nested(n) == FoldLeft(LAMBDA e, i : Neg(e), Num(3), [i \in 1 .. n |-> i])
MCStepExprs == RealPairs \cup StepOnce \cup {BinaryOp("-", e, BinaryOp("*", Num(2), Variable("h"))) : e \in StepOnce} \cup {BinaryOp("^", e, Num(2)) : e \in StepOnce}
   \cup {Call(f, <<e, Num(4)>>) : f \in {"min", "gcd"}, e \in StepOnce} \cup {List(<<e, Neg(e)>>) : e \in StepOnce} \cup {List(<<Num(1), Variable("z")>>), List(<<>>), Neg(List(<<>>))}
   \cup {Nested(n) : n \in 5 .. 8} \cup {Call("factorial", <<Num(3)>>), Call("sin", <<Num(1), Num(2)>>), Call("sin", <<Variable("pi")>>), ModCall(Num(7), Num(3)), Call("log", <<Num(2), Num(8)>>)}
   \cup {BinaryOp("+", BigNumber(n), Num(1)) : n \in {64, 65, 66, 150}}
LatexLeaves == {Num(2), Number(<<5, 2>>), X, BigNumber(150), Num(-3)}
LatexOnce == {BinaryOp(op, a, b) : op \in SymOps, a, b \in LatexLeaves} \cup {Neg(a) : a \in LatexLeaves} \cup {Call("f", <<a, b>>) : a, b \in LatexLeaves \cup {List(<<X>>)}}
MCLatexExprs == LatexLeaves \cup LatexOnce \cup {BinaryOp(op, a, X) : op \in SymOps, a \in LatexOnce} \cup {BinaryOp("^", a, Num(2)) : a \in LatexOnce} \cup {BinaryOp(op, Num(2), a) : op \in SymOps, a \in LatexOnce}
   \cup {Neg(a) : a \in LatexOnce} \cup {Call("sin", <<a>>) : a \in LatexOnce} \cup {BinaryOp("mod", a, b) : a, b \in LatexLeaves \cup {BinaryOp("mod", X, Num(2)), BinaryOp("+", X, Num(2))}} \cup {List(<<X>>), Neg(List(<<X>>)), BinaryOp("+", X, List(<<>>)), Complex(Zero, Zero)}
Parts10 == {Zero, Whole(1), Whole(-1), Whole(2), <<-1, 2>>, <<5, 2>>}
ShownNumbers == Parts10 \cup {Inf, Negate(Inf), NaN}
MCShownResults(shape) ==
    CASE shape = "scalar"       -> ShownNumbers
      [] shape = "bigint"       -> {-3, 0, 150}
      [] shape = "rational"     -> {Ratio(n, d) : n \in -9 .. 9, d \in {1, 3, 7, 8}}
      [] shape = "complex"      -> Parts10 \X Parts10
      [] shape = "polynomial"   -> UNION {[1 .. n -> Parts10] : n \in 1 .. 3} \cup [1 .. 4 -> {Zero, Whole(1), <<-1, 2>>}]
      [] shape = "vector"       -> UNION {[1 .. n -> ShownNumbers] : n \in 1 .. 2}
      [] shape = "matrix"       -> {<<<<p, q>>, <<q, Whole(1)>>>> : p, q \in ShownNumbers}
      [] shape = "complex_list" -> {<<<<p, q>>, <<q, p>>>> : p, q \in Parts10}
      [] shape = "steps"        -> {<<Letter("x"), Letter("y")>>}
      [] shape \in {"symbolic", "datetime"} -> {Letter("x")}
MCShownPlaces(shape) == IF shape = "rational" THEN {<<>>, <<1>>, <<2>>} ELSE {<<>>}
==============================================================================
