------------------------------ MODULE Amounts ------------------------------
(***************************************************************************)
(* Amounts in units and currencies: math/unit.rs and math/unit_table.rs,   *)
(* math/fx.rs, and the two FX tools of the server (server/fx_tools.rs over *)
(* math/fx_scenario.rs).  A unit, a currency and any other text is a       *)
(* string; an f64 is a rational.                                           *)
(***************************************************************************)
EXTENDS RustNumbers

\* LINEAR_UNITS: some of each dimension, with the factor to its base
LinearUnits ==
    {<<"m", "Length", <<1, 1>>>>, <<"km", "Length", <<1000, 1>>>>, <<"cm", "Length", <<1, 100>>>>, <<"in", "Length", <<127, 5000>>>>,
     <<"kg", "Mass", <<1, 1>>>>, <<"g", "Mass", <<1, 1000>>>>, <<"L", "Volume", <<1, 1000>>>>, <<"m3", "Volume", <<1, 1>>>>,
     <<"ha", "Area", <<10000, 1>>>>, <<"m2", "Area", <<1, 1>>>>, <<"m/s", "Speed", <<1, 1>>>>, <<"km/h", "Speed", <<5, 18>>>>,
     <<"KB", "Data", <<1000, 1>>>>, <<"KiB", "Data", <<1024, 1>>>>, <<"min", "Time", <<60, 1>>>>, <<"day", "Time", <<86400, 1>>>>}
TemperatureUnits == {"C", "F", "K", "R"}
Lookup(unit)     == {u \in LinearUnits : u[1] = unit}

Freezing == <<5463, 20>>     \* 273.15
ToKelvin(q, unit) ==
    CASE unit = "C" -> Plus(q, Freezing)
      [] unit = "F" -> Plus(Times(Minus(q, Whole(32)), <<5, 9>>), Freezing)
      [] unit = "K" -> q
      [] unit = "R" -> Times(q, <<5, 9>>)
FromKelvin(q, unit) ==
    CASE unit = "C" -> Minus(q, Freezing)
      [] unit = "F" -> Plus(Times(Minus(q, Freezing), <<9, 5>>), Whole(32))
      [] unit = "K" -> q
      [] unit = "R" -> Times(q, <<9, 5>>)

ConvertValue(q, from, to) ==
    CASE {from, to} \subseteq TemperatureUnits -> Ok(FromKelvin(ToKelvin(q, from), to))
      [] (from \in TemperatureUnits) # (to \in TemperatureUnits) -> BadArguments
      [] OTHER -> IF Lookup(from) = {} \/ Lookup(to) = {} THEN BadArguments
                  ELSE LET f == TheOne(Lookup(from))  t == TheOne(Lookup(to))
                       IN  IF f[2] # t[2] THEN BadArguments ELSE Ok(Over(Times(q, f[3]), t[3]))
-----------------------------------------------------------------------------
GetRate(code, table) ==
    IF code = table.base THEN Ok(Whole(1))
    ELSE IF code \in DOMAIN table.rates THEN Ok(table.rates[code]) ELSE BadArguments
Convert(q, from, to, table) ==
    IF from = to THEN Ok(q)
    ELSE LET rates == Collected(<<GetRate(from, table), GetRate(to, table)>>)
         IN  IF rates.ok THEN Ok(Times(Over(q, rates.is[1]), rates.is[2])) ELSE rates
\* fx_rate of the library API, which knows no shortcut for equal codes
FxRate(from, to, table) ==
    LET rates == Collected(<<GetRate(from, table), GetRate(to, table)>>)
    IN  IF rates.ok THEN Ok(Over(rates.is[2], rates.is[1])) ELSE rates
-----------------------------------------------------------------------------
(***************************************************************************)
(* What a conversion is to be.                                             *)
(***************************************************************************)
\* Where water freezes and boils on each scale.
FixedPoints == [C |-> <<<<0, 1>>, <<100, 1>>>>, F |-> <<<<32, 1>>, <<212, 1>>>>,
                K |-> <<<<5463, 20>>, <<7463, 20>>>>, R |-> <<<<49167, 100>>, <<67167, 100>>>>]
OnScale(q, from, to) ==
    LET part == Over(Minus(q, FixedPoints[from][1]), Minus(FixedPoints[from][2], FixedPoints[from][1]))
    IN  Plus(FixedPoints[to][1], Times(part, Minus(FixedPoints[to][2], FixedPoints[to][1])))

Dimension(unit) == IF unit \in TemperatureUnits THEN {"Temperature"} ELSE {u[2] : u \in Lookup(unit)}
UnitNames       == {u[1] : u \in LinearUnits} \cup TemperatureUnits

UnitRight(q, from, to, r) ==
    IF r.ok
    THEN /\ Dimension(from) = Dimension(to) /\ Dimension(from) # {}
         /\ IF from \in TemperatureUnits THEN r.is = OnScale(q, from, to)
            ELSE /\ ConvertValue(r.is, to, from) = Ok(q)
                 /\ \A via \in UnitNames : Dimension(via) = Dimension(from) =>
                       ConvertValue(ConvertValue(q, from, via).is, via, to) = r
    ELSE Dimension(from) # Dimension(to) \/ Dimension(from) = {}

CodesOf(table) == {table.base} \cup DOMAIN table.rates

\* A detour over a third currency changes nothing, and only a currency
\* without a rate refuses.
CurrencyRight(q, from, to, table, r) ==
    IF r.ok
    THEN from # to => /\ {from, to} \subseteq CodesOf(table)
                      /\ \A via \in CodesOf(table) : Convert(Convert(q, from, via, table).is, via, to, table) = r
    ELSE from # to /\ ~({from, to} \subseteq CodesOf(table))

\* The rate is what one unit converts to.
RateRight(from, to, table, r) ==
    IF r.ok THEN r = Convert(Whole(1), from, to, table) ELSE ~({from, to} \subseteq CodesOf(table))
-----------------------------------------------------------------------------
(***************************************************************************)
(* The two FX tools of the server: a budget for studying abroad and prices *)
(* for selling abroad (server/fx_tools.rs over math/fx_scenario.rs).  The  *)
(* handler validates, the calculation validates again; the timer around    *)
(* the blocking task is the one of Server.                                 *)
(***************************************************************************)
CONSTANT CurrencyCodes    \* the texts of three ASCII letters

Missing == "missing"      \* an Option that is None
Between(lo, q, hi) == ~Below(q, lo) /\ ~Below(hi, q)
Positive(q)        == q[1] > 0

\* FxBudgetRequest::validate and FxPricingRequest::validate
ValidBudget(r) ==
    /\ Positive(r.tuition) /\ r.years \in 1 .. 10
    /\ {r.currency, r.home} \subseteq CurrencyCodes
    /\ r.living # Missing => ~Below(r.living, Zero)
ValidPricing(r) ==
    /\ Positive(r.cost) /\ Positive(r.profit) /\ Below(r.profit, Whole(1))
    /\ ~Below(r.platform, Zero) /\ Below(r.platform, Whole(1)) /\ Between(Zero, r.buffer, <<1, 2>>)
    /\ Len(r.currencies) \in 1 .. 10 /\ ToSet(r.currencies) \subseteq CurrencyCodes

BudgetCalculation(r, table) ==
    IF ~Positive(r.tuition) \/ r.years \notin 1 .. 10 THEN BadArguments
    ELSE LET living == IF r.living # Missing /\ Positive(r.living) THEN <<r.living>> ELSE <<>>
             home   == Collected([i \in 1 .. 2 + Len(living) |->
                                    Convert((<<Whole(1), r.tuition>> \o living)[i], r.currency, r.home, table)])
             rate   == home.is[1]
             fees   == home.is[2]
             spent  == Times(home.is[3], Whole(12 * r.years))
             total  == IF living = <<>> THEN fees ELSE Plus(fees, spent)
         IN  IF ~home.ok THEN home
             ELSE Ok([rate |-> rate, tuition |-> fees, annual |-> Over(fees, Whole(r.years)),
                      living |-> IF living = <<>> THEN Missing ELSE spent,
                      total  |-> IF living = <<>> THEN Missing ELSE total,
                      low    |-> Times(total, <<97, 100>>), high |-> Times(total, <<103, 100>>)])

\* Mutant: the price is set at today's rate.
PriceAtRate(r, rate) ==
    Over(Over(Over(r.cost, Minus(Whole(1), r.profit)), rate), Minus(Whole(1), r.platform))
\* The price that covers cost and margin after the platform's share, should
\* the currency lose the safety buffer.
Price(r, rate) ==
    Over(Over(Over(r.cost, Minus(Whole(1), r.profit)), Times(rate, Minus(Whole(1), r.buffer))), Minus(Whole(1), r.platform))

\* One line of the answer, money to the cent.
PricingItem(r, rate) ==
    LET gross  == Times(Price(r, rate), rate)
        fee    == Times(gross, r.platform)
        profit == Minus(Minus(gross, fee), r.cost)
    IN  [price |-> RoundedTo(Price(r, rate), 100), actual |-> RoundedTo(Over(profit, r.cost), 10000),
         profit |-> RoundedTo(profit, 100), fee |-> RoundedTo(fee, 100)]

PricingCalculation(r, table) ==
    IF \/ ~Positive(r.cost) \/ ~Positive(r.profit) \/ ~Below(r.profit, Whole(1))
       \/ Below(r.platform, Zero) \/ ~Below(r.platform, Whole(1)) \/ ~Between(Zero, r.buffer, <<1, 2>>)
       \/ Len(r.currencies) \notin 1 .. 10
    THEN BadArguments
    ELSE LET rates == Collected([i \in DOMAIN r.currencies |-> Convert(Whole(1), r.currencies[i], "CNY", table)])
         IN  IF rates.ok THEN Ok([i \in DOMAIN r.currencies |-> PricingItem(r, rates.is[i])]) ELSE rates

\* run_fx_budget and run_fx_pricing with the table the provider gave, if any
RunFxBudget(r, tables) ==
    IF ~ValidBudget(r) THEN Fail("validation")
    ELSE IF tables = {} THEN Fail("unavailable")
    ELSE LET answer == BudgetCalculation(r, TheOne(tables)) IN IF answer.ok THEN answer ELSE Fail("invalid_input")
RunFxPricing(r, tables) ==
    IF ~ValidPricing(r) THEN Fail("validation")
    ELSE IF tables = {} THEN Fail("unavailable")
    ELSE LET answer == PricingCalculation(r, TheOne(tables)) IN IF answer.ok THEN answer ELSE Fail("invalid_input")
-----------------------------------------------------------------------------
(***************************************************************************)
(* What the tools promise.                                                 *)
(***************************************************************************)
\* The bill, if a foreign unit costs `by` more or less when it is paid.
BillAt(r, rate, by) ==
    LET monthly == IF r.living = Missing THEN Zero ELSE r.living
    IN  Times(Times(Plus(r.tuition, Times(monthly, Whole(12 * r.years))), rate), Plus(Whole(1), by))

BudgetRight(r, tables, answer) ==
    IF ~answer.ok
    THEN CASE answer.is = "invalid_input" -> \E t \in tables : r.currency # r.home /\ ~({r.currency, r.home} \subseteq CodesOf(t))
           [] answer.is = "unavailable"   -> tables = {}
           [] OTHER                       -> ~ValidBudget(r)
    ELSE LET b == answer.is
             t == TheOne(tables)
         IN  /\ Convert(b.tuition, r.home, r.currency, t) = Ok(r.tuition)
             /\ \A by \in {<<-3, 100>>, <<-1, 100>>, Zero, <<3, 100>>} : Between(b.low, BillAt(r, b.rate, by), b.high)
             /\ ~Between(b.low, BillAt(r, b.rate, <<1, 25>>), b.high) /\ ~Between(b.low, BillAt(r, b.rate, <<-1, 25>>), b.high)
             /\ Times(b.annual, Whole(r.years)) = b.tuition
             /\ b.total # Missing => b.total = Plus(b.tuition, b.living)

\* Money on the answer is rounded: p is q up to half a cent, and the price
\* half a cent of the currency.
UpToCents(p, q, rate) == ~Below(Plus(Whole(2), rate), Times(Whole(200), AbsOf(Minus(p, q))))

ItemRight(r, rate, item) ==
    LET worst   == Times(rate, Minus(Whole(1), r.buffer))      \* what a unit may come to be worth
        kept(p) == Times(Times(p, worst), Minus(Whole(1), r.platform))
        goal    == Over(r.cost, Minus(Whole(1), r.profit))
        cent    == <<1, 200>>
        gross   == Times(item.price, rate)
    IN  /\ ~Below(kept(Plus(item.price, cent)), goal) /\ ~Below(goal, kept(Minus(item.price, cent)))
        /\ UpToCents(Plus(Plus(item.profit, item.fee), r.cost), gross, rate)
        /\ UpToCents(item.fee, Times(gross, r.platform), rate)
        /\ ~Below(item.actual, RoundedTo(r.profit, 10000))
PricingRight(r, tables, answer) ==
    IF ~answer.ok
    THEN CASE answer.is = "invalid_input" -> \E t \in tables : ~(ToSet(r.currencies) \cup {"CNY"} \subseteq CodesOf(t))
           [] answer.is = "unavailable"   -> tables = {}
           [] OTHER                       -> ~ValidPricing(r)
    ELSE \A i \in DOMAIN r.currencies : ItemRight(r, Convert(Whole(1), r.currencies[i], "CNY", TheOne(tables)).is, answer.is[i])
=============================================================================
