---------------------------- MODULE NumberTheory ----------------------------
(***************************************************************************)
(* math/number_theory.rs and math/combinatorics.rs, as the scalar part of  *)
(* the library (api/scalar.rs) calls them.                                 *)
(***************************************************************************)
EXTENDS Ast

CONSTANTS
    MaxSieve,      \* MAX_SIEVE_N
    MaxCount,      \* MAX_PERMUTATION_K, MAX_COMBINATION_K
    MaxTable       \* MAX_CATALAN_N, MAX_STIRLING_N

ASSUME LimitsAssumption == {MaxSieve, MaxCount, MaxTable} \subseteq Nat

ModInverse(a, m) ==
    IF m = 0 THEN DivByZero
    ELSE LET found == ModInverseImpl(a, Magnitude(m)) IN
         IF found = {} THEN BadArguments ELSE Ok(CHOOSE x \in found : TRUE)

ModPow(base, exp, m) ==
    IF m = 0 THEN DivByZero
    ELSE IF exp < 0 THEN BadArguments
    ELSE Ok(ModPowImpl(base, exp, Magnitude(m)))
-----------------------------------------------------------------------------
\* Miller-Rabin with the bases of the code.
Bases == <<2, 3, 5, 7, 11, 13, 17, 19, 23, 29, 31, 37>>

RECURSIVE TwosIn(_)
TwosIn(d) == IF d % 2 = 0 THEN 1 + TwosIn(d \div 2) ELSE 0

RECURSIVE Squared(_, _, _)
Squared(x, times, n) == IF times = 0 THEN x ELSE Squared((x * x) % n, times - 1, n)

\* n passes for base a: a^d is 1, or -1 after fewer than r squarings
Witness(a, n) ==
    LET r == TwosIn(n - 1)
        x == ModPowImpl(a, (n - 1) \div 2 ^ r, n)
    IN  x = 1 \/ \E i \in 0 .. r - 1 : Squared(x, i, n) = n - 1

IsPrimeU64(n) == \A i \in DOMAIN Bases : Bases[i] >= n \/ Witness(Bases[i], n)

\* beyond u64 the same bases, and 13 more
ExtraBase(i) == Bases[(i % Len(Bases)) + 1] + i * 1000
IsPrime(n) ==
    CASE n < 2     -> FALSE
      [] n = 2     -> TRUE
      [] n % 2 = 0 -> FALSE
      [] OTHER     -> IsPrimeU64(n) /\ (n >= 2 * Wide => \A i \in 0 .. 12 : ExtraBase(i) >= n \/ Witness(ExtraBase(i), n))

PrimeSieve(n) ==
    IF n < 0 THEN BadArguments
    ELSE IF n > MaxSieve THEN Overflow
    ELSE LET kept == Sieve[<<2 .. n, 2, n>>] IN Ok(SelectSeq([i \in 1 .. n |-> i], LAMBDA i : i \in kept))

RECURSIVE WithoutFactor(_, _)
WithoutFactor(m, p) == IF m % p = 0 THEN WithoutFactor(m \div p, p) ELSE m

RECURSIVE PhiFrom(_, _, _)
PhiFrom(result, m, p) ==
    IF p * p > m THEN (IF m > 1 THEN result - result \div m ELSE result)
    ELSE LET next == IF p = 2 THEN 3 ELSE p + 2 IN
         IF m % p = 0 THEN PhiFrom(result - result \div p, WithoutFactor(m, p), next)
         ELSE PhiFrom(result, m, next)
EulerPhi(n) == IF n = 0 THEN 0 ELSE PhiFrom(Magnitude(n), Magnitude(n), 2)
-----------------------------------------------------------------------------
\* sqrt_bigint: Newton from the f64 root of what fits a u64
RECURSIVE Descend(_, _)
Descend(n, x) == LET y == (x + n \div x) \div 2 IN IF y >= x THEN x ELSE Descend(n, y)
RootBelow(n) == CHOOSE x \in 0 .. n : x * x <= n /\ n < (x + 1) * (x + 1)
Isqrt(n) ==
    IF n < 2 THEN n
    ELSE LET x == Descend(n, RootBelow(IF n < 2 * Wide THEN n ELSE 2 * Wide - 1))
         IN  CHOOSE y \in 0 .. x : y * y <= n /\ \A z \in y + 1 .. x : z * z > n

\* baby steps and giant steps; of equal powers the table keeps the last
DiscreteLog(g, h, p) ==
    IF p = 0 THEN DivByZero
    ELSE IF ~IsPrime(p) \/ g = 0 THEN BadArguments
    ELSE LET m        == Isqrt(p) + 1
             baby(j)  == ModPowImpl(g, j, p)
             inverse  == ModInverseImpl(ModPowImpl(g, m, p), p)
             giant(i) == (Normal(h, p) * ModPowImpl(CHOOSE x \in inverse : TRUE, i, p)) % p
             steps    == 0 .. m - 1
             met      == {i \in steps : \E j \in steps : baby(j) = giant(i)}
         IN  IF inverse = {} \/ met = {} THEN BadArguments
             ELSE LET i == Min(met) IN Ok(i * m + Max({j \in steps : baby(j) = giant(i)}))
-----------------------------------------------------------------------------
Perm(n, k) ==
    CASE k = 0 -> Ok(1)
      [] k > n -> Ok(0)
      [] OTHER -> IF k \notin 0 .. MaxCount THEN Overflow ELSE Ok(Falling[<<n, k, FALSE>>])
Comb(n, k) ==
    CASE k = 0 \/ k = n -> Ok(1)
      [] k > n          -> Ok(0)
      [] OTHER          -> LET few == IF k < n - k THEN k ELSE n - k
                           IN  IF few \notin 0 .. MaxCount THEN Overflow ELSE Ok(Falling[<<n, few, TRUE>>])
Catalan(n) ==
    IF n = 0 THEN Ok(1)
    ELSE IF n \notin 0 .. MaxTable THEN Overflow
    ELSE LET c == Comb(2 * n, n) IN IF c.ok THEN Ok(c.is \div (n + 1)) ELSE c

\* The tables of both kinds: what an entry takes from the one above.
RECURSIVE StirlingEntry(_, _, _)
StirlingEntry(kind, i, j) ==
    IF i = 0 THEN (IF j = 0 THEN 1 ELSE 0)
    ELSE IF j = 0 \/ j > i THEN 0
    ELSE StirlingEntry(kind, i - 1, j - 1)
         + (IF kind = "first" THEN i - 1 ELSE j) * StirlingEntry(kind, i - 1, j)
Stirling(kind, n, k) ==
    CASE n = 0 /\ k = 0                  -> Ok(1)
      [] (n = 0 \/ k = 0 \/ k > n) /\ ~(n = 0 /\ k = 0) -> Ok(0)
      [] OTHER -> IF n \notin 0 .. MaxTable \/ k < 0 THEN Overflow ELSE Ok(StirlingEntry(kind, n, k))
-----------------------------------------------------------------------------
\* ScalarMathImpl
IntegerAnswer(fn, a) ==
    CASE fn = "gcd"         -> Ok(GcdOf(a[1], a[2]))
      [] fn = "lcm"         -> Ok(LcmOf(a[1], a[2]))
      [] fn = "is_prime"    -> Ok(IF IsPrime(a[1]) THEN 1 ELSE 0)
      [] fn = "prime_sieve" -> PrimeSieve(a[1])
      [] fn = "mod_pow"     -> ModPow(a[1], a[2], a[3])
      [] fn = "mod_inverse" -> ModInverse(a[1], a[2])
      [] fn = "euler_phi"   -> Ok(EulerPhi(a[1]))
      [] fn = "crt"         -> Crt(a[1], a[2])
      [] fn = "discrete_log" -> DiscreteLog(a[1], a[2], a[3])
      [] fn = "perm"        -> Perm(a[1], a[2])
      [] fn = "comb"        -> Comb(a[1], a[2])
      [] fn = "catalan"     -> Catalan(a[1])
      [] fn = "stirling_first"  -> Stirling("first", a[1], a[2])
      [] fn = "stirling_second" -> Stirling("second", a[1], a[2])
-----------------------------------------------------------------------------
(***************************************************************************)
(* What they are to be, by definition.                                     *)
(***************************************************************************)
Divides(d, n)    == d # 0 /\ Rem(n, d) = 0
Prime(n)         == n > 1 /\ \A d \in 2 .. n - 1 : d * d <= n => n % d # 0
Congruent(x, y, m) == Divides(m, x - y)
Solves(x, rs, ms)  == \A i \in DOMAIN rs : Congruent(x, rs[i], ms[i])
Factorial(n) == Cardinality(Bijection(1 .. n, 1 .. n))
Onto(n, k)   == {f \in [1 .. n -> 1 .. k] : \A j \in 1 .. k : \E i \in 1 .. n : f[i] = j}
CyclesOf(p)  ==
    {c \in SUBSET DOMAIN p : c # {} /\ {p[i] : i \in c} = c
        /\ \A s \in SUBSET c \ {{}, c} : {p[i] : i \in s} # s}
Dyck(n) == {w \in [1 .. 2 * n -> {-1, 1}] :
                    LET height(i) == FoldFunctionOnSet(+, 0, w, 1 .. i)
                    IN  height(2 * n) = 0 /\ \A i \in 1 .. 2 * n : height(i) >= 0}

IntegerRight(fn, a, r) ==
    CASE fn = "gcd" ->
            IF a[1] = 0 /\ a[2] = 0 THEN r = Ok(0)
            ELSE LET common == {d \in 1 .. Magnitude(a[1]) + Magnitude(a[2]) : Divides(d, a[1]) /\ Divides(d, a[2])}
                 IN  r = Ok(Max(common))
      [] fn = "lcm" ->
            IF a[1] * a[2] = 0 THEN r = Ok(0)
            ELSE r = Ok(Min({m \in 1 .. Magnitude(a[1] * a[2]) : Divides(a[1], m) /\ Divides(a[2], m)}))
      [] fn = "is_prime"    -> r = Ok(IF Prime(a[1]) THEN 1 ELSE 0)
      [] fn = "prime_sieve" ->
            IF r.ok THEN /\ ToSet(r.is) = {n \in 0 .. a[1] : Prime(n)}
                         /\ \A i \in 1 .. Len(r.is) - 1 : r.is[i] < r.is[i + 1]
            ELSE a[1] < 0 \/ a[1] > MaxSieve
      [] fn = "mod_pow"     ->
            IF r.ok THEN r.is = Pow(a[1], a[2], Magnitude(a[3])) ELSE a[3] = 0 \/ a[2] < 0
      [] fn = "mod_inverse" ->
            LET inverses == {x \in 0 .. Magnitude(a[2]) - 1 : Congruent(a[1] * x, 1, a[2])}
            IN  IF r.ok THEN {r.is} = inverses ELSE inverses = {}
      [] fn = "euler_phi"   ->
            r = Ok(Cardinality({i \in 1 .. Magnitude(a[1]) : GcdOf(i, a[1]) = 1}))
      [] fn = "crt" ->
            IF r.ok THEN Solves(r.is, a[1], a[2]) /\ \A x \in 0 .. r.is - 1 : ~Solves(x, a[1], a[2])
            ELSE \/ a[1] = <<>> \/ Len(a[1]) # Len(a[2]) \/ 0 \in ToSet(a[2])
                 \/ \A x \in 0 .. Magnitude(FoldLeft(LAMBDA u, v : u * v, 1, a[2])) : ~Solves(x, a[1], a[2])
      [] fn = "discrete_log" ->
            LET logs   == {x \in 0 .. a[3] : Congruent(Pow(a[1], x, a[3]), a[2], a[3])}
                repeat == \E x \in 1 .. a[3] : x * x <= a[3] /\ Congruent(Pow(a[1], x, a[3]), 1, a[3])
            IN  IF r.ok THEN r.is \in logs /\ (repeat \/ r.is = Min(logs))
                ELSE ~Prime(a[3]) \/ Divides(a[3], a[1]) \/ logs = {} \/ a[3] >= 2 * Wide
      [] fn = "perm" -> IF r.ok THEN r.is = Cardinality(Injection(1 .. a[2], 1 .. a[1])) ELSE a[2] > MaxCount
      [] fn = "comb" -> IF r.ok THEN r.is = Cardinality(kSubset(a[2], 1 .. a[1])) ELSE Min({a[2], a[1] - a[2]}) > MaxCount
      [] fn = "catalan" -> IF r.ok THEN r.is = Cardinality(Dyck(a[1])) ELSE a[1] > MaxTable \/ a[1] > MaxCount
      [] fn = "stirling_first" ->
            IF r.ok THEN r.is = Cardinality({p \in Bijection(1 .. a[1], 1 .. a[1]) : Cardinality(CyclesOf(p)) = a[2]})
            ELSE a[1] > MaxTable
      [] fn = "stirling_second" ->
            IF r.ok THEN r.is * Factorial(a[2]) = Cardinality(Onto(a[1], a[2])) ELSE a[1] > MaxTable
-----------------------------------------------------------------------------
(***************************************************************************)
(* The number theory and combinatorics domains (domains/number_theory.rs,  *)
(* domains/combinatorics.rs): expressions over exact integers.  A result   *)
(* that fits an i64 goes out as an f64, a larger one as it is.             *)
(***************************************************************************)
CONSTANTS
    Vars,              \* EvalContext.vars: name -> rational
    MaxPowExponent,    \* MAX_POW_EXPONENT
    MaxPowBits         \* MAX_POW_OUTPUT_BITS

ASSUME PowAssumption == {MaxPowExponent, MaxPowBits} \subseteq Nat /\ DOMAIN Vars \subseteq STRING

\* an f64 in the place of an integer; 2^63 passes the test and saturates
ReadInteger(q) ==
    IF ~IsInteger(q) THEN BadArguments
    ELSE IF Magnitude(q[1]) > Wide THEN Overflow
    ELSE Ok(Min({q[1], Wide - 1}))

ScalarResult(q)    == [shape |-> "scalar", value |-> q]
BigResult(i)       == [shape |-> "big", value |-> <<i, 1>>]
VectorResult(s)    == [shape |-> "vector", value |-> s]
IntegerResult(i)   == IF InI64(i) THEN ScalarResult(<<AsF64(i), 1>>) ELSE BigResult(i)
ToInteger(r) ==
    CASE r.shape = "scalar" -> ReadInteger(r.value)
      [] r.shape = "big"    -> Ok(r.value[1])
      [] r.shape = "vector" -> BadArguments

RECURSIVE BitsOf(_)
BitsOf(i) == IF i = 0 THEN 0 ELSE 1 + BitsOf(i \div 2)

\* check_pow_output_size: a base of so many bits to the n-th power
PowTooLarge(bits, n) == bits * n > MaxPowBits

IntegerBinary(op, a, b) ==
    CASE op = "+" -> Ok(a + b)
      [] op = "-" -> Ok(a - b)
      [] op = "*" -> Ok(a * b)
      [] op \in {"/", "mod"} -> IF b = 0 THEN DivByZero ELSE Ok(IF op = "/" THEN Quo(a, b) ELSE Rem(a, b))
      [] op = "^" -> IF b < 0 \/ b > MaxPowExponent \/ PowTooLarge(BitsOf(Magnitude(a)), b)
                     THEN BadArguments ELSE Ok(IF b = 0 THEN 1 ELSE a ^ b)

\* arities; the combinatorics domain wants its arguments non-negative
Arity(name) == IF name \in {"is_prime", "prime_sieve", "euler_phi", "catalan"} THEN 1
               ELSE IF name = "mod_pow" THEN 3 ELSE 2
FunctionsOfDomain(d) ==
    IF d = "number_theory" THEN {"gcd", "lcm", "is_prime", "prime_sieve", "mod_inverse", "mod_pow", "euler_phi"}
    ELSE {"P", "C", "catalan", "stirling"}
DomainFor(e) == IF FunctionsOf(e, {}) \cap FunctionsOfDomain("number_theory") # {} THEN "number_theory" ELSE "combinatorics"
LibraryName(name) == CASE name = "P" -> "perm" [] name = "C" -> "comb" [] name = "stirling" -> "stirling_second" [] OTHER -> name

NumberTheoryCall(name, args) ==
    AndThen(IntegerAnswer(name, args), LAMBDA v : Ok(IF name = "prime_sieve" THEN VectorResult(v) ELSE IntegerResult(v)))
CombinatoricsCall(name, args) ==
    IF \E i \in DOMAIN args : args[i] < 0 THEN BadArguments
    ELSE AndThen(IntegerAnswer(LibraryName(name), args), LAMBDA v : Ok(IntegerResult(v)))
CallResult(d, name, args) ==
    IF ~args.ok THEN args ELSE IF d = "combinatorics" THEN CombinatoricsCall(name, args.is) ELSE NumberTheoryCall(name, args.is)

RECURSIVE EvalInt(_, _), EvalNode(_, _)
EvalInt(d, e) ==
    CASE e.kind = "number"    -> ReadInteger(e.num)
      [] e.kind = "bignumber" -> Ok(e.num[1])
      [] e.kind = "variable"  -> IF e.head \in DOMAIN Vars THEN ReadInteger(Vars[e.head]) ELSE Fail("eval")
      [] e.kind = "neg"       -> LET v == EvalInt(d, e.kids[1]) IN IF v.ok THEN Ok(-v.is) ELSE v
      [] e.kind = "binary"    ->
            LET both == Collected([i \in 1 .. 2 |-> EvalInt(d, e.kids[i])])
            IN  IF both.ok THEN IntegerBinary(e.head, both.is[1], both.is[2]) ELSE both
      [] e.kind = "call" /\ d = "number_theory" ->
            LET r == EvalNode(d, e) IN IF r.ok THEN ToInteger(r.is) ELSE r
      [] OTHER                -> BadArguments

EvalNode(d, e) ==
    CASE e.kind = "call" ->
            IF e.head \notin FunctionsOfDomain(d) \/ Len(e.kids) # Arity(e.head) THEN BadArguments
            ELSE CallResult(d, e.head, Collected([i \in DOMAIN e.kids |-> EvalInt(d, e.kids[i])]))
      [] e.kind = "number"    -> IF IsInteger(e.num) THEN Ok(ScalarResult(e.num)) ELSE BadArguments
      [] e.kind = "bignumber" -> Ok(BigResult(e.num[1]))
      [] e.kind = "variable"  -> IF e.head \in DOMAIN Vars THEN Ok(ScalarResult(Vars[e.head])) ELSE Fail("eval")
      [] e.kind \in {"binary", "neg"} ->
            LET v == EvalInt(d, e) IN IF v.ok THEN Ok(IntegerResult(v.is)) ELSE v
      [] OTHER                -> BadArguments
NumberTheoryDomain(e)  == EvalNode("number_theory", e)
CombinatoricsDomain(e) == EvalNode("combinatorics", e)
-----------------------------------------------------------------------------
\* The exact integer an expression stands for, or a failure.  The result of a
\* call that fits an i64 is the nearest f64; nothing else is rounded.
ResultOfCall(i) == IF InI64(i) THEN Min({AsF64(i), Wide - 1}) ELSE i
RECURSIVE ExactInteger(_)
ExactInteger(e) ==
    CASE e.kind \in {"number", "bignumber"} -> IF IsInteger(e.num) THEN Ok(e.num[1]) ELSE BadArguments
      [] e.kind = "variable" -> IF e.head \in DOMAIN Vars /\ IsInteger(Vars[e.head]) THEN Ok(Vars[e.head][1]) ELSE BadArguments
      [] e.kind = "neg"      -> LET v == ExactInteger(e.kids[1]) IN IF v.ok THEN Ok(-v.is) ELSE v
      [] OTHER ->
            LET args == Collected([i \in DOMAIN e.kids |-> ExactInteger(e.kids[i])])
            IN  IF ~args.ok THEN args
                ELSE IF e.kind = "binary" THEN IntegerBinary(e.head, args.is[1], args.is[2])
                ELSE AndThen(IntegerAnswer(LibraryName(e.head), args.is),
                             LAMBDA v : Ok(IF e.head = "prime_sieve" THEN v ELSE ResultOfCall(v)))
DomainRight(e, r) ==
    LET exact   == ExactInteger(e)
        inner   == NodesOutside(e, {}) \ {e}
        foreign == \E n \in inner : n.kind = "call" /\ (DomainFor(e) = "combinatorics" \/ DomainFor(n) = "combinatorics")
    IN  IF r.ok THEN exact.ok /\ r.is.value = CASE r.is.shape = "vector" -> exact.is
                                                   [] r.is.shape = "big"    -> <<exact.is, 1>>
                                                   [] OTHER                 -> <<AsF64(exact.is), 1>>
        ELSE \/ ~exact.ok \/ foreign
             \/ DomainFor(e) = "combinatorics" /\ \E n \in inner : ExactInteger(n).is < 0
=============================================================================
