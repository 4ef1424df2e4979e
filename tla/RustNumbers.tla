----------------------------- MODULE RustNumbers -----------------------------
(***************************************************************************)
(* Integers and outcomes as the algorithms use them: Rust's division and   *)
(* remainder truncate towards zero, an i64 ends at Wide (2^63 in the code, *)
(* small here), and a function returns a value or one of CalcError's       *)
(* kinds.                                                                  *)
(***************************************************************************)
EXTENDS Integers, SequencesExt

CONSTANTS
    MaxExact,     \* integers up to here are exact in an f64: 2^53 in the code
    Wide          \* the first integer an i64 does not hold: 2^63 in the code

ASSUME NumbersAssumption == MaxExact \in Nat \ {0} /\ Wide \in Nat /\ MaxExact < Wide

Magnitude(i) == IF i < 0 THEN -i ELSE i
Sign(i)      == IF i < 0 THEN -1 ELSE IF i > 0 THEN 1 ELSE 0

\* BigInt's gcd, of the magnitudes; the least common multiple of it
Gcd[p \in Nat \X Nat] == IF p[2] = 0 THEN p[1] ELSE Gcd[<<p[2], p[1] % p[2]>>]
GcdOf(a, b) == Gcd[<<Magnitude(a), Magnitude(b)>>]
LcmOf(a, b) == IF a = 0 \/ b = 0 THEN 0 ELSE Magnitude(a) * (Magnitude(b) \div GcdOf(a, b))

\* The rational n/d in lowest terms, d # 0.
Divided(n, d, g) == <<Sign(d) * (n \div g), Magnitude(d) \div g>>
Ratio(n, d)      == Divided(n, d, GcdOf(n, d))
Zero         == <<0, 1>>
IsInteger(q) == q[2] = 1

\* a BigNumber read into an f64: above MaxExact every other integer exists,
\* and of the two next to it the one with an even significand is taken
HalfEven(i) == IF i % 4 = 3 THEN i + 1 ELSE i - (i % 2)
Rounded(q)  == IF q[1] > MaxExact THEN <<HalfEven(q[1]), 1>> ELSE q

Ok(v)     == [ok |-> TRUE, is |-> v]
Fail(why) == [ok |-> FALSE, is |-> why]
Overflow     == Fail("overflow")
DivByZero    == Fail("division_by_zero")
BadArguments == Fail("domain")

\* a / b, a % b and ((a % m) + m) % m
Quo(a, b)    == Sign(a) * Sign(b) * (Magnitude(a) \div Magnitude(b))
Rem(a, b)    == a - b * Quo(a, b)
Normal(a, m) == Rem(Rem(a, m) + m, m)

\* of <<a, b>>: <<g, x, y>> with a*x + b*y = g
ExtendedGcd[p \in Int \X Int] ==
    IF p[2] = 0 THEN <<p[1], 1, 0>>
    ELSE LET e == ExtendedGcd[<<p[2], Rem(p[1], p[2])>>] IN <<e[1], e[3], e[2] - Quo(p[1], p[2]) * e[3]>>

\* Mutant: a negative a keeps its sign.
ModInverseSigned(a, m) ==
    LET e == ExtendedGcd[<<Rem(a, m), m>>] IN IF e[1] # 1 THEN {} ELSE {Rem(e[2], m)}
\* the inverse of a, if there is one
ModInverseImpl(a, m) ==
    LET e == ExtendedGcd[<<Normal(a, m), m>>] IN IF e[1] # 1 THEN {} ELSE {Normal(e[2], m)}

\* square and multiply: the loop from <<result, base, exp, m>> on
SquareMultiply[s \in Int \X Int \X Nat \X (Nat \ {0})] ==
    IF s[3] = 0 THEN s[1]
    ELSE SquareMultiply[<<IF s[3] % 2 = 1 THEN (s[1] * s[2]) % s[4] ELSE s[1], (s[2] * s[2]) % s[4], s[3] \div 2, s[4]>>]
ModPowImpl(base, exp, m) == IF m = 1 THEN 0 ELSE SquareMultiply[<<1, Normal(base, m), exp, m>>]

\* b to the power e modulo m, by definition
Powers[s \in Int \X Nat \X (Nat \ {0})] == IF s[2] = 0 THEN 1 % s[3] ELSE (Powers[<<s[1], s[2] - 1, s[3]>>] * (s[1] % s[3])) % s[3]
Pow(b, e, m) == Powers[<<b, e, m>>]

\* Chinese remainders: congruences are merged into <<r, m>> one by one.
CrtStep(cur, next) ==
    IF ~cur.ok THEN cur
    ELSE LET r    == cur.is[1]
             m    == cur.is[2]
             mi   == Magnitude(next[2])
             diff == Normal(next[1], next[2]) - r
             e    == ExtendedGcd[<<m, mi>>]
             lcm  == (m \div e[1]) * mi
         IN  IF Rem(diff, e[1]) # 0 THEN BadArguments
             ELSE Ok(<<Normal(r + m * Rem(Quo(diff, e[1]) * e[2], mi), lcm), lcm>>)
MergedUpTo(rs, ms) ==
    LET merged[i \in 1 .. Len(rs)] ==
            IF i = 1 THEN Ok(<<Normal(rs[1], ms[1]), Magnitude(ms[1])>>) ELSE CrtStep(merged[i - 1], <<rs[i], ms[i]>>)
    IN  merged
Crt(rs, ms) ==
    IF rs = <<>> \/ Len(rs) # Len(ms) \/ \E i \in DOMAIN ms : ms[i] = 0 THEN BadArguments
    ELSE LET merged == MergedUpTo(rs, ms)[Len(rs)] IN IF merged.ok THEN Ok(merged.is[1]) ELSE merged

\* n * (n - 1) * .. over k factors, of <<n, k, divided>>: divided by 1, 2, ..
\* on the way, if asked
Falling[s \in Int \X Nat \X BOOLEAN] ==
    IF s[2] = 0 THEN 1
    ELSE LET done == Falling[<<s[1], s[2] - 1, s[3]>>] * (s[1] - s[2] + 1) IN IF s[3] THEN done \div s[2] ELSE done

\* The sieve of Eratosthenes, from i on: <<candidates, i, n>>.
StruckOut(candidates, i, n) == candidates \ {j \in i * i .. n : (j - i * i) % i = 0}
Sieve[s \in (SUBSET Nat) \X (Nat \ {0}) \X Nat] ==
    IF s[2] * s[2] > s[3] THEN s[1]
    ELSE Sieve[<<IF s[2] \in s[1] THEN StruckOut(s[1], s[2], s[3]) ELSE s[1], s[2] + 1, s[3]>>]

\* an exact integer read into an f64
AsF64(i) == Sign(i) * (IF Magnitude(i) > MaxExact THEN HalfEven(Magnitude(i)) ELSE Magnitude(i))
InI64(i) == -Wide <= i /\ i < Wide

\* f64 arithmetic on rationals
\* (reduced before they are multiplied: TLC's integers are small)
Across(p, q, d) == Ratio(p[1] * d[2] + q[1] * d[1], p[2] * d[2])
Product(a, b) == <<a[1] * b[1], a[2] * b[2]>>
Plus(p, q)   == Across(p, q, Ratio(p[2], q[2]))
Minus(p, q)  == Plus(p, <<-q[1], q[2]>>)
Times(p, q)  == Product(Ratio(p[1], q[2]), Ratio(q[1], p[2]))
Over(p, q)   == Product(Ratio(p[1], q[1]), Ratio(q[2], p[2]))
Below(p, q)  == p[1] * q[2] < q[1] * p[2]
Whole(i)     == <<i, 1>>
AbsOf(q)     == <<Magnitude(q[1]), q[2]>>
Raised(q, n) == <<q[1] ^ n, q[2] ^ n>>
Power(q, n)  == IF n = 0 THEN Whole(1) ELSE IF n > 0 THEN Raised(q, n) ELSE Over(Whole(1), Raised(q, -n))
\* (q * grid).round() / grid: to the nearest, halves away from zero
RoundedTo(q, grid) == Ratio(Sign(q[1]) * ((2 * Magnitude(q[1]) * grid + q[2]) \div (2 * q[2])), grid)

TheOne(s) == CHOOSE x \in s : TRUE

\* f itself, its values written out: TLC evaluates each of them once
WrittenOut(f) == CHOOSE g \in {f} : g = f

\* the ? of Rust: the next step is taken with the value, a failure is returned
AndThen(outcome, Step(_)) == IF outcome.ok THEN Step(outcome.is) ELSE outcome

\* The outcomes of a sequence: all their values, or the first failure.
Collected(outcomes) ==
    LET bad == {i \in DOMAIN outcomes : ~outcomes[i].ok}
    IN  IF bad = {} THEN Ok([i \in DOMAIN outcomes |-> outcomes[i].is])
        ELSE outcomes[CHOOSE i \in bad : \A j \in bad : i <= j]
=============================================================================
