--------------------------- MODULE Arithmetic_proofs ---------------------------
(***************************************************************************)
(* What is proved of the pure algorithms, for every input: Rust's division *)
(* and remainder, Euclid's algorithm, modular inverses and powers, the     *)
(* Chinese remainders, the sieve, common divisors and multiples, the exact *)
(* rationals of the precision domain, the rounding of integers into f64    *)
(* and to decimals, permutations and combinations, and sequences of        *)
(* outcomes.                                                               *)
(*                                                                         *)
(* Each of the recursive ones calls itself once, on something smaller. So  *)
(* one lemma (Recursion) shows that such definitions have a function, and  *)
(* one (ByMeasure) lets a property of its values be shown of each from     *)
(* those of the smaller ones; both rest on every set of naturals having a  *)
(* least element.                                                          *)
(***************************************************************************)
EXTENDS RustNumbers, TLAPS, WellFoundedInduction

-----------------------------------------------------------------------------
(* Induction and recursion, over sets and functions.                       *)

\* Every set of natural numbers has a least element.
LEMMA LeastOf ==
    ASSUME NEW S \in SUBSET Nat, S # {}
    PROVE  \E m \in S : \A k \in S : m <= k
<1> DEFINE R == OpToRel(<, Nat)
<1>1. IsWellFoundedOn(R, Nat)
  BY NatLessThanWellFounded
<1> HIDE DEF R
<1>2. PICK m \in S : \A k \in S : ~(<<k, m>> \in R)
  BY <1>1, WFMin
<1>3. \A k \in S : ~(k < m)
  BY <1>2 DEF R, OpToRel
<1> QED BY <1>3

\* A set with each element whose smaller ones it has is everything.
LEMMA ByMeasure ==
    ASSUME NEW S, NEW size \in [S -> Nat], NEW G \in SUBSET S,
           \A x \in S : (\A y \in S : size[y] < size[x] => y \in G) => x \in G
    PROVE  G = S
<1> SUFFICES ASSUME G # S PROVE FALSE
  OBVIOUS
<1> DEFINE W == {size[x] : x \in S \ G}
<1>1. W \in SUBSET Nat /\ W # {}
  OBVIOUS
<1>2. PICK n \in W : \A k \in W : n <= k
  BY <1>1, LeastOf
<1>3. PICK x \in S \ G : n = size[x]
  BY <1>2
<1>4. ASSUME NEW y \in S, size[y] < size[x] PROVE y \in G
  <2>1. SUFFICES ASSUME y \notin G PROVE FALSE
    OBVIOUS
  <2>2. size[y] \in W
    BY <2>1
  <2>3. n <= size[y] /\ size[y] \in Nat /\ size[x] \in Nat
    BY <1>2, <2>2
  <2> QED BY <1>3, <1>4, <2>3
<1> QED BY <1>3, <1>4

\* A set with 0 and the successor of each of its elements has them all.
LEMMA AllNaturals ==
    ASSUME NEW S \in SUBSET Nat, 0 \in S, \A n \in S : n + 1 \in S
    PROVE  S = Nat
<1>1. SUFFICES ASSUME S # Nat PROVE FALSE
  OBVIOUS
<1>2. PICK m \in Nat \ S : \A k \in Nat \ S : m <= k
  BY <1>1, LeastOf
<1>3. m - 1 \in Nat /\ m - 1 \in S
  BY <1>2
<1> QED BY <1>2, <1>3

\* A recursive definition that calls itself once, on something smaller: what
\* it recurs on, and what it makes of the answer.
Recursive(S, T, size, Base, next, start, comb) ==
    /\ size \in [S -> Nat] /\ Base \in SUBSET S
    /\ next \in [S \ Base -> S] /\ start \in [Base -> T] /\ comb \in [S \ Base -> [T -> T]]
    /\ \A x \in S \ Base : size[next[x]] < size[x]
Unfolded(f, x, Base, next, start, comb) == IF x \in Base THEN start[x] ELSE comb[x][f[next[x]]]
\* f is that function for what is smaller than n.
RightUpTo(f, n, S, size, Base, next, start, comb) ==
    \A x \in S : size[x] < n => f[x] = Unfolded(f, x, Base, next, start, comb)

\* Two functions that are right for what is smaller than n agree there.
LEMMA OneFunction ==
    ASSUME NEW S, NEW T, NEW size, NEW Base, NEW next, NEW start, NEW comb,
           Recursive(S, T, size, Base, next, start, comb),
           NEW n \in Nat, NEW f \in [S -> T], NEW g \in [S -> T],
           RightUpTo(f, n, S, size, Base, next, start, comb),
           RightUpTo(g, n, S, size, Base, next, start, comb)
    PROVE  \A x \in S : size[x] < n => f[x] = g[x]
<1> DEFINE G == {x \in S : size[x] < n => f[x] = g[x]}
<1> USE DEF Recursive
<1>1. ASSUME NEW x \in S, \A y \in S : size[y] < size[x] => y \in G
      PROVE  x \in G
  <2>1. SUFFICES ASSUME size[x] < n PROVE f[x] = g[x]
    OBVIOUS
  <2>2. CASE x \in Base
    BY <2>1, <2>2 DEF Unfolded, RightUpTo
  <2>3. CASE x \notin Base
    <3>1. next[x] \in S /\ size[next[x]] < size[x] /\ size[next[x]] \in Nat /\ size[x] \in Nat
      BY <2>3
    <3>2. f[next[x]] = g[next[x]]
      BY <1>1, <2>1, <3>1
    <3> QED BY <2>1, <2>3, <3>2 DEF Unfolded, RightUpTo
  <2> QED BY <2>2, <2>3
<1>2. G \in SUBSET S /\ size \in [S -> Nat]
  OBVIOUS
<1> HIDE DEF G
<1>3. G = S
  BY <1>1, <1>2, ByMeasure
<1> QED BY <1>3 DEF G

\* There is a function that is right for what is smaller than n.
LEMMA FunctionUpTo ==
    ASSUME NEW S, NEW T, NEW some \in T, NEW size, NEW Base, NEW next, NEW start, NEW comb,
           Recursive(S, T, size, Base, next, start, comb), NEW n \in Nat
    PROVE  \E f \in [S -> T] : RightUpTo(f, n, S, size, Base, next, start, comb)
<1> DEFINE A == {k \in Nat : \E f \in [S -> T] : RightUpTo(f, k, S, size, Base, next, start, comb)}
<1> USE DEF Recursive
<1>1. 0 \in A
  <2>1. [x \in S |-> some] \in [S -> T]
    OBVIOUS
  <2>2. RightUpTo([x \in S |-> some], 0, S, size, Base, next, start, comb)
    BY DEF RightUpTo
  <2> QED BY <2>1, <2>2
<1>2. ASSUME NEW k \in A PROVE k + 1 \in A
  <2>1. PICK f \in [S -> T] : RightUpTo(f, k, S, size, Base, next, start, comb)
    BY <1>2
  <2> DEFINE g == [x \in S |-> IF size[x] < k THEN f[x] ELSE Unfolded(f, x, Base, next, start, comb)]
  <2>2. g \in [S -> T]
    <3>1. ASSUME NEW x \in S PROVE Unfolded(f, x, Base, next, start, comb) \in T
      BY DEF Unfolded
    <3> QED BY <3>1
  <2>3. ASSUME NEW x \in S, size[x] < k + 1
        PROVE  g[x] = Unfolded(g, x, Base, next, start, comb)
    <3>1. g[x] = Unfolded(f, x, Base, next, start, comb)
      BY <2>1 DEF RightUpTo
    <3>2. CASE x \in Base
      BY <3>1, <3>2 DEF Unfolded
    <3>3. CASE x \notin Base
      <4>1. next[x] \in S /\ size[next[x]] < k
        <5>1. next[x] \in S /\ size[next[x]] < size[x] /\ size[next[x]] \in Nat /\ size[x] \in Nat /\ k \in Nat
          BY <3>3
        <5> QED BY <2>3, <5>1
      <4>2. g[next[x]] = f[next[x]]
        BY <4>1
      <4> HIDE DEF g
      <4> QED BY <3>1, <3>3, <4>2 DEF Unfolded
    <3> QED BY <3>2, <3>3
  <2> HIDE DEF g
  <2>4. RightUpTo(g, k + 1, S, size, Base, next, start, comb)
    BY <2>3 DEF RightUpTo
  <2> QED BY <2>2, <2>4
<1>3. A \in SUBSET Nat
  OBVIOUS
<1> HIDE DEF A
<1>4. A = Nat
  BY <1>1, <1>2, <1>3, AllNaturals
<1> QED BY <1>4 DEF A

\* A definition that calls itself once, on something smaller, has a function.
LEMMA Recursion ==
    ASSUME NEW S, NEW T, NEW some \in T, NEW size, NEW Base, NEW next, NEW start, NEW comb,
           Recursive(S, T, size, Base, next, start, comb)
    PROVE  \E f \in [S -> T] : \A x \in S : f[x] = Unfolded(f, x, Base, next, start, comb)
<1> DEFINE upTo == [n \in Nat |-> CHOOSE f \in [S -> T] : RightUpTo(f, n, S, size, Base, next, start, comb)]
           f == [x \in S |-> upTo[size[x] + 1][x]]
<1>0. size \in [S -> Nat] /\ \A x \in S \ Base : next[x] \in S /\ size[next[x]] < size[x]
  BY DEF Recursive
<1>1. ASSUME NEW n \in Nat
      PROVE  upTo[n] \in [S -> T] /\ RightUpTo(upTo[n], n, S, size, Base, next, start, comb)
  <2>1. \E h \in [S -> T] : RightUpTo(h, n, S, size, Base, next, start, comb)
    BY FunctionUpTo
  <2> QED BY <2>1
<1> HIDE DEF upTo
<1>2. f \in [S -> T]
  BY <1>0, <1>1
<1>3. ASSUME NEW x \in S PROVE f[x] = Unfolded(f, x, Base, next, start, comb)
  <2> DEFINE n == size[x] + 1   g == upTo[n]
  <2>1. n \in Nat /\ g \in [S -> T] /\ RightUpTo(g, n, S, size, Base, next, start, comb) /\ size[x] < n
    BY <1>0, <1>1
  <2>2. f[x] = Unfolded(g, x, Base, next, start, comb)
    BY <2>1 DEF RightUpTo
  <2>3. CASE x \in Base
    BY <2>2, <2>3 DEF Unfolded
  <2>4. CASE x \notin Base
    <3> DEFINE y == next[x]   k == size[y] + 1   h == upTo[k]
    <3>1. y \in S /\ size[y] < size[x] /\ size[y] \in Nat /\ size[x] \in Nat
      BY <1>0, <2>4
    <3>2. k \in Nat /\ h \in [S -> T] /\ RightUpTo(h, k, S, size, Base, next, start, comb) /\ size[y] < k
      BY <1>1, <3>1
    <3>3. RightUpTo(g, k, S, size, Base, next, start, comb)
      <4>1. ASSUME NEW z \in S, size[z] < k PROVE size[z] < n
        BY <1>0, <3>1, <4>1
      <4> HIDE DEF g, k, n
      <4> QED BY <2>1, <4>1 DEF RightUpTo
    <3>4. f[y] = h[y]
      BY <3>1
    <3> HIDE DEF f, g, h, k, n, y
    <3>5. \A z \in S : size[z] < k => h[z] = g[z]
      BY <2>1, <3>2, <3>3, OneFunction
    <3>6. f[y] = g[y]
      BY <3>1, <3>2, <3>4, <3>5
    <3> QED BY <2>2, <2>4, <3>6 DEF Unfolded, y
  <2> QED BY <2>3, <2>4
<1> HIDE DEF f
<1> QED BY <1>2, <1>3

-----------------------------------------------------------------------------
(* Division.                                                               *)

\* What \div and % are, for any divisor.
LEMMA DivMod ==
    ASSUME NEW a \in Int, NEW m \in Nat, m > 0
    PROVE  /\ a \div m \in Int /\ a % m \in Int /\ 0 <= a % m /\ a % m < m
           /\ a = m * (a \div m) + (a % m)
<1>1. a \div m \in Int /\ a % m \in Int OBVIOUS
<1>2. 0 <= a % m /\ a % m < m OBVIOUS
<1>3. a = m * (a \div m) + (a % m) OBVIOUS
<1> QED BY <1>1, <1>2, <1>3

\* m divides no number between its multiples.
LEMMA Squeezed ==
    ASSUME NEW m \in Int, m > 0, NEW k \in Int, m * k < m, -m < m * k
    PROVE  k = 0
<1>1. CASE k >= 1
  <2>1. m * k >= m * 1 BY <1>1
  <2> QED BY <2>1
<1>2. CASE k <= -1
  <2>1. m * k <= m * (-1) BY <1>2
  <2> QED BY <2>1
<1> QED BY <1>1, <1>2

\* The quotient and the remainder are the only ones.
LEMMA OneRemainder ==
    ASSUME NEW a \in Int, NEW m \in Nat, m > 0, NEW q \in Int, NEW r \in Int, 0 <= r, r < m, a = m * q + r
    PROVE  r = a % m /\ q = a \div m
<1> DEFINE p == a \div m   s == a % m
<1>1. p \in Int /\ s \in Int /\ 0 <= s /\ s < m /\ a = m * p + s
  BY DivMod
<1> HIDE DEF p, s
<1>2. m * (q - p) = s - r
  BY <1>1
<1>3. q - p = 0
  <2>1. q - p \in Int /\ m * (q - p) < m /\ -m < m * (q - p)
    BY <1>1, <1>2
  <2> DEFINE k == q - p
  <2> HIDE DEF k
  <2>2. k = 0 BY <2>1, Squeezed DEF k
  <2> QED BY <2>2 DEF k
<1>4. q = p BY <1>1, <1>3
<1>5. r = s BY <1>1, <1>4
<1> QED BY <1>4, <1>5 DEF p, s

Divisor(g, a) == \E k \in Int : a = g * k

\* Two numbers leave one remainder where their difference is a multiple.
LEMMA OneRemainderIff ==
    ASSUME NEW a \in Int, NEW b \in Int, NEW m \in Nat, m > 0
    PROVE  a % m = b % m <=> Divisor(m, a - b)
<1> DEFINE p == a \div m   s == a % m   q == b \div m   t == b % m
<1>1. p \in Int /\ s \in Int /\ a = m * p + s /\ 0 <= s /\ s < m BY DivMod
<1>2. q \in Int /\ t \in Int /\ b = m * q + t /\ 0 <= t /\ t < m BY DivMod
<1> HIDE DEF p, s, q, t
<1>3. ASSUME s = t PROVE Divisor(m, a - b)
  <2>1. a - b = m * (p - q) BY <1>1, <1>2, <1>3
  <2>2. p - q \in Int BY <1>1, <1>2
  <2> QED BY <2>1, <2>2 DEF Divisor
<1>4. ASSUME NEW k \in Int, a - b = m * k PROVE s = t
  <2>1. a = m * (q + k) + t BY <1>1, <1>2, <1>4
  <2>2. q + k \in Int BY <1>2
  <2>3. t = a % m
    <3> DEFINE w == q + k
    <3>1. w \in Int /\ a = m * w + t BY <2>1, <2>2
    <3> HIDE DEF w
    <3> QED BY <1>2, <3>1, OneRemainder
  <2> QED BY <2>3 DEF s
<1> QED BY <1>3, <1>4 DEF Divisor, s, t

\* Rust's division truncates: the remainder is smaller than the divisor and
\* has the sign of the dividend.
THEOREM RemaindersTruncate ==
    \A a \in Int, b \in Int \ {0} :
        /\ Quo(a, b) \in Int /\ Rem(a, b) \in Int
        /\ a = b * Quo(a, b) + Rem(a, b)
        /\ Magnitude(Rem(a, b)) < Magnitude(b)
        /\ Rem(a, b) # 0 => Sign(Rem(a, b)) = Sign(a)
<1> SUFFICES ASSUME NEW a \in Int, NEW b \in Int \ {0}
             PROVE  /\ Quo(a, b) \in Int /\ Rem(a, b) \in Int
                    /\ a = b * Quo(a, b) + Rem(a, b)
                    /\ Magnitude(Rem(a, b)) < Magnitude(b)
                    /\ Rem(a, b) # 0 => Sign(Rem(a, b)) = Sign(a)
  OBVIOUS
<1> DEFINE A == Magnitude(a)   B == Magnitude(b)   q == A \div B   r == A % B
<1>1. A \in Nat /\ B \in Nat /\ B > 0 /\ (A = 0 <=> a = 0)
  BY DEF Magnitude
<1>2. q \in Int /\ r \in Int /\ A = B * q + r /\ 0 <= r /\ r < B
  <2> HIDE DEF A, B
  <2> QED BY <1>1, DivMod
<1>3. a = 0 => q = 0 /\ r = 0
  <2> HIDE DEF A, B
  <2>1. ASSUME A = 0 PROVE q = 0 /\ r = 0
    <3>1. 0 = B * 0 + 0 BY <1>1
    <3> QED BY <1>1, <2>1, <3>1, OneRemainder
  <2> QED BY <1>1, <2>1
<1>4. Quo(a, b) = Sign(a) * Sign(b) * q
  BY DEF Quo
<1> HIDE DEF q, r
<1>5. Rem(a, b) = a - b * Quo(a, b)
  BY DEF Rem
<1>6. CASE a >= 0 /\ b > 0
  <2>1. Quo(a, b) = q BY <1>2, <1>3, <1>4, <1>6 DEF Sign
  <2>2. a = b * q + r BY <1>2, <1>6 DEF Magnitude
  <2>3. Rem(a, b) = r BY <1>2, <1>5, <2>1, <2>2
  <2> HIDE DEF A, B
  <2> QED BY <1>2, <1>6, <2>1, <2>2, <2>3 DEF Magnitude, Sign, B
<1>7. CASE a >= 0 /\ b < 0
  <2>1. Quo(a, b) = -q BY <1>2, <1>3, <1>4, <1>7 DEF Sign
  <2>2. a = b * (-q) + r BY <1>2, <1>7 DEF Magnitude
  <2>3. Rem(a, b) = r BY <1>2, <1>5, <2>1, <2>2
  <2> HIDE DEF A, B
  <2> QED BY <1>2, <1>7, <2>1, <2>2, <2>3 DEF Magnitude, Sign, B
<1>8. CASE a < 0 /\ b > 0
  <2>1. Quo(a, b) = -q BY <1>2, <1>4, <1>8 DEF Sign
  <2>2. a = b * (-q) + (-r) BY <1>2, <1>8 DEF Magnitude
  <2>3. Rem(a, b) = -r BY <1>2, <1>5, <2>1, <2>2
  <2> HIDE DEF A, B
  <2> QED BY <1>2, <1>8, <2>1, <2>2, <2>3 DEF Magnitude, Sign, B
<1>9. CASE a < 0 /\ b < 0
  <2>1. Quo(a, b) = q BY <1>2, <1>4, <1>9 DEF Sign
  <2>2. a = b * q + (-r) BY <1>2, <1>9 DEF Magnitude
  <2>3. Rem(a, b) = -r BY <1>2, <1>5, <2>1, <2>2
  <2> HIDE DEF A, B
  <2> QED BY <1>2, <1>9, <2>1, <2>2, <2>3 DEF Magnitude, Sign, B
<1> QED BY <1>6, <1>7, <1>8, <1>9

\* ((a % m) + m) % m is the remainder that is not negative.
THEOREM NormalIsModulo ==
    \A a \in Int, m \in Nat \ {0} : Normal(a, m) = a % m
<1> SUFFICES ASSUME NEW a \in Int, NEW m \in Nat \ {0} PROVE Normal(a, m) = a % m
  OBVIOUS
<1> DEFINE q == Quo(a, m)   r == Rem(a, m)   p == Quo(r + m, m)   s == Rem(r + m, m)
<1>1. m \in Int \ {0} /\ Magnitude(m) = m /\ m > 0 BY DEF Magnitude
<1>2. q \in Int /\ r \in Int /\ a = m * q + r /\ Magnitude(r) < m BY <1>1, RemaindersTruncate
<1>3. -m < r /\ r < m BY <1>2 DEF Magnitude
<1>4. r + m \in Int /\ r + m > 0 BY <1>1, <1>2, <1>3
<1>5. p \in Int /\ s \in Int /\ r + m = m * p + s /\ Magnitude(s) < m /\ (s # 0 => Sign(s) = Sign(r + m))
  BY <1>1, <1>4, RemaindersTruncate
<1>6. 0 <= s /\ s < m BY <1>4, <1>5 DEF Magnitude, Sign
<1>7. Normal(a, m) = s BY DEF Normal
<1> HIDE DEF q, r, p, s
<1>8. a = m * (q + p - 1) + s BY <1>2, <1>5
<1> DEFINE k == q + p - 1
<1>9. k \in Int /\ a = m * k + s BY <1>2, <1>5, <1>8
<1> HIDE DEF k
<1> QED BY <1>1, <1>5, <1>6, <1>7, <1>9, OneRemainder

-----------------------------------------------------------------------------
(* Euclid.                                                                 *)

\* A common divisor of b and a - b*q divides a.
LEMMA DivisorOfSum ==
    ASSUME NEW g \in Int, NEW b \in Int, NEW q \in Int, NEW r \in Int, Divisor(g, b), Divisor(g, r)
    PROVE  Divisor(g, b * q + r)
<1>1. PICK k \in Int : b = g * k BY DEF Divisor
<1>2. PICK l \in Int : r = g * l BY DEF Divisor
<1>3. b * q + r = g * (k * q + l) BY <1>1, <1>2
<1>4. k * q + l \in Int BY <1>1, <1>2
<1> QED BY <1>3, <1>4 DEF Divisor

Bezout == Int \X Int
Triples == Int \X Int \X Int
\* f computes extended_gcd.
Euclidean(f) ==
    f = [p \in Bezout |-> IF p[2] = 0 THEN <<p[1], 1, 0>>
                          ELSE LET e == f[<<p[2], Rem(p[1], p[2])>>] IN <<e[1], e[3], e[2] - Quo(p[1], p[2]) * e[3]>>]

\* The recursion of extended_gcd ends.
LEMMA EuclidEnds == \E f \in [Bezout -> Triples] : Euclidean(f)
<1> DEFINE size  == [p \in Bezout |-> Magnitude(p[2])]
           Base  == {p \in Bezout : p[2] = 0}
           next  == [p \in Bezout \ Base |-> <<p[2], Rem(p[1], p[2])>>]
           start == [p \in Base |-> <<p[1], 1, 0>>]
           comb  == [p \in Bezout \ Base |-> [e \in Triples |-> <<e[1], e[3], e[2] - Quo(p[1], p[2]) * e[3]>>]]
<1>1. ASSUME NEW p \in Bezout \ Base
      PROVE  /\ p[1] \in Int /\ p[2] \in Int \ {0}
             /\ Quo(p[1], p[2]) \in Int /\ Rem(p[1], p[2]) \in Int
             /\ Magnitude(Rem(p[1], p[2])) < Magnitude(p[2])
  <2>1. p[1] \in Int /\ p[2] \in Int \ {0} BY DEF Bezout
  <2> QED BY <2>1, RemaindersTruncate
<1>2. Recursive(Bezout, Triples, size, Base, next, start, comb)
  <2>1. size \in [Bezout -> Nat] BY DEF Magnitude, Bezout
  <2>2. next \in [Bezout \ Base -> Bezout] BY <1>1 DEF Bezout
  <2>3. start \in [Base -> Triples] BY DEF Bezout, Triples
  <2>4. comb \in [Bezout \ Base -> [Triples -> Triples]]
    <3>1. ASSUME NEW p \in Bezout \ Base, NEW e \in Triples
          PROVE  <<e[1], e[3], e[2] - Quo(p[1], p[2]) * e[3]>> \in Triples
      BY <1>1 DEF Triples
    <3> QED BY <3>1
  <2>5. ASSUME NEW p \in Bezout \ Base PROVE size[next[p]] < size[p]
    <3>1. next[p] \in Bezout /\ next[p][2] = Rem(p[1], p[2]) BY <2>2
    <3> QED BY <1>1, <3>1
  <2>6. Base \in SUBSET Bezout OBVIOUS
  <2> HIDE DEF size, Base, next, start, comb
  <2> QED BY <2>1, <2>2, <2>3, <2>4, <2>5, <2>6 DEF Recursive
<1>3. <<0, 0, 0>> \in Triples BY DEF Triples
<1>4. PICK f \in [Bezout -> Triples] : \A p \in Bezout : f[p] = Unfolded(f, p, Base, next, start, comb)
  <2> HIDE DEF size, Base, next, start, comb
  <2> QED BY <1>2, <1>3, Recursion
<1>5. ASSUME NEW p \in Bezout
      PROVE  f[p] = IF p[2] = 0 THEN <<p[1], 1, 0>>
                    ELSE LET e == f[<<p[2], Rem(p[1], p[2])>>] IN <<e[1], e[3], e[2] - Quo(p[1], p[2]) * e[3]>>
  <2>1. CASE p[2] = 0 BY <1>4, <2>1 DEF Unfolded
  <2>2. CASE p[2] # 0
    <3>1. p \in Bezout \ Base /\ next[p] = <<p[2], Rem(p[1], p[2])>> BY <2>2
    <3>2. next[p] \in Bezout BY <1>1, <3>1 DEF Bezout
    <3>3. f[next[p]] \in Triples BY <3>2
    <3>4. f[p] = comb[p][f[next[p]]]
      <4> HIDE DEF next, comb, start
      <4> QED BY <1>4, <2>2, <3>1 DEF Unfolded
    <3> QED BY <2>2, <3>1, <3>3, <3>4
  <2> QED BY <2>1, <2>2
<1>6. Euclidean(f) BY <1>5 DEF Euclidean
<1> QED BY <1>6

\* The size of a pair: that of its second number.
SizeOf == [p \in Bezout |-> Magnitude(p[2])]

\* Its next pair is smaller.
LEMMA SmallerPair ==
    ASSUME NEW p \in Bezout, p[2] # 0
    PROVE  /\ p[1] \in Int /\ p[2] \in Int \ {0}
           /\ Quo(p[1], p[2]) \in Int /\ Rem(p[1], p[2]) \in Int
           /\ p[1] = p[2] * Quo(p[1], p[2]) + Rem(p[1], p[2])
           /\ <<p[2], Rem(p[1], p[2])>> \in Bezout
           /\ SizeOf[<<p[2], Rem(p[1], p[2])>>] < SizeOf[p]
<1>1. p[1] \in Int /\ p[2] \in Int \ {0} BY DEF Bezout
<1>2. /\ Quo(p[1], p[2]) \in Int /\ Rem(p[1], p[2]) \in Int
      /\ p[1] = p[2] * Quo(p[1], p[2]) + Rem(p[1], p[2])
      /\ Magnitude(Rem(p[1], p[2])) < Magnitude(p[2])
  BY <1>1, RemaindersTruncate
<1>3. <<p[2], Rem(p[1], p[2])>> \in Bezout BY <1>1, <1>2 DEF Bezout
<1> QED BY <1>1, <1>2, <1>3 DEF SizeOf

\* The measure of a pair is a natural number.
LEMMA SizeOfPairs == SizeOf \in [Bezout -> Nat]
  BY DEF SizeOf, Bezout, Magnitude

\* What extended_gcd returns, unfolded once.
LEMMA EuclidSteps ==
    \A p \in Bezout :
          /\ p[2] = 0 => ExtendedGcd[p] = <<p[1], 1, 0>>
          /\ p[2] # 0 => LET e == ExtendedGcd[<<p[2], Rem(p[1], p[2])>>]
                         IN  ExtendedGcd[p] = <<e[1], e[3], e[2] - Quo(p[1], p[2]) * e[3]>>
<1>1. ExtendedGcd = CHOOSE f : Euclidean(f) BY DEF ExtendedGcd, Euclidean, Bezout
<1>2. Euclidean(ExtendedGcd) BY <1>1, EuclidEnds
<1> DEFINE f == ExtendedGcd
<1>3. Euclidean(f) BY <1>2
<1> HIDE DEF f
<1>4. ASSUME NEW p \in Bezout
      PROVE  f[p] = IF p[2] = 0 THEN <<p[1], 1, 0>>
                    ELSE LET e == f[<<p[2], Rem(p[1], p[2])>>] IN <<e[1], e[3], e[2] - Quo(p[1], p[2]) * e[3]>>
  BY <1>3 DEF Euclidean
<1> QED BY <1>4 DEF f

\* e is what extended_gcd promises of a and b.
RightBezout(e, a, b) ==
    /\ e \in Triples
    /\ a * e[2] + b * e[3] = e[1]
    /\ Divisor(e[1], a) /\ Divisor(e[1], b)
    /\ a >= 0 /\ b >= 0 => e[1] >= 0

\* A step of the recursion keeps the promise.
LEMMA BezoutStep ==
    ASSUME NEW a \in Int, NEW b \in Int, NEW q \in Int, NEW r \in Int, a = b * q + r,
           a >= 0 /\ b >= 0 => r >= 0,
           NEW e, RightBezout(e, b, r)
    PROVE  RightBezout(<<e[1], e[3], e[2] - q * e[3]>>, a, b)
<1> DEFINE g == e[1]  x == e[2]  y == e[3]  d == <<g, y, x - q * y>>
<1>1. g \in Int /\ x \in Int /\ y \in Int BY DEF RightBezout, Triples
<1>2. b * x + r * y = g /\ Divisor(g, b) /\ Divisor(g, r) BY DEF RightBezout
<1>3. b >= 0 /\ r >= 0 => g >= 0 BY DEF RightBezout
<1> HIDE DEF g, x, y
<1>4. d \in Triples /\ d[1] = g /\ d[2] = y /\ d[3] = x - q * y BY <1>1 DEF Triples
<1>5. a * y + b * (x - q * y) = g
  <2>1. a * y = b * q * y + r * y BY <1>1
  <2>2. b * (x - q * y) = b * x - b * q * y BY <1>1
  <2> QED BY <1>1, <1>2, <2>1, <2>2
<1>6. Divisor(g, a) BY <1>1, <1>2, DivisorOfSum
<1>7. RightBezout(d, a, b) BY <1>2, <1>3, <1>4, <1>5, <1>6 DEF RightBezout
<1> QED BY <1>7 DEF d, g, x, y

\* extended_gcd: its first answer divides both numbers, and the others make it
\* of them; of numbers that are not negative it is not negative, so that it is
\* their greatest common divisor.
THEOREM EuclidIsRight ==
    \A a \in Int, b \in Int : RightBezout(ExtendedGcd[<<a, b>>], a, b)
<1> DEFINE G == {p \in Bezout : RightBezout(ExtendedGcd[p], p[1], p[2])}
<1>1. ASSUME NEW p \in Bezout, \A o \in Bezout : SizeOf[o] < SizeOf[p] => o \in G
      PROVE  p \in G
  <2> DEFINE a == p[1]  b == p[2]
  <2>1. a \in Int /\ b \in Int BY DEF Bezout
  <2>2. CASE b = 0
    <3> DEFINE e == ExtendedGcd[p]
    <3>1. e = <<a, 1, 0>> BY <2>2, EuclidSteps
    <3> HIDE DEF e, a, b
    <3>2. e \in Triples /\ e[1] = a /\ e[2] = 1 /\ e[3] = 0 BY <2>1, <3>1 DEF Triples
    <3>3. Divisor(a, a)
      <4>1. a = a * 1 BY <2>1
      <4> QED BY <4>1 DEF Divisor
    <3>4. Divisor(a, b)
      <4>1. b = a * 0 BY <2>1, <2>2
      <4> QED BY <4>1 DEF Divisor
    <3>5. a * 1 + b * 0 = a BY <2>1, <2>2
    <3>6. RightBezout(e, a, b) BY <2>1, <3>2, <3>3, <3>4, <3>5 DEF RightBezout
    <3> QED BY <3>6 DEF e, a, b
  <2>3. CASE b # 0
    <3> DEFINE o == <<b, Rem(a, b)>>  q == Quo(a, b)  r == Rem(a, b)  e == ExtendedGcd[o]
    <3>1. o \in Bezout /\ SizeOf[o] < SizeOf[p] /\ q \in Int /\ r \in Int /\ a = b * q + r
      BY <2>3, SmallerPair
    <3>2. RightBezout(e, b, r)
      <4>1. o \in G BY <1>1, <3>1
      <4>2. o[1] = b /\ o[2] = r OBVIOUS
      <4> QED BY <4>1, <4>2
    <3>3. a >= 0 /\ b >= 0 => r >= 0
      <4>1. r # 0 => Sign(r) = Sign(a) BY <2>1, <2>3, RemaindersTruncate
      <4> HIDE DEF r
      <4> QED BY <2>1, <3>1, <4>1 DEF Sign
    <3>4. ExtendedGcd[p] = <<e[1], e[3], e[2] - q * e[3]>> BY <2>3, EuclidSteps
    <3> HIDE DEF a, b, q, r, o, e
    <3>5. RightBezout(<<e[1], e[3], e[2] - q * e[3]>>, a, b) BY <2>1, <3>1, <3>2, <3>3, BezoutStep
    <3> QED BY <3>4, <3>5 DEF a, b
  <2> QED BY <2>2, <2>3
<1>2. G \in SUBSET Bezout OBVIOUS
<1> HIDE DEF G
<1>3. G = Bezout BY <1>1, <1>2, SizeOfPairs, ByMeasure
<1>4. ASSUME NEW a \in Int, NEW b \in Int PROVE RightBezout(ExtendedGcd[<<a, b>>], a, b)
  <2>1. <<a, b>> \in G BY <1>3 DEF Bezout
  <2> QED BY <2>1 DEF G
<1> QED BY <1>4

\* A divisor that is not negative of 1 is 1.
LEMMA DivisorOfOne ==
    ASSUME NEW g \in Int, g >= 0, NEW k \in Int, g * k = 1
    PROVE  g = 1
<1>1. k > 0
  <2>1. ASSUME k <= 0 PROVE FALSE
    <3>1. g * k <= g * 0 BY <2>1
    <3> QED BY <3>1
  <2> QED BY <2>1
<1>2. ASSUME g >= 2 PROVE FALSE
  <2>1. g * k >= 2 * k BY <1>1, <1>2
  <2> QED BY <1>1, <2>1
<1>3. g # 0
  <2>1. 0 * k = 0 OBVIOUS
  <2> QED BY <2>1
<1> QED BY <1>2, <1>3

\* The inverses of a modulo m, by definition.
InversesOf(a, m) == {x \in 0 .. m - 1 : (a * x) % m = 1 % m}

\* mod_inverse_impl returns the inverse of a modulo m where there is one, a
\* negative or larger than m, and None where there is none.
THEOREM InversesAreRight ==
    \A a \in Int, m \in Nat \ {0} : ModInverseImpl(a, m) = InversesOf(a, m)
<1> SUFFICES ASSUME NEW a \in Int, NEW m \in Nat \ {0}
             PROVE  ModInverseImpl(a, m) = InversesOf(a, m)
  OBVIOUS
<1> DEFINE n == a % m   t == a \div m   e == ExtendedGcd[<<n, m>>]   g == e[1]  x == e[2]  y == e[3]  z == x % m  w == x \div m
<1>1. m > 0 /\ n \in Int /\ t \in Int /\ 0 <= n /\ a = m * t + n BY DivMod
<1>2. RightBezout(e, n, m) BY <1>1, EuclidIsRight
<1>3. /\ g \in Int /\ x \in Int /\ y \in Int /\ n * x + m * y = g
      /\ Divisor(g, n) /\ Divisor(g, m) /\ g >= 0
  <2> HIDE DEF n, e
  <2> QED BY <1>1, <1>2 DEF RightBezout, Triples
<1>4. Normal(a, m) = n BY NormalIsModulo
<1>5. Normal(x, m) = z BY <1>3, NormalIsModulo
<1>6. ModInverseImpl(a, m) = IF g # 1 THEN {} ELSE {z} BY <1>4, <1>5 DEF ModInverseImpl
<1>7. z \in Int /\ w \in Int /\ 0 <= z /\ z < m /\ x = m * w + z
  <2> HIDE DEF x
  <2> QED BY <1>1, <1>3, DivMod
<1> HIDE DEF n, t, e, g, x, y, z, w
<1>8. CASE g = 1
  <2>1. (a * z) % m = 1 % m
    <3>1. a * z - 1 = m * (t * z - n * w - y)
      <4> DEFINE A == t * z   B == n * w   C == n * z
      <4>1. A \in Int /\ B \in Int /\ C \in Int BY <1>1, <1>7
      <4>2. a * z = m * A + C BY <1>1, <1>7
      <4>3. n * x = m * B + C BY <1>1, <1>7
      <4>4. n * x + m * y = 1 BY <1>3, <1>8
      <4> DEFINE L == a * z   N == n * x
      <4> HIDE DEF A, B, C, L, N
      <4>5. L = m * A + C /\ N = m * B + C /\ N + m * y = 1 BY <4>2, <4>3, <4>4 DEF L, N
      <4>6. L - 1 = m * (A - B - y) BY <1>1, <1>3, <4>1, <4>5
      <4> QED BY <4>6 DEF A, B, L
    <3>2. t * z - n * w - y \in Int /\ a * z \in Int BY <1>1, <1>3, <1>7
    <3>3. Divisor(m, a * z - 1) BY <3>1, <3>2 DEF Divisor
    <3> QED BY <1>1, <3>2, <3>3, OneRemainderIff
  <2>2. ASSUME NEW v \in 0 .. m - 1, (a * v) % m = 1 % m PROVE v = z
    <3>1. Divisor(m, a * v - 1)
      <4> DEFINE L == a * v   one == 1
      <4>1. L \in Int /\ one \in Int /\ L % m = one % m
        <5>1. v \in Int BY <1>1
        <5> QED BY <2>2, <5>1
      <4> HIDE DEF L, one
      <4>2. m \in Nat /\ m > 0 BY <1>1
      <4>3. Divisor(m, L - one) BY <4>1, <4>2, OneRemainderIff
      <4> QED BY <4>3 DEF L, one
    <3>2. PICK k \in Int : a * v - 1 = m * k BY <3>1 DEF Divisor
    <3>3. v - z = m * (y * v + w + x * (k - t * v))
      \* v = v (n x + m y), and n v = 1 + m (k - t v)
      <4>1. n * v = 1 + m * (k - t * v)
        <5>1. a * v = m * (t * v) + n * v BY <1>1
        <5>2. m * (k - t * v) = m * k - m * (t * v) BY <1>1
        <5> QED BY <1>1, <3>2, <5>1, <5>2
      <4>2. v = v * (n * x) + v * (m * y)
        <5>1. v = v * (n * x + m * y) BY <1>3, <1>8
        <5> QED BY <1>1, <1>3, <5>1
      <4>3. v * (n * x) = x * (n * v) BY <1>1, <1>3
      <4>4. x * (1 + m * (k - t * v)) = x + m * (x * (k - t * v))
        <5> DEFINE u == k - t * v
        <5>1. u \in Int BY <1>1
        <5> HIDE DEF u
        <5>2. x * (1 + m * u) = x + m * (x * u) BY <1>1, <1>3, <5>1
        <5> QED BY <5>2 DEF u
      <4>5. v * (m * y) = m * (y * v) BY <1>1, <1>3
      <4>6. v = x + m * (x * (k - t * v)) + m * (y * v) BY <4>1, <4>2, <4>3, <4>4, <4>5
      <4> DEFINE A == x * (k - t * v)   B == y * v
      <4>7. A \in Int /\ B \in Int BY <1>1, <1>3
      <4>8. v = x + m * A + m * B BY <4>6
      <4> HIDE DEF A, B
      <4>9. v - z = m * (B + w + A)
        <5>1. v \in Int BY <1>1
        <5> QED BY <1>1, <1>3, <1>7, <4>7, <4>8, <5>1
      <4> QED BY <4>9 DEF A, B
    <3> DEFINE d == y * v + w + x * (k - t * v)
    <3>4. d \in Int /\ v - z = m * d BY <1>1, <1>3, <1>7, <3>3
    <3> HIDE DEF d
    <3>5. d = 0 BY <1>1, <1>7, <3>4, Squeezed
    <3> QED BY <1>7, <3>4, <3>5
  <2>3. z \in 0 .. m - 1 BY <1>7
  <2> QED BY <1>6, <1>8, <2>1, <2>2, <2>3 DEF InversesOf
<1>9. CASE g # 1
  <2>1. ASSUME NEW v \in 0 .. m - 1, (a * v) % m = 1 % m PROVE FALSE
    <3>1. Divisor(m, a * v - 1)
      <4> DEFINE L == a * v   one == 1
      <4>1. L \in Int /\ one \in Int /\ L % m = one % m
        <5>1. v \in Int BY <1>1
        <5> QED BY <2>1, <5>1
      <4> HIDE DEF L, one
      <4>2. m \in Nat /\ m > 0 BY <1>1
      <4>3. Divisor(m, L - one) BY <4>1, <4>2, OneRemainderIff
      <4> QED BY <4>3 DEF L, one
    <3>2. PICK k \in Int : a * v - 1 = m * k BY <3>1 DEF Divisor
    <3>3. PICK i \in Int : n = g * i BY <1>3 DEF Divisor
    <3>4. PICK j \in Int : m = g * j BY <1>3 DEF Divisor
    <3>5. 1 = g * (i * v + j * (t * v - k))
      <4>1. 1 = n * v + m * (t * v - k)
        <5> DEFINE A == t * v   C == n * v   L == a * v
        <5>1. A \in Int /\ C \in Int BY <1>1
        <5>2. L = m * A + C BY <1>1
        <5>3. L - 1 = m * k BY <3>2
        <5> HIDE DEF A, C, L
        <5>4. 1 = C + m * (A - k) BY <1>1, <5>1, <5>2, <5>3
        <5> QED BY <5>4 DEF A, C
      <4>2. n * v = g * (i * v) BY <1>3, <3>3
      <4>3. m * (t * v - k) = g * (j * (t * v - k)) BY <1>1, <1>3, <3>4
      <4> DEFINE A == i * v   B == j * (t * v - k)
      <4>4. A \in Int /\ B \in Int BY <1>1
      <4>5. 1 = g * A + g * B BY <4>1, <4>2, <4>3
      <4> HIDE DEF A, B
      <4>6. 1 = g * (A + B) BY <1>3, <4>4, <4>5
      <4> QED BY <4>6 DEF A, B
    <3> DEFINE d == i * v + j * (t * v - k)
    <3>6. d \in Int /\ g * d = 1 BY <1>1, <3>5
    <3> HIDE DEF d
    <3> QED BY <1>3, <1>9, <3>6, DivisorOfOne
  <2> QED BY <1>6, <1>9, <2>1 DEF InversesOf
<1> QED BY <1>8, <1>9

-----------------------------------------------------------------------------
(* Modular powers.                                                         *)

Moduli == Nat \ {0}

\* A remainder may be taken of a factor first.
LEMMA RemainderOfFactor ==
    ASSUME NEW x \in Int, NEW y \in Int, NEW m \in Moduli
    PROVE  /\ ((x % m) * y) % m = (x * y) % m
           /\ (y * (x % m)) % m = (y * x) % m
           /\ (x % m) % m = x % m
<1> DEFINE q == x \div m   r == x % m
<1>1. m \in Nat /\ m > 0 BY DEF Moduli
<1>2. q \in Int /\ r \in Int /\ x = m * q + r /\ 0 <= r /\ r < m BY <1>1, DivMod
<1> HIDE DEF q, r
<1> DEFINE u == r * y   v == x * y
<1>3. u \in Int /\ v \in Int BY <1>2
<1>4. u - v = m * (-(q * y))
  <2> DEFINE w == q * y
  <2>1. w \in Int BY <1>2
  <2>2. v = m * w + u BY <1>1, <1>2
  <2> HIDE DEF u, v, w
  <2>3. u - v = m * (-w) BY <1>1, <1>3, <2>1, <2>2
  <2> QED BY <2>3 DEF w
<1>5. u % m = v % m
  <2> DEFINE w == -(q * y)
  <2>1. w \in Int BY <1>2
  <2>2. u - v = m * w BY <1>4
  <2> HIDE DEF u, v, w
  <2>3. Divisor(m, u - v) BY <2>1, <2>2 DEF Divisor
  <2> QED BY <1>1, <1>3, <2>3, OneRemainderIff
<1>6. u = y * r /\ v = y * x BY <1>2
<1>7. r % m = r
  <2> DEFINE z == 0
  <2>1. z \in Int /\ r = m * z + r BY <1>1, <1>2
  <2> HIDE DEF z
  <2> QED BY <1>1, <1>2, <2>1, OneRemainder
<1> QED BY <1>5, <1>6, <1>7 DEF u, v, r

Exponents == Int \X Nat \X Moduli
Powered(f) == f = [s \in Exponents |-> IF s[2] = 0 THEN 1 % s[3] ELSE (f[<<s[1], s[2] - 1, s[3]>>] * (s[1] % s[3])) % s[3]]

\* The definition of the power modulo m ends.
LEMMA PowersEnd == \E f \in [Exponents -> Int] : Powered(f)
<1> DEFINE size  == [s \in Exponents |-> s[2]]
           Base  == {s \in Exponents : s[2] = 0}
           next  == [s \in Exponents \ Base |-> <<s[1], s[2] - 1, s[3]>>]
           start == [s \in Base |-> 1 % s[3]]
           comb  == [s \in Exponents \ Base |-> [v \in Int |-> (v * (s[1] % s[3])) % s[3]]]
<1>1. ASSUME NEW s \in Exponents
      PROVE  s[1] \in Int /\ s[2] \in Nat /\ s[3] \in Moduli /\ s[3] \in Nat /\ s[3] > 0
  BY DEF Exponents, Moduli
<1>2. ASSUME NEW s \in Exponents, NEW v \in Int
      PROVE  1 % s[3] \in Int /\ (v * (s[1] % s[3])) % s[3] \in Int
  <2> DEFINE m == s[3]  w == s[1] % m
  <2>1. m \in Nat /\ m > 0 /\ s[1] \in Int BY <1>1
  <2> HIDE DEF m
  <2>2. w \in Int BY <2>1, DivMod
  <2> HIDE DEF w
  <2>3. v * w \in Int /\ 1 \in Int BY <2>2
  <2>4. (v * w) % m \in Int /\ 1 % m \in Int BY <2>1, <2>3
  <2> QED BY <2>4 DEF m, w
<1>3. Recursive(Exponents, Int, size, Base, next, start, comb)
  <2>1. size \in [Exponents -> Nat] BY <1>1
  <2>2. next \in [Exponents \ Base -> Exponents]
    <3>1. ASSUME NEW s \in Exponents \ Base PROVE <<s[1], s[2] - 1, s[3]>> \in Exponents
      <4>1. s[1] \in Int /\ s[2] - 1 \in Nat /\ s[3] \in Moduli BY <1>1
      <4> QED BY <4>1 DEF Exponents
    <3> QED BY <3>1
  <2>3. start \in [Base -> Int] BY <1>2
  <2>4. comb \in [Exponents \ Base -> [Int -> Int]] BY <1>2
  <2>5. ASSUME NEW s \in Exponents \ Base PROVE size[next[s]] < size[s]
    <3>1. next[s] \in Exponents /\ next[s][2] = s[2] - 1 BY <2>2
    <3> QED BY <1>1, <3>1
  <2>6. Base \in SUBSET Exponents OBVIOUS
  <2> HIDE DEF size, Base, next, start, comb
  <2> QED BY <2>1, <2>2, <2>3, <2>4, <2>5, <2>6 DEF Recursive
<1>4. PICK f \in [Exponents -> Int] : \A s \in Exponents : f[s] = Unfolded(f, s, Base, next, start, comb)
  <2> HIDE DEF size, Base, next, start, comb
  <2>1. 0 \in Int OBVIOUS
  <2> QED BY <1>3, <2>1, Recursion
<1>5. ASSUME NEW s \in Exponents
      PROVE  f[s] = IF s[2] = 0 THEN 1 % s[3] ELSE (f[<<s[1], s[2] - 1, s[3]>>] * (s[1] % s[3])) % s[3]
  <2>1. CASE s[2] = 0 BY <1>4, <2>1 DEF Unfolded
  <2>2. CASE s[2] # 0
    <3>1. s \in Exponents \ Base /\ next[s] = <<s[1], s[2] - 1, s[3]>> BY <2>2
    <3>2. next[s] \in Exponents
      <4>1. s[1] \in Int /\ s[2] - 1 \in Nat /\ s[3] \in Moduli BY <1>1, <2>2
      <4> QED BY <3>1, <4>1 DEF Exponents
    <3>3. f[next[s]] \in Int BY <3>2
    <3>4. f[s] = comb[s][f[next[s]]]
      <4> HIDE DEF next, comb, start
      <4> QED BY <1>4, <2>2, <3>1 DEF Unfolded
    <3> QED BY <2>2, <3>1, <3>3, <3>4
  <2> QED BY <2>1, <2>2
<1>6. Powered(f) BY <1>5 DEF Powered
<1> QED BY <1>6

\* The power, unfolded once.
LEMMA PowSteps ==
    ASSUME NEW b \in Int, NEW e \in Nat, NEW m \in Moduli
    PROVE  /\ Pow(b, 0, m) = 1 % m
           /\ Pow(b, e + 1, m) = (Pow(b, e, m) * (b % m)) % m
<1>1. Powers = CHOOSE f : Powered(f) BY DEF Powers, Powered, Exponents, Moduli
<1>2. Powered(Powers) BY <1>1, PowersEnd
<1> DEFINE f == Powers
<1>3. Powered(f) BY <1>2
<1> HIDE DEF f
<1>4. \A s \in Exponents : f[s] = IF s[2] = 0 THEN 1 % s[3] ELSE (f[<<s[1], s[2] - 1, s[3]>>] * (s[1] % s[3])) % s[3]
  BY <1>3 DEF Powered
<1>5. <<b, 0, m>> \in Exponents /\ <<b, e + 1, m>> \in Exponents /\ e + 1 # 0 /\ (e + 1) - 1 = e BY DEF Exponents
<1>6. f[<<b, 0, m>>] = 1 % m BY <1>4, <1>5
<1>7. f[<<b, e + 1, m>>] = (f[<<b, e, m>>] * (b % m)) % m BY <1>4, <1>5
<1> QED BY <1>6, <1>7 DEF Pow, f

\* A power modulo m is a remainder.
LEMMA PowType ==
    ASSUME NEW b \in Int, NEW m \in Moduli, NEW e \in Nat
    PROVE  Pow(b, e, m) \in Int /\ 0 <= Pow(b, e, m) /\ Pow(b, e, m) < m
<1> DEFINE A == {k \in Nat : Pow(b, k, m) \in Int /\ 0 <= Pow(b, k, m) /\ Pow(b, k, m) < m}
<1>0. m \in Nat /\ m > 0 BY DEF Moduli
<1>1. 0 \in A
  <2>1. Pow(b, 0, m) = 1 % m BY PowSteps
  <2> DEFINE one == 1
  <2>2. one \in Int OBVIOUS
  <2> HIDE DEF one
  <2>3. one % m \in Int /\ 0 <= one % m /\ one % m < m BY <1>0, <2>2, DivMod
  <2> QED BY <2>1, <2>3 DEF one
<1>2. ASSUME NEW k \in A PROVE k + 1 \in A
  <2> DEFINE v == Pow(b, k, m) * (b % m)
  <2>1. Pow(b, k + 1, m) = v % m BY PowSteps
  <2>2. b % m \in Int BY <1>0, DivMod
  <2>3. v \in Int BY <2>2
  <2> HIDE DEF v
  <2>4. v % m \in Int /\ 0 <= v % m /\ v % m < m BY <1>0, <2>3, DivMod
  <2> QED BY <2>1, <2>4
<1>3. A \in SUBSET Nat OBVIOUS
<1> HIDE DEF A
<1>4. A = Nat BY <1>1, <1>2, <1>3, AllNaturals
<1> QED BY <1>4 DEF A

\* The base may be reduced first.
LEMMA PowOfRemainder ==
    ASSUME NEW b \in Int, NEW m \in Moduli, NEW e \in Nat
    PROVE  Pow(b % m, e, m) = Pow(b, e, m)
<1> DEFINE A == {k \in Nat : Pow(b % m, k, m) = Pow(b, k, m)}
<1>0. b % m \in Int /\ (b % m) % m = b % m
  <2>1. m \in Nat /\ m > 0 /\ 0 \in Int BY DEF Moduli
  <2>2. (b % m) % m = b % m BY <2>1, RemainderOfFactor
  <2> QED BY <2>1, <2>2, DivMod
<1>1. 0 \in A BY <1>0, PowSteps
<1>2. ASSUME NEW k \in A PROVE k + 1 \in A
  <2>1. Pow(b % m, k + 1, m) = (Pow(b % m, k, m) * ((b % m) % m)) % m BY <1>0, PowSteps
  <2>2. Pow(b, k + 1, m) = (Pow(b, k, m) * (b % m)) % m BY PowSteps
  <2> QED BY <1>0, <2>1, <2>2
<1>3. A \in SUBSET Nat OBVIOUS
<1> HIDE DEF A
<1>4. A = Nat BY <1>1, <1>2, <1>3, AllNaturals
<1> QED BY <1>4 DEF A

\* Two factors are one square.
LEMMA PowOfSquare ==
    ASSUME NEW b \in Int, NEW m \in Moduli, NEW h \in Nat
    PROVE  Pow((b * b) % m, h, m) = Pow(b, 2 * h, m)
<1> DEFINE c == (b * b) % m   A == {k \in Nat : Pow(c, k, m) = Pow(b, 2 * k, m)}
<1>0. m \in Nat /\ m > 0 /\ b * b \in Int /\ c \in Int /\ b % m \in Int
  <2>1. m \in Nat /\ m > 0 /\ b * b \in Int BY DEF Moduli
  <2> QED BY <2>1, DivMod
<1> HIDE DEF c
<1>1. 0 \in A
  <2>1. Pow(c, 0, m) = 1 % m /\ Pow(b, 0, m) = 1 % m BY <1>0, PowSteps
  <2>2. 2 * 0 = 0 OBVIOUS
  <2> QED BY <2>1, <2>2
<1>2. ASSUME NEW k \in A PROVE k + 1 \in A
  <2> DEFINE p == Pow(b, 2 * k, m)   r == b % m   d == p * r
  <2>1. 2 * k \in Nat /\ 2 * k + 1 \in Nat /\ 2 * (k + 1) = (2 * k + 1) + 1 OBVIOUS
  <2>2. p \in Int /\ r \in Int /\ d \in Int BY <1>0, <2>1, PowType
  <2>3. Pow(c, k + 1, m) = (p * (c % m)) % m BY <1>0, PowSteps
  <2>4. Pow(b, 2 * k + 1, m) = d % m BY <2>1, PowSteps
  <2>5. Pow(b, 2 * (k + 1), m) = ((d % m) * r) % m
    <3>1. Pow(b, (2 * k + 1) + 1, m) = (Pow(b, 2 * k + 1, m) * r) % m BY <2>1, PowSteps
    <3> QED BY <2>1, <2>4, <3>1
  <2>6. c % m = c
    <3> DEFINE s == b * b
    <3>1. s \in Int BY <1>0
    <3> HIDE DEF s
    <3>2. (s % m) % m = s % m BY <3>1, <2>2, RemainderOfFactor
    <3> QED BY <3>2 DEF s, c
  <2>7. (p * c) % m = (p * (b * b)) % m
    <3> DEFINE s == b * b
    <3>1. s \in Int BY <1>0
    <3> HIDE DEF s, p
    <3>2. (p * (s % m)) % m = (p * s) % m BY <2>2, <3>1, RemainderOfFactor
    <3> QED BY <3>2 DEF s, c
  <2>8. ((d % m) * r) % m = (d * r) % m
    <3> HIDE DEF d, r
    <3> QED BY <2>2, RemainderOfFactor
  <2>9. (d * r) % m = (d * b) % m
    <3> HIDE DEF d
    <3> QED BY <2>2, RemainderOfFactor
  <2>10. d * b = (p * b) * r
    <3> HIDE DEF p, r
    <3> QED BY <2>2
  <2>11. ((p * b) * r) % m = ((p * b) * b) % m
    <3> DEFINE w == p * b
    <3>1. w \in Int BY <2>2
    <3> HIDE DEF w
    <3>2. (w * (b % m)) % m = (w * b) % m BY <3>1, RemainderOfFactor
    <3> QED BY <3>2 DEF w
  <2>12. (p * b) * b = p * (b * b)
    <3> HIDE DEF p
    <3> QED BY <2>2
  <2> QED BY <2>1, <2>3, <2>5, <2>6, <2>7, <2>8, <2>9, <2>10, <2>11, <2>12
<1>3. A \in SUBSET Nat OBVIOUS
<1> HIDE DEF A
<1>4. A = Nat BY <1>1, <1>2, <1>3, AllNaturals
<1> QED BY <1>4 DEF A, c

Loops == Int \X Int \X Nat \X Moduli
\* what one turn of the loop makes of its variables
Turned(s) == <<IF s[3] % 2 = 1 THEN (s[1] * s[2]) % s[4] ELSE s[1], (s[2] * s[2]) % s[4], s[3] \div 2, s[4]>>
Looped(f) == f = [s \in Loops |-> IF s[3] = 0 THEN s[1] ELSE f[Turned(s)]]

\* A turn of the loop halves the exponent.
LEMMA TurnedSmaller ==
    ASSUME NEW s \in Loops
    PROVE  /\ s[1] \in Int /\ s[2] \in Int /\ s[3] \in Nat /\ s[4] \in Moduli
           /\ Turned(s) \in Loops
           /\ s[3] # 0 => Turned(s)[3] < s[3]
<1>1. s[1] \in Int /\ s[2] \in Int /\ s[3] \in Nat /\ s[4] \in Moduli BY DEF Loops
<1> DEFINE m == s[4]  p == s[1] * s[2]  q == s[2] * s[2]  e == s[3]
<1>2. m \in Nat /\ m > 0 /\ p \in Int /\ q \in Int /\ e \in Nat BY <1>1 DEF Moduli
<1>3. p % m \in Int /\ q % m \in Int
  <2> HIDE DEF m, p, q
  <2> QED BY <1>2, DivMod
<1>4. e \div 2 \in Nat /\ (e # 0 => e \div 2 < e)
  <2> HIDE DEF e
  <2> QED BY <1>2
<1>5. Turned(s) = <<IF e % 2 = 1 THEN p % m ELSE s[1], q % m, e \div 2, m>> BY DEF Turned
<1>6. (IF e % 2 = 1 THEN p % m ELSE s[1]) \in Int BY <1>1, <1>3
<1> QED BY <1>1, <1>3, <1>4, <1>5, <1>6 DEF Loops

\* The loop of mod_pow ends.
LEMMA LoopEnds == \E f \in [Loops -> Int] : Looped(f)
<1> DEFINE size  == [s \in Loops |-> s[3]]
           Base  == {s \in Loops : s[3] = 0}
           next  == [s \in Loops \ Base |-> Turned(s)]
           start == [s \in Base |-> s[1]]
           comb  == [s \in Loops \ Base |-> [v \in Int |-> v]]
<1>1. Recursive(Loops, Int, size, Base, next, start, comb)
  <2>1. size \in [Loops -> Nat] BY TurnedSmaller
  <2>2. next \in [Loops \ Base -> Loops] BY TurnedSmaller
  <2>3. start \in [Base -> Int] BY TurnedSmaller
  <2>4. comb \in [Loops \ Base -> [Int -> Int]] OBVIOUS
  <2>5. ASSUME NEW s \in Loops \ Base PROVE size[next[s]] < size[s]
    <3>1. s[3] # 0 OBVIOUS
    <3>2. next[s] = Turned(s) OBVIOUS
    <3>3. Turned(s) \in Loops /\ Turned(s)[3] < s[3] BY <3>1, TurnedSmaller
    <3> QED BY <3>2, <3>3
  <2>6. Base \in SUBSET Loops OBVIOUS
  <2> HIDE DEF size, Base, next, start, comb
  <2> QED BY <2>1, <2>2, <2>3, <2>4, <2>5, <2>6 DEF Recursive
<1>2. PICK f \in [Loops -> Int] : \A s \in Loops : f[s] = Unfolded(f, s, Base, next, start, comb)
  <2> HIDE DEF size, Base, next, start, comb
  <2>1. 0 \in Int OBVIOUS
  <2> QED BY <1>1, <2>1, Recursion
<1>3. ASSUME NEW s \in Loops PROVE f[s] = IF s[3] = 0 THEN s[1] ELSE f[Turned(s)]
  <2>1. CASE s[3] = 0 BY <1>2, <2>1 DEF Unfolded
  <2>2. CASE s[3] # 0
    <3>1. s \in Loops \ Base /\ next[s] = Turned(s) /\ Turned(s) \in Loops BY <2>2, TurnedSmaller
    <3>2. f[next[s]] \in Int BY <3>1
    <3>3. f[s] = comb[s][f[next[s]]]
      <4> HIDE DEF next, comb, start
      <4> QED BY <1>2, <2>2, <3>1 DEF Unfolded
    <3> QED BY <2>2, <3>1, <3>2, <3>3
  <2> QED BY <2>1, <2>2
<1>4. Looped(f) BY <1>3 DEF Looped
<1> QED BY <1>4

\* What is left to do after r has been gathered.
LEMMA LoopIsRight ==
    ASSUME NEW m \in Moduli
    PROVE  \A s \in Loops : s[4] = m /\ s[1] \in 0 .. m - 1
               => SquareMultiply[s] = (s[1] * Pow(s[2], s[3], m)) % m
<1> DEFINE f == SquareMultiply
           size == [s \in Loops |-> s[3]]
           G == {s \in Loops : s[4] = m /\ s[1] \in 0 .. m - 1 => f[s] = (s[1] * Pow(s[2], s[3], m)) % m}
<1>1. SquareMultiply = CHOOSE g : Looped(g) BY DEF SquareMultiply, Looped, Loops, Moduli, Turned
<1>2. Looped(SquareMultiply) BY <1>1, LoopEnds
<1>3. \A s \in Loops : f[s] = IF s[3] = 0 THEN s[1] ELSE f[Turned(s)]
  <2> HIDE DEF f
  <2>1. Looped(f) BY <1>2 DEF f
  <2> QED BY <2>1 DEF Looped
<1> HIDE DEF f
<1>0. m \in Nat /\ m > 0 BY DEF Moduli
<1>4. ASSUME NEW s \in Loops, \A o \in Loops : size[o] < size[s] => o \in G
      PROVE  s \in G
  <2> SUFFICES ASSUME s[4] = m, s[1] \in 0 .. m - 1 PROVE f[s] = (s[1] * Pow(s[2], s[3], m)) % m
    OBVIOUS
  <2> DEFINE r == s[1]  b == s[2]  e == s[3]
  <2>1. r \in Int /\ 0 <= r /\ r < m /\ b \in Int /\ e \in Nat BY <1>0, TurnedSmaller
  <2>2. CASE e = 0
    <3>1. f[s] = r BY <1>3, <2>2
    <3>2. (r * (1 % m)) % m = (r * 1) % m
      <4> DEFINE one == 1
      <4>1. one \in Int OBVIOUS
      <4> HIDE DEF one, r
      <4>2. (r * (one % m)) % m = (r * one) % m BY <2>1, <4>1, RemainderOfFactor
      <4> QED BY <4>2 DEF one
    <3>3. r * 1 = r BY <2>1
    <3>4. r % m = r
      <4> DEFINE z == 0
      <4>1. z \in Int /\ r = m * z + r BY <1>0, <2>1
      <4> HIDE DEF z, r
      <4> QED BY <1>0, <2>1, <4>1, OneRemainder
    <3>5. Pow(b, 0, m) = 1 % m BY <2>1, PowSteps
    <3> QED BY <2>2, <3>1, <3>2, <3>3, <3>4, <3>5
  <2>3. CASE e # 0
    <3> DEFINE o == Turned(s)  h == e \div 2  c == (b * b) % m  p == Pow(b, 2 * h, m)
    <3>1. o \in Loops /\ size[o] < size[s] BY <2>3, TurnedSmaller
    <3>2. f[s] = f[o] BY <1>3, <2>3
    <3>3. o[2] = c /\ o[3] = h /\ o[4] = m BY DEF Turned
    <3>4. h \in Nat /\ 2 * h \in Nat BY <2>1
    <3>5. p \in Int /\ Pow(c, h, m) = p
      <4> HIDE DEF h, b, c
      <4>1. p \in Int BY <2>1, <3>4, PowType
      <4>2. Pow((b * b) % m, h, m) = p BY <2>1, <3>4, PowOfSquare
      <4> QED BY <4>1, <4>2 DEF c
    <3>6. o \in G BY <1>4, <3>1
    <3>7. CASE e % 2 = 1
      <4> DEFINE x == r * b
      <4>1. o[1] = x % m BY <3>7 DEF Turned
      <4>2. x \in Int BY <2>1
      <4>3. x % m \in Int /\ 0 <= x % m /\ x % m < m
        <5> HIDE DEF x
        <5> QED BY <1>0, <4>2, DivMod
      <4>4. o[1] \in 0 .. m - 1 BY <1>0, <4>1, <4>3
      <4>5. f[o] = ((x % m) * p) % m BY <3>3, <3>5, <3>6, <4>1, <4>4
      <4>6. f[o] = (x * p) % m
        <5> HIDE DEF x, p, o
        <5> QED BY <3>5, <4>2, <4>5, RemainderOfFactor
      <4>7. e = 2 * h + 1 BY <2>1, <3>7
      <4>8. Pow(b, e, m) = (p * (b % m)) % m
        <5> HIDE DEF h, b, e
        <5> QED BY <2>1, <3>4, <4>7, PowSteps
      <4>9. (p * (b % m)) % m = (p * b) % m
        <5> HIDE DEF p, b
        <5> QED BY <2>1, <3>5, RemainderOfFactor
      <4>10. (r * ((p * b) % m)) % m = (r * (p * b)) % m
        <5> DEFINE y == p * b
        <5>1. y \in Int BY <2>1, <3>5
        <5> HIDE DEF y, r
        <5>2. (r * (y % m)) % m = (r * y) % m BY <2>1, <5>1, RemainderOfFactor
        <5> QED BY <5>2 DEF y
      <4>11. r * (p * b) = x * p
        <5> HIDE DEF p, r, b
        <5> QED BY <2>1, <3>5 DEF x
      <4> QED BY <3>2, <4>6, <4>8, <4>9, <4>10, <4>11
    <3>8. CASE e % 2 # 1
      <4>1. o[1] = r BY <3>8 DEF Turned
      <4>2. e = 2 * h BY <2>1, <3>8
      <4>3. o[1] \in 0 .. m - 1 BY <1>0, <4>1, <2>1
      <4> QED BY <3>2, <3>3, <3>5, <3>6, <4>1, <4>2, <4>3
    <3> QED BY <3>7, <3>8
  <2> QED BY <2>2, <2>3
<1>5. G \in SUBSET Loops /\ size \in [Loops -> Nat] BY TurnedSmaller
<1> HIDE DEF G, size
<1>6. G = Loops BY <1>4, <1>5, ByMeasure
<1> QED BY <1>6 DEF G, f

\* mod_pow's squaring and multiplying computes the power modulo m, of any base.
THEOREM PowersAreRight ==
    \A base \in Int, exp \in Nat, m \in Nat \ {0} : ModPowImpl(base, exp, m) = Pow(base, exp, m)
<1> SUFFICES ASSUME NEW base \in Int, NEW exp \in Nat, NEW m \in Nat \ {0}
             PROVE  ModPowImpl(base, exp, m) = Pow(base, exp, m)
  OBVIOUS
<1>1. m \in Moduli /\ m \in Nat /\ m > 0 BY DEF Moduli
<1>2. Pow(base, exp, m) \in Int /\ 0 <= Pow(base, exp, m) /\ Pow(base, exp, m) < m BY <1>1, PowType
<1>3. CASE m = 1
  <2>1. Pow(base, exp, m) = 0 BY <1>2, <1>3
  <2> QED BY <1>3, <2>1 DEF ModPowImpl
<1>4. CASE m # 1
  <2> DEFINE n == base % m   s == <<1, n, exp, m>>   p == Pow(n, exp, m)
  <2>1. Normal(base, m) = n BY NormalIsModulo
  <2>2. n \in Int BY <1>1, DivMod
  <2>3. s \in Loops /\ s[1] = 1 /\ s[2] = n /\ s[3] = exp /\ s[4] = m BY <1>1, <2>2 DEF Loops
  <2>4. s[1] \in 0 .. m - 1 BY <1>1, <1>4, <2>3
  <2>5. SquareMultiply[s] = (1 * p) % m
    <3> HIDE DEF s, n
    <3> QED BY <1>1, <2>3, <2>4, LoopIsRight
  <2>6. p = Pow(base, exp, m) BY <1>1, PowOfRemainder
  <2>7. 1 * p = p BY <1>2, <2>6
  <2>8. p % m = p
    <3> DEFINE z == 0
    <3>1. z \in Int /\ p = m * z + p BY <1>1, <1>2, <2>6
    <3> HIDE DEF z, p
    <3> QED BY <1>1, <1>2, <2>6, <3>1, OneRemainder
  <2> QED BY <1>4, <2>1, <2>5, <2>6, <2>7, <2>8 DEF ModPowImpl
<1> QED BY <1>3, <1>4

-----------------------------------------------------------------------------
(* The sieve.                                                              *)

\* What is left when the numbers below i have been struck out.
LeftBefore(i, n) == {j \in 2 .. n : \A d \in 2 .. i - 1 : ~(d * d <= j /\ j % d = 0)}
\* The primes up to n, by definition.
PrimesTo(n) == {j \in 2 .. n : \A d \in 2 .. j - 1 : j % d # 0}
Sieves == (SUBSET Nat) \X (Nat \ {0}) \X Nat
Struck(s) == <<IF s[2] \in s[1] THEN StruckOut(s[1], s[2], s[3]) ELSE s[1], s[2] + 1, s[3]>>
Sieving(f) == f = [s \in Sieves |-> IF s[2] * s[2] > s[3] THEN s[1] ELSE f[Struck(s)]]
RoomIn == [s \in Sieves |-> IF s[2] * s[2] > s[3] THEN 0 ELSE s[3] - s[2] + 1]

\* A number is at most its square.
LEMMA SquareGrows == ASSUME NEW i \in Nat, i > 0 PROVE i * i \in Nat /\ i <= i * i
<1>1. i * i >= i * 1 OBVIOUS
<1> QED BY <1>1

\* A number with a divisor has one whose square it reaches.
LEMMA SmallDivisor ==
    ASSUME NEW j \in Nat, j >= 2, NEW d \in 2 .. j - 1, j % d = 0
    PROVE  \E c \in 2 .. j - 1 : c * c <= j /\ j % c = 0
<1> DEFINE q == j \div d
<1>1. d \in Nat /\ d >= 2 /\ d < j OBVIOUS
<1>2. q \in Int /\ j = d * q
  <2>1. j \div d \in Int /\ j = d * (j \div d) + (j % d) BY <1>1, DivMod
  <2>2. j = d * q + 0 BY <2>1
  <2> HIDE DEF q
  <2>3. j = d * q BY <1>1, <2>1, <2>2 DEF q
  <2> QED BY <2>1, <2>3 DEF q
<1> HIDE DEF q
<1>3. CASE d * d <= j BY <1>1, <1>3
<1>4. CASE ~(d * d <= j)
  <2>1. q >= 2
    <3>1. ASSUME q <= 0 PROVE FALSE
      <4>1. d * q <= d * 0 BY <1>1, <1>2, <3>1
      <4> QED BY <1>2, <4>1
    <3>2. q # 1 BY <1>1, <1>2
    <3> QED BY <1>2, <3>1, <3>2
  <2>2. q < d
    <3>1. ASSUME q >= d PROVE FALSE
      <4>1. d * q >= d * d BY <1>1, <1>2, <3>1
      <4> DEFINE dd == d * d
      <4>2. dd \in Int /\ j >= dd /\ ~(dd <= j) BY <1>1, <1>2, <1>4, <4>1
      <4> HIDE DEF dd
      <4> QED BY <4>2
    <3> QED BY <1>1, <1>2, <3>1
  <2>3. q * q <= j
    <3>1. q * q <= q * d BY <1>1, <1>2, <2>1, <2>2
    <3>2. q * d = j BY <1>1, <1>2
    <3> QED BY <3>1, <3>2
  <2>4. j % q = 0
    <3> DEFINE z == 0
    <3>1. q \in Nat /\ q > 0 /\ z \in Int /\ 0 <= z /\ z < q /\ j = q * d + z BY <1>1, <1>2, <2>1
    <3> HIDE DEF z
    <3>2. z = j % q BY <1>1, <3>1, OneRemainder
    <3> QED BY <3>2 DEF z
  <2>5. q \in 2 .. j - 1 BY <1>1, <1>2, <2>1, <2>2
  <2> QED BY <2>3, <2>4, <2>5
<1> QED BY <1>3, <1>4

\* A turn of the sieve leaves it less room.
LEMMA StruckSmaller ==
    ASSUME NEW s \in Sieves
    PROVE  /\ s[1] \in SUBSET Nat /\ s[2] \in Nat /\ s[2] > 0 /\ s[3] \in Nat
           /\ Struck(s) \in Sieves /\ RoomIn[s] \in Nat
           /\ ~(s[2] * s[2] > s[3]) => RoomIn[Struck(s)] < RoomIn[s]
<1>1. s[1] \in SUBSET Nat /\ s[2] \in Nat /\ s[2] > 0 /\ s[3] \in Nat BY DEF Sieves
<1>2. Struck(s) \in Sieves
  <2>1. StruckOut(s[1], s[2], s[3]) \in SUBSET Nat BY <1>1 DEF StruckOut
  <2>2. s[2] + 1 \in Nat \ {0} BY <1>1
  <2> QED BY <1>1, <2>1, <2>2 DEF Sieves, Struck
<1> DEFINE i == s[2]  n == s[3]  sq == i * i  sr == (i + 1) * (i + 1)
<1>3. sq \in Nat /\ i <= sq BY <1>1, SquareGrows
<1>4. RoomIn[s] = IF sq > n THEN 0 ELSE n - i + 1 BY DEF RoomIn
<1>5. RoomIn[Struck(s)] = IF sr > n THEN 0 ELSE n - (i + 1) + 1
  <2>1. Struck(s)[2] = i + 1 /\ Struck(s)[3] = n BY DEF Struck
  <2> QED BY <1>2, <2>1 DEF RoomIn
<1> HIDE DEF i, n, sq, sr
<1>6. i \in Nat /\ n \in Nat BY <1>1 DEF i, n
<1>7. RoomIn[s] \in Nat BY <1>3, <1>4, <1>6
<1>8. ~(sq > n) => RoomIn[Struck(s)] < RoomIn[s] BY <1>3, <1>4, <1>5, <1>6
<1> QED BY <1>1, <1>2, <1>7, <1>8 DEF sq, i, n

\* The loop of the sieve ends.
LEMMA SieveEnds == \E f \in [Sieves -> SUBSET Nat] : Sieving(f)
<1> DEFINE Base  == {s \in Sieves : s[2] * s[2] > s[3]}
           next  == [s \in Sieves \ Base |-> Struck(s)]
           start == [s \in Base |-> s[1]]
           comb  == [s \in Sieves \ Base |-> [v \in SUBSET Nat |-> v]]
<1>1. Recursive(Sieves, SUBSET Nat, RoomIn, Base, next, start, comb)
  <2>1. RoomIn \in [Sieves -> Nat]
    <3>1. \A s \in Sieves : RoomIn[s] \in Nat BY StruckSmaller
    <3>2. RoomIn = [s \in Sieves |-> RoomIn[s]] BY DEF RoomIn
    <3> HIDE DEF RoomIn
    <3> QED BY <3>1, <3>2
  <2>2. next \in [Sieves \ Base -> Sieves] BY StruckSmaller
  <2>3. start \in [Base -> SUBSET Nat]
    <3>1. \A s \in Base : s[1] \in SUBSET Nat BY StruckSmaller
    <3> QED BY <3>1
  <2>4. comb \in [Sieves \ Base -> [SUBSET Nat -> SUBSET Nat]] OBVIOUS
  <2>5. ASSUME NEW s \in Sieves \ Base PROVE RoomIn[next[s]] < RoomIn[s]
    <3>1. ~(s[2] * s[2] > s[3]) /\ s \in Sieves OBVIOUS
    <3>2. next[s] = Struck(s) OBVIOUS
    <3> HIDE DEF next, Base
    <3> QED BY <3>1, <3>2, StruckSmaller
  <2>6. Base \in SUBSET Sieves OBVIOUS
  <2> HIDE DEF Base, next, start, comb
  <2> QED BY <2>1, <2>2, <2>3, <2>4, <2>5, <2>6 DEF Recursive
<1>2. PICK f \in [Sieves -> SUBSET Nat] : \A s \in Sieves : f[s] = Unfolded(f, s, Base, next, start, comb)
  <2> DEFINE T == SUBSET Nat
  <2>1. {} \in T OBVIOUS
  <2>2. Recursive(Sieves, T, RoomIn, Base, next, start, comb) BY <1>1
  <2> HIDE DEF T, Base, next, start, comb
  <2>3. \E f \in [Sieves -> T] : \A s \in Sieves : f[s] = Unfolded(f, s, Base, next, start, comb)
    BY <2>1, <2>2, Recursion
  <2> QED BY <2>3 DEF T
<1>3. ASSUME NEW s \in Sieves PROVE f[s] = IF s[2] * s[2] > s[3] THEN s[1] ELSE f[Struck(s)]
  <2>1. CASE s[2] * s[2] > s[3] BY <1>2, <2>1 DEF Unfolded
  <2>2. CASE ~(s[2] * s[2] > s[3])
    <3>1. s \in Sieves \ Base /\ next[s] = Struck(s) /\ Struck(s) \in Sieves BY <2>2, StruckSmaller
    <3>2. f[next[s]] \in SUBSET Nat BY <3>1
    <3>3. s \notin Base BY <2>2
    <3>4. f[s] = comb[s][f[next[s]]]
      <4> HIDE DEF Base, next, comb, start
      <4> QED BY <1>2, <3>3 DEF Unfolded
    <3>5. comb[s] = [v \in SUBSET Nat |-> v] BY <3>1
    <3>6. comb[s][f[next[s]]] = f[next[s]] BY <3>2, <3>5
    <3> QED BY <2>2, <3>1, <3>4, <3>6
  <2> QED BY <2>1, <2>2
<1>4. Sieving(f) BY <1>3 DEF Sieving
<1> QED BY <1>4

\* Striking out the multiples of i, where i is still there, leaves what has no
\* divisor up to i; where it is not, its multiples are gone with its divisors.
LEMMA StrikeOut ==
    ASSUME NEW i \in Nat, i >= 2, NEW n \in Nat, i * i <= n
    PROVE  LeftBefore(i + 1, n) = IF i \in LeftBefore(i, n) THEN StruckOut(LeftBefore(i, n), i, n) ELSE LeftBefore(i, n)
<1> DEFINE L == LeftBefore(i, n)   sq == i * i
<1>0. sq \in Nat /\ i <= sq /\ sq <= n BY SquareGrows
<1>1. ASSUME NEW j \in 2 .. n
      PROVE  j \in LeftBefore(i + 1, n) <=> j \in L /\ ~(sq <= j /\ j % i = 0)
  <2> DEFINE P(d) == d * d <= j /\ j % d = 0
  <2>1. i \in 2 .. (i + 1) - 1 /\ \A d \in 2 .. i - 1 : d \in 2 .. (i + 1) - 1 OBVIOUS
  <2>2. \A d \in 2 .. (i + 1) - 1 : d \in 2 .. i - 1 \/ d = i OBVIOUS
  <2>3. j \in LeftBefore(i + 1, n) <=> \A d \in 2 .. (i + 1) - 1 : ~P(d) BY DEF LeftBefore
  <2>4. j \in L <=> \A d \in 2 .. i - 1 : ~P(d) BY DEF LeftBefore
  <2>5. P(i) <=> sq <= j /\ j % i = 0 OBVIOUS
  <2> HIDE DEF P, L, sq
  <2> QED BY <2>1, <2>2, <2>3, <2>4, <2>5
<1>2. LeftBefore(i + 1, n) \subseteq 2 .. n /\ L \subseteq 2 .. n BY DEF LeftBefore
<1>3. ASSUME NEW j \in 2 .. n, sq <= j
      PROVE  (j - sq) % i = 0 <=> j % i = 0
  <2> DEFINE k == j - sq
  <2>1. j \in Int /\ k \in Int /\ j - k = i * i BY <1>0
  <2>2. Divisor(i, j - k) BY <2>1 DEF Divisor
  <2> HIDE DEF k, L, sq
  <2>3. j \in Int /\ k \in Int /\ i \in Nat /\ i > 0 BY <2>1
  <2>4. j % i = k % i <=> Divisor(i, j - k) BY <2>3, OneRemainderIff
  <2>5. j % i = k % i BY <2>2, <2>4
  <2> QED BY <2>5 DEF k
<1>4. CASE i \in L
  <2>1. ASSUME NEW j \in 2 .. n
        PROVE  j \in StruckOut(L, i, n) <=> j \in L /\ ~(sq <= j /\ j % i = 0)
    <3>1. j \in sq .. n <=> sq <= j BY <1>0
    <3> HIDE DEF L
    <3> QED BY <1>3, <3>1 DEF StruckOut
  <2>2. StruckOut(L, i, n) \subseteq 2 .. n BY <1>2 DEF StruckOut
  <2> HIDE DEF L
  <2>3. LeftBefore(i + 1, n) = StruckOut(L, i, n) BY <1>1, <1>2, <2>1, <2>2
  <2> QED BY <1>4, <2>3 DEF L
<1>5. CASE i \notin L
  <2>1. i \in 2 .. n BY <1>0
  <2>2. PICK d \in 2 .. i - 1 : d * d <= i /\ i % d = 0 BY <1>5, <2>1 DEF LeftBefore
  <2>3. d \in Nat /\ d > 0 BY <2>2
  <2>4. PICK q \in Int : i = d * q
    <3>1. i = d * (i \div d) + (i % d) /\ i \div d \in Int BY <2>3, DivMod
    <3> QED BY <2>2, <3>1
  <2>5. ASSUME NEW j \in L, sq <= j, j % i = 0 PROVE FALSE
    <3>1. j \in Nat /\ j \in 2 .. n BY <1>2
    <3>2. PICK p \in Int : j = i * p
      <4>1. j = i * (j \div i) + (j % i) /\ j \div i \in Int BY <3>1, DivMod
      <4> QED BY <2>5, <4>1
    <3>3. j - 0 = d * (q * p) /\ q * p \in Int BY <2>3, <2>4, <3>2
    <3>4. j % d = 0
      <4> DEFINE w == q * p  z == 0
      <4>1. w \in Int /\ z \in Int /\ j = d * w + z /\ 0 <= z /\ z < d BY <2>3, <3>1, <3>3
      <4> HIDE DEF w, z
      <4>2. z = j % d BY <2>3, <3>1, <4>1, OneRemainder
      <4> QED BY <4>2 DEF z
    <3>5. d * d <= j
      <4> DEFINE dd == d * d
      <4>1. dd \in Nat /\ dd <= i BY <2>2, <2>3
      <4> HIDE DEF dd
      <4>2. dd <= j BY <1>0, <2>5, <3>1, <4>1
      <4> QED BY <4>2 DEF dd
    <3> QED BY <2>2, <2>5, <3>4, <3>5 DEF LeftBefore
  <2> HIDE DEF L
  <2>6. LeftBefore(i + 1, n) = L BY <1>1, <1>2, <2>5
  <2> QED BY <1>5, <2>6 DEF L
<1> QED BY <1>4, <1>5

\* The sieve leaves the numbers up to n that have no divisor but one and
\* themselves.
THEOREM SieveIsRight ==
    \A n \in Nat : Sieve[<<2 .. n, 2, n>>] = PrimesTo(n)
<1> SUFFICES ASSUME NEW n \in Nat PROVE Sieve[<<2 .. n, 2, n>>] = PrimesTo(n)
  OBVIOUS
<1> DEFINE f == Sieve
           G == {s \in Sieves : s[3] = n /\ s[2] >= 2 /\ s[1] = LeftBefore(s[2], n) => f[s] = PrimesTo(n)}
<1>1. Sieve = CHOOSE g : Sieving(g) BY DEF Sieve, Sieving, Sieves, Struck
<1>2. Sieving(Sieve) BY <1>1, SieveEnds
<1>3. \A s \in Sieves : f[s] = IF s[2] * s[2] > s[3] THEN s[1] ELSE f[Struck(s)]
  <2> HIDE DEF f
  <2>1. Sieving(f) BY <1>2 DEF f
  <2> QED BY <2>1 DEF Sieving
<1> HIDE DEF f
<1>4. ASSUME NEW s \in Sieves, \A o \in Sieves : RoomIn[o] < RoomIn[s] => o \in G
      PROVE  s \in G
  <2> SUFFICES ASSUME s[3] = n, s[2] >= 2, s[1] = LeftBefore(s[2], n) PROVE f[s] = PrimesTo(n)
    OBVIOUS
  <2> DEFINE i == s[2]
  <2>1. i \in Nat /\ i >= 2 BY StruckSmaller
  <2>2. CASE i * i > n
    <3>1. f[s] = LeftBefore(i, n) BY <1>3, <2>2
    <3>2. ASSUME NEW j \in 2 .. n, NEW d \in Nat, d >= 2, d * d <= j PROVE d < i /\ d < j
      <4>1. ASSUME d >= i PROVE FALSE
        <5>1. d * d >= i * i
          <6>1. d * d >= d * i BY <2>1, <4>1
          <6>2. d * i >= i * i BY <2>1, <4>1
          <6> HIDE DEF i
          <6>3. d * d \in Int /\ d * i \in Int /\ i * i \in Int BY <2>1
          <6> DEFINE A == d * d  B == d * i  C == i * i
          <6>4. A \in Int /\ B \in Int /\ C \in Int /\ A >= B /\ B >= C BY <6>1, <6>2, <6>3
          <6> HIDE DEF A, B, C
          <6>5. A >= C BY <6>4
          <6> QED BY <6>5 DEF A, C
        <5> DEFINE A == d * d  C == i * i
        <5>2. A \in Int /\ C \in Int /\ A >= C /\ A <= j /\ C > n /\ j <= n /\ j \in Int BY <2>1, <2>2, <3>2, <5>1
        <5> HIDE DEF A, C
        <5> QED BY <5>2
      <4>2. ASSUME d >= j PROVE FALSE
        <5>1. d * d >= 2 * d BY <3>2
        <5> DEFINE A == d * d
        <5>2. A \in Int /\ A >= 2 * d /\ A <= j BY <3>2, <5>1
        <5> HIDE DEF A
        <5> QED BY <3>2, <4>2, <5>2
      <4> QED BY <2>1, <4>1, <4>2
    <3>3. ASSUME NEW j \in 2 .. n
          PROVE  j \in LeftBefore(i, n) <=> j \in PrimesTo(n)
      <4>1. \A d \in 2 .. i - 1 : d \in Nat /\ d >= 2 OBVIOUS
      <4>2. \A d \in 2 .. j - 1 : d \in Nat /\ d >= 2 OBVIOUS
      <4>3. \A d \in Nat : d >= 2 /\ d * d <= j => d \in 2 .. i - 1 /\ d \in 2 .. j - 1
        <5> HIDE DEF i
        <5> QED BY <2>1, <3>2
      <4> HIDE DEF i
      <4>4. (\E d \in 2 .. j - 1 : j % d = 0) => \E d \in 2 .. j - 1 : d * d <= j /\ j % d = 0
        <5>1. j \in Nat /\ j >= 2 OBVIOUS
        <5> QED BY <5>1, SmallDivisor
      <4>5. j \in PrimesTo(n) <=> \A d \in 2 .. j - 1 : ~(d * d <= j /\ j % d = 0) BY <4>4 DEF PrimesTo
      <4> QED BY <4>1, <4>2, <4>3, <4>5 DEF LeftBefore
    <3>4. LeftBefore(i, n) = PrimesTo(n)
      <4>1. LeftBefore(i, n) \subseteq 2 .. n /\ PrimesTo(n) \subseteq 2 .. n BY DEF LeftBefore, PrimesTo
      <4> QED BY <3>3, <4>1
    <3> QED BY <3>1, <3>4
  <2>3. CASE ~(i * i > n)
    <3> DEFINE o == Struck(s)
    <3>1. i * i <= n
      <4> DEFINE sq == i * i
      <4>1. sq \in Int BY <2>1
      <4>2. ~(sq > n) BY <2>3
      <4> HIDE DEF sq
      <4>3. sq <= n BY <4>1, <4>2
      <4> QED BY <4>3 DEF sq
    <3>2. o \in Sieves /\ RoomIn[o] < RoomIn[s] BY <2>3, StruckSmaller
    <3>3. f[s] = f[o] BY <1>3, <2>3
    <3>4. o[2] = i + 1 /\ o[3] = n /\ o[2] >= 2 BY <2>1 DEF Struck
    <3>5. o[1] = LeftBefore(i + 1, n)
      <4>1. o[1] = IF i \in LeftBefore(i, n) THEN StruckOut(LeftBefore(i, n), i, n) ELSE LeftBefore(i, n)
        BY DEF Struck
      <4> HIDE DEF i, o
      <4> QED BY <2>1, <3>1, <4>1, StrikeOut
    <3>6. o \in G BY <1>4, <3>2
    <3> QED BY <3>3, <3>4, <3>5, <3>6
  <2> QED BY <2>2, <2>3
<1>5. G \in SUBSET Sieves /\ RoomIn \in [Sieves -> Nat]
  <2>1. \A s \in Sieves : RoomIn[s] \in Nat BY StruckSmaller
  <2>2. RoomIn = [s \in Sieves |-> RoomIn[s]] BY DEF RoomIn
  <2> HIDE DEF RoomIn
  <2>3. RoomIn \in [Sieves -> Nat] BY <2>1, <2>2
  <2> QED BY <2>3
<1> HIDE DEF G
<1>6. G = Sieves BY <1>4, <1>5, ByMeasure
<1>7. <<2 .. n, 2, n>> \in Sieves
  <2>1. 2 .. n \in SUBSET Nat OBVIOUS
  <2> QED BY <2>1 DEF Sieves
<1>8. LeftBefore(2, n) = 2 .. n BY DEF LeftBefore
<1>9. <<2 .. n, 2, n>> \in G BY <1>6, <1>7
<1> QED BY <1>8, <1>9 DEF G, f

-----------------------------------------------------------------------------
(* Congruences.                                                            *)

\* Rust's remainder is zero for the multiples.
LEMMA RemOfMultiple ==
    ASSUME NEW d \in Int, NEW g \in Int, g > 0
    PROVE  Rem(d, g) = 0 <=> Divisor(g, d)
<1> DEFINE q == Quo(d, g)  r == Rem(d, g)
<1>1. q \in Int /\ r \in Int /\ d = g * q + r /\ Magnitude(r) < Magnitude(g) BY RemaindersTruncate
<1>2. -g < r /\ r < g BY <1>1 DEF Magnitude
<1> HIDE DEF q, r
<1>3. ASSUME r = 0 PROVE Divisor(g, d)
  <2>1. d = g * q BY <1>1, <1>3
  <2> QED BY <1>1, <2>1 DEF Divisor
<1>4. ASSUME NEW k \in Int, d = g * k PROVE r = 0
  <2>1. r = g * (k - q) BY <1>1, <1>4
  <2> DEFINE j == k - q
  <2>2. j \in Int /\ g * j < g /\ -g < g * j BY <1>1, <1>2, <2>1
  <2> HIDE DEF j
  <2>3. j = 0 BY <2>2, Squeezed
  <2>4. r = g * j BY <2>1 DEF j
  <2> QED BY <2>3, <2>4
<1> QED BY <1>3, <1>4 DEF Divisor, r

\* A common multiple of m = g * p and n = g * q is one of g * p * q, if p and q
\* have no common divisor.
LEMMA CommonMultiple ==
    ASSUME NEW g \in Int, g > 0, NEW p \in Int, NEW q \in Int, NEW x \in Int, NEW y \in Int,
           g * p * x + g * q * y = g, NEW d \in Int
    PROVE  Divisor(g * p, d) /\ Divisor(g * q, d) <=> Divisor(p * (g * q), d)
<1>1. p * x + q * y = 1
  <2> DEFINE k == p * x + q * y - 1
  <2>1. k \in Int /\ g * k = 0 OBVIOUS
  <2> HIDE DEF k
  <2>2. k = 0
    <3>1. g * k < g /\ -g < g * k BY <2>1
    <3> QED BY <2>1, <3>1, Squeezed
  <2> QED BY <2>2 DEF k
<1>2. ASSUME NEW k \in Int, d = p * (g * q) * k PROVE Divisor(g * p, d) /\ Divisor(g * q, d)
  <2>1. d = g * p * (q * k) /\ d = g * q * (p * k) BY <1>2
  <2>2. q * k \in Int /\ p * k \in Int OBVIOUS
  <2> QED BY <2>1, <2>2 DEF Divisor
<1>3. ASSUME NEW a \in Int, NEW b \in Int, d = g * p * a, d = g * q * b PROVE Divisor(p * (g * q), d)
  <2>1. p * a = q * b
    <3> DEFINE k == p * a - q * b
    <3>1. k \in Int /\ g * k = 0 BY <1>3
    <3> HIDE DEF k
    <3>2. k = 0
      <4>1. g * k < g /\ -g < g * k BY <3>1
      <4> QED BY <3>1, <4>1, Squeezed
    <3>3. p * a - q * b = 0 BY <3>2 DEF k
    <3> DEFINE A == p * a  B == q * b
    <3>4. A \in Int /\ B \in Int /\ A - B = 0 BY <3>3
    <3> HIDE DEF A, B
    <3>5. A = B BY <3>4
    <3> QED BY <3>5 DEF A, B
  <2>2. a = q * (b * x + a * y)
    <3>1. a = a * (p * x + q * y) BY <1>1
    <3>2. a * (p * x + q * y) = (p * a) * x + q * (a * y) OBVIOUS
    <3>3. (p * a) * x = q * (b * x)
      <4>1. (p * a) * x = (q * b) * x BY <2>1
      <4> QED BY <4>1
    <3>4. q * (b * x) + q * (a * y) = q * (b * x + a * y) OBVIOUS
    <3> DEFINE P == p * x + q * y  A == (p * a) * x  B == q * (a * y)  C == q * (b * x)  D == q * (b * x + a * y)
    <3>5. a = a * P /\ a * P = A + B /\ A = C /\ C + B = D BY <3>1, <3>2, <3>3, <3>4
    <3> HIDE DEF P, A, B, C, D
    <3>6. a = D BY <3>5
    <3> QED BY <3>6 DEF D
  <2> DEFINE w == b * x + a * y
  <2>3. w \in Int OBVIOUS
  <2>4. a = q * w BY <2>2
  <2> HIDE DEF w
  <2>5. d = p * (g * q) * w
    <3>1. d = g * p * (q * w) BY <1>3, <2>4
    <3> QED BY <2>3, <3>1
  <2> QED BY <2>3, <2>5 DEF Divisor
<1> QED BY <1>2, <1>3 DEF Divisor

\* A step of crt: the one congruence it makes of two has their solutions, and
\* where it finds them incompatible they have none.
LEMMA CrtMerge ==
    ASSUME NEW r \in Int, NEW m \in Nat, m > 0, NEW s \in Int, NEW n \in Nat, n > 0
    PROVE  \/ /\ CrtStep(Ok(<<r, m>>), <<s, n>>) = BadArguments
              /\ \A z \in Int : ~(Divisor(m, z - r) /\ Divisor(n, z - s))
           \/ \E u \in Int, w \in Int :
                 /\ CrtStep(Ok(<<r, m>>), <<s, n>>) = Ok(<<u, w>>) /\ 0 <= u /\ u < w
                 /\ \A z \in Int : Divisor(m, z - r) /\ Divisor(n, z - s) <=> Divisor(w, z - u)
<1> DEFINE t == Normal(s, n)  diff == t - r  e == ExtendedGcd[<<m, n>>]  g == e[1]  x == e[2]  y == e[3]
           c == Quo(diff, g)  step == Rem(c * x, n)  lcm == (m \div g) * n  u == Normal(r + m * step, lcm)
           stepped == CrtStep(Ok(<<r, m>>), <<s, n>>)
<1>1. stepped = IF Rem(diff, g) # 0 THEN BadArguments ELSE Ok(<<u, lcm>>)
  <2>1. Magnitude(n) = n BY DEF Magnitude
  <2>2. Ok(<<r, m>>).ok /\ Ok(<<r, m>>).is[1] = r /\ Ok(<<r, m>>).is[2] = m BY DEF Ok
  <2>3. <<s, n>>[1] = s /\ <<s, n>>[2] = n OBVIOUS
  <2> QED BY <2>1, <2>2, <2>3 DEF CrtStep
<1>2. t \in Int /\ Divisor(n, s - t)
  <2>1. t = s % n BY NormalIsModulo
  <2>2. s = n * (s \div n) + (s % n) /\ s \div n \in Int /\ s % n \in Int BY DivMod
  <2> HIDE DEF t
  <2>3. t \in Int /\ s - t = n * (s \div n) BY <2>1, <2>2
  <2> QED BY <2>2, <2>3 DEF Divisor
<1>3. /\ g \in Int /\ x \in Int /\ y \in Int /\ m * x + n * y = g
      /\ Divisor(g, m) /\ Divisor(g, n) /\ g >= 0
  <2>1. RightBezout(e, m, n) BY EuclidIsRight
  <2> HIDE DEF e
  <2> QED BY <2>1 DEF RightBezout, Triples
<1> HIDE DEF t, e, g, x, y, stepped
<1>4. PICK p \in Int : m = g * p BY <1>3 DEF Divisor
<1>5. PICK q \in Int : n = g * q BY <1>3 DEF Divisor
<1>6. g > 0
  <2>1. ASSUME g = 0 PROVE FALSE BY <1>4, <2>1
  <2> QED BY <1>3, <2>1
<1>7. p > 0
  <2>1. ASSUME p <= 0 PROVE FALSE
    <3>1. g * p <= g * 0 BY <1>6, <2>1, <1>3
    <3> QED BY <1>3, <1>4, <3>1
  <2> QED BY <2>1
<1>8. lcm = p * n /\ lcm \in Int /\ lcm > 0
  <2>1. m \div g = p
    <3> DEFINE z == 0
    <3>1. z \in Int /\ 0 <= z /\ z < g /\ m = g * p + z /\ m \in Int /\ g \in Nat BY <1>3, <1>4, <1>6
    <3> HIDE DEF z
    <3> QED BY <1>6, <3>1, OneRemainder
  <2>2. lcm = p * n BY <2>1
  <2>3. p * n >= 1 * n BY <1>7
  <2> HIDE DEF lcm
  <2> DEFINE pn == p * n
  <2>4. pn \in Int /\ pn >= n BY <2>3
  <2> HIDE DEF pn
  <2>5. pn > 0 BY <2>4
  <2> QED BY <2>2, <2>4, <2>5 DEF pn
<1>9. diff \in Int BY <1>2
<1> HIDE DEF lcm
<1>10. CASE Rem(diff, g) # 0
  <2>1. ASSUME NEW z \in Int, NEW a \in Int, NEW b \in Int, z - r = m * a, z - s = n * b PROVE FALSE
    <3>1. PICK k \in Int : s - t = n * k BY <1>2 DEF Divisor
    <3>2. diff = m * a - n * (b + k) BY <1>2, <2>1, <3>1
    <3>3. m * a = g * (p * a)
      <4>1. m * a = (g * p) * a BY <1>4
      <4> QED BY <1>3, <4>1
    <3>4. n * (b + k) = g * (q * (b + k))
      <4>1. n * (b + k) = (g * q) * (b + k) BY <1>5
      <4> QED BY <1>3, <4>1
    <3> DEFINE A == p * a  B == q * (b + k)
    <3>5. A \in Int /\ B \in Int /\ diff = g * A - g * B BY <3>2, <3>3, <3>4
    <3> HIDE DEF A, B, diff
    <3>6. A - B \in Int /\ diff = g * (A - B) BY <1>3, <3>5
    <3>7. Divisor(g, diff) BY <3>6 DEF Divisor
    <3> QED BY <1>3, <1>6, <1>9, <1>10, <3>7, RemOfMultiple
  <2>2. \A z \in Int : ~(Divisor(m, z - r) /\ Divisor(n, z - s)) BY <2>1 DEF Divisor
  <2> HIDE DEF diff
  <2>3. stepped = BadArguments BY <1>1, <1>10
  <2> QED BY <2>2, <2>3 DEF stepped
<1>11. CASE Rem(diff, g) = 0
  <2>1. c \in Int /\ diff = g * c
    <3> HIDE DEF diff
    <3>1. g \in Int \ {0} BY <1>3, <1>6
    <3>2. Quo(diff, g) \in Int /\ Rem(diff, g) \in Int /\ diff = g * Quo(diff, g) + Rem(diff, g)
      BY <1>9, <3>1, RemaindersTruncate
    <3> DEFINE k == Quo(diff, g)
    <3> HIDE DEF k
    <3>3. k \in Int /\ diff = g * k + 0 BY <1>11, <3>2 DEF k
    <3>4. diff = g * k BY <1>3, <3>3
    <3> QED BY <3>3, <3>4 DEF k
  <2> HIDE DEF c
  <2>2. step \in Int /\ Divisor(n, c * x - step)
    <3> DEFINE cx == c * x
    <3>1. cx \in Int /\ n \in Int \ {0} BY <1>3, <2>1
    <3> HIDE DEF cx
    <3>2. Quo(cx, n) \in Int /\ Rem(cx, n) \in Int /\ cx = n * Quo(cx, n) + Rem(cx, n) BY <3>1, RemaindersTruncate
    <3>3. cx - Rem(cx, n) = n * Quo(cx, n) BY <3>1, <3>2
    <3> QED BY <3>2, <3>3 DEF Divisor, cx
  <2> HIDE DEF step
  <2> DEFINE v == r + m * step
  <2>3. v \in Int BY <2>2
  <2>4. Divisor(n, v - t)
    <3>1. PICK k \in Int : c * x - step = n * k BY <2>2 DEF Divisor
    <3>2. m * step = m * (c * x) - m * (n * k)
      <4> DEFINE cx == c * x  nk == n * k
      <4>1. cx \in Int /\ nk \in Int /\ cx - step = nk BY <1>3, <2>1, <3>1
      <4> HIDE DEF cx, nk
      <4>2. step = cx - nk BY <2>2, <4>1
      <4>3. m * (cx - nk) = m * cx - m * nk BY <4>1
      <4> QED BY <4>2, <4>3 DEF cx, nk
    <3>3. m * (c * x) = g * c - n * (c * y)
      <4>1. c * (m * x + n * y) = c * g BY <1>3
      <4>2. c * (m * x + n * y) = m * (c * x) + n * (c * y) BY <1>3, <2>1
      <4>3. c * g = g * c BY <1>3, <2>1
      <4> DEFINE A == m * (c * x)  B == n * (c * y)  C == g * c
      <4>4. A \in Int /\ B \in Int /\ C \in Int /\ A + B = C BY <1>3, <2>1, <4>1, <4>2, <4>3
      <4> HIDE DEF A, B, C
      <4>5. A = C - B BY <4>4
      <4> QED BY <4>5 DEF A, B, C
    <3>4. m * (n * k) = n * (m * k) OBVIOUS
    <3> DEFINE gc == g * c  cy == c * y  mk == m * k
    <3>5. gc \in Int /\ cy \in Int /\ mk \in Int /\ m * step = gc - n * cy - n * mk /\ t - r = gc
      BY <1>3, <2>1, <3>2, <3>3, <3>4
    <3> HIDE DEF gc, cy, mk
    <3> DEFINE j == -(cy + mk)
    <3>6. v - t = n * j BY <1>2, <3>5
    <3>7. j \in Int BY <3>5
    <3> HIDE DEF j, v
    <3> QED BY <3>6, <3>7 DEF Divisor
  <2>5. u = v % lcm BY <1>8, <2>3, NormalIsModulo
  <2> HIDE DEF u, v
  <2>6. u \in Int /\ 0 <= u /\ u < lcm /\ \E h \in Int : v = lcm * h + u
    <3>1. lcm \in Nat BY <1>8
    <3>2. v \div lcm \in Int /\ v % lcm \in Int /\ 0 <= v % lcm /\ v % lcm < lcm /\ v = lcm * (v \div lcm) + (v % lcm)
      BY <1>8, <2>3, <3>1, DivMod
    <3> QED BY <2>5, <3>2
  <2>7. PICK h \in Int : v = lcm * h + u BY <2>6
  <2>8. lcm = n * p /\ lcm = m * q
    <3>1. n * p = p * n OBVIOUS
    <3>2. m * q = p * n
      <4>1. m * q = (g * p) * q /\ p * n = p * (g * q) BY <1>4, <1>5
      <4> QED BY <1>3, <4>1
    <3> QED BY <1>8, <3>1, <3>2
  <2>9. PICK a \in Int : u - r = m * a
    <3>1. u - r = m * step - lcm * h
      <4> DEFINE lh == lcm * h  ms == m * step
      <4>1. lh \in Int /\ ms \in Int /\ v = r + ms /\ v = lh + u BY <1>8, <2>2, <2>7 DEF v
      <4> HIDE DEF lh, ms
      <4>2. u - r = ms - lh BY <2>6, <4>1
      <4> QED BY <4>2 DEF lh, ms
    <3>2. lcm * h = m * (q * h)
      <4>1. lcm * h = (m * q) * h BY <2>8
      <4> QED BY <4>1
    <3> DEFINE qh == q * h
    <3>3. qh \in Int /\ u - r = m * step - m * qh BY <3>1, <3>2
    <3> HIDE DEF qh
    <3>4. u - r = m * (step - qh) BY <2>2, <3>3
    <3>5. step - qh \in Int BY <2>2, <3>3
    <3> QED BY <3>4, <3>5
  <2>10. PICK b \in Int : u - s = n * b
    <3>1. PICK k \in Int : v - t = n * k BY <2>4 DEF Divisor
    <3>2. PICK l \in Int : s - t = n * l BY <1>2 DEF Divisor
    <3>3. lcm * h = n * (p * h)
      <4>1. lcm * h = (n * p) * h BY <2>8
      <4> QED BY <4>1
    <3> DEFINE ph == p * h  lh == lcm * h
    <3>4. ph \in Int /\ lh \in Int /\ lh = n * ph /\ u = v - lh BY <1>8, <2>3, <2>6, <2>7, <3>3
    <3> HIDE DEF ph, lh
    <3>5. u - s = n * k - n * l - n * ph BY <1>2, <2>3, <2>6, <3>1, <3>2, <3>4
    <3>6. u - s = n * (k - l - ph) BY <3>4, <3>5
    <3>7. k - l - ph \in Int BY <3>4
    <3> QED BY <3>6, <3>7
  <2>11. ASSUME NEW z \in Int PROVE Divisor(m, z - r) /\ Divisor(n, z - s) <=> Divisor(lcm, z - u)
    <3> DEFINE d == z - u
    <3>1. d \in Int BY <2>6
    <3>2. Divisor(m, z - r) <=> Divisor(m, d)
      <4>1. ASSUME NEW k \in Int, z - r = m * k PROVE Divisor(m, d)
        <5>1. d = m * (k - a) BY <2>6, <2>9, <4>1
        <5>2. k - a \in Int BY <2>9
        <5> QED BY <5>1, <5>2 DEF Divisor
      <4>2. ASSUME NEW k \in Int, d = m * k PROVE Divisor(m, z - r)
        <5>1. z - r = m * (k + a) BY <2>6, <2>9, <4>2
        <5>2. k + a \in Int BY <2>9
        <5> QED BY <5>1, <5>2 DEF Divisor
      <4> QED BY <4>1, <4>2 DEF Divisor
    <3>3. Divisor(n, z - s) <=> Divisor(n, d)
      <4>1. ASSUME NEW k \in Int, z - s = n * k PROVE Divisor(n, d)
        <5>1. d = n * (k - b) BY <2>6, <2>10, <4>1
        <5>2. k - b \in Int BY <2>10
        <5> QED BY <5>1, <5>2 DEF Divisor
      <4>2. ASSUME NEW k \in Int, d = n * k PROVE Divisor(n, z - s)
        <5>1. z - s = n * (k + b) BY <2>6, <2>10, <4>2
        <5>2. k + b \in Int BY <2>10
        <5> QED BY <5>1, <5>2 DEF Divisor
      <4> QED BY <4>1, <4>2 DEF Divisor
    <3> HIDE DEF d
    <3>4. g * p * x + g * q * y = g BY <1>3, <1>4, <1>5
    <3>5. Divisor(g * p, d) /\ Divisor(g * q, d) <=> Divisor(p * (g * q), d)
      BY <1>3, <1>6, <3>1, <3>4, CommonMultiple
    <3> QED BY <1>4, <1>5, <1>8, <3>2, <3>3, <3>5 DEF d
  <2>12. stepped = Ok(<<u, lcm>>)
    <3> HIDE DEF diff
    <3> QED BY <1>1, <1>11 DEF u, v, step, c
  <2> QED BY <1>8, <2>6, <2>11, <2>12 DEF stepped
<1> QED BY <1>10, <1>11

\* what a step of crt leaves: an error, or the congruence <<r, m>>
Congruences == {c \in Int \X Int : 0 <= c[1] /\ c[1] < c[2]}
Merged      == {Ok(c) : c \in Congruences} \cup {BadArguments}
\* merged is the loop of crt over rs and ms.
Merging(f, rs, ms) ==
    f = [i \in 1 .. Len(rs) |->
            IF i = 1 THEN Ok(<<Normal(rs[1], ms[1]), Magnitude(ms[1])>>) ELSE CrtStep(f[i - 1], <<rs[i], ms[i]>>)]
Systems(rs, ms) == rs \in Seq(Int) /\ ms \in Seq(Nat \ {0}) /\ rs # <<>> /\ Len(ms) = Len(rs)
\* z solves the first i congruences.
SolvesFirst(i, z, rs, ms) == \A j \in 1 .. i : Divisor(ms[j], z - rs[j])
MergedRight(v, i, rs, ms) ==
    \/ v = BadArguments /\ \A z \in Int : ~SolvesFirst(i, z, rs, ms)
    \/ \E u \in Int, w \in Int : /\ v = Ok(<<u, w>>) /\ 0 <= u /\ u < w
                                 /\ \A z \in Int : SolvesFirst(i, z, rs, ms) <=> Divisor(w, z - u)

\* What a step of crt leaves, spelt out.
LEMMA MergedIs ==
    ASSUME NEW v
    PROVE  v \in Merged <=> v = BadArguments \/ \E u \in Int, w \in Int : v = Ok(<<u, w>>) /\ 0 <= u /\ u < w
<1>1. ASSUME NEW u \in Int, NEW w \in Int, 0 <= u, u < w PROVE Ok(<<u, w>>) \in Merged
  <2>1. <<u, w>> \in Congruences BY <1>1 DEF Congruences
  <2> QED BY <2>1 DEF Merged
<1>2. ASSUME NEW c \in Congruences PROVE \E u \in Int, w \in Int : Ok(c) = Ok(<<u, w>>) /\ 0 <= u /\ u < w
  <2>1. c \in Int \X Int /\ 0 <= c[1] /\ c[1] < c[2] BY DEF Congruences
  <2>2. c = <<c[1], c[2]>> /\ c[1] \in Int /\ c[2] \in Int BY <2>1
  <2>3. Ok(c) = Ok(<<c[1], c[2]>>) BY <2>2
  <2> QED BY <2>1, <2>2, <2>3
<1>3. ASSUME v \in Merged PROVE v = BadArguments \/ \E c \in Congruences : v = Ok(c) BY <1>3 DEF Merged
<1>4. v = BadArguments => v \in Merged BY DEF Merged
<1> QED BY <1>1, <1>2, <1>3, <1>4

\* The congruence crt starts from has the solutions of the first.
LEMMA FirstCongruence ==
    ASSUME NEW r \in Int, NEW m \in Nat, m > 0
    PROVE  \E u \in Int, w \in Int :
              /\ Ok(<<Normal(r, m), Magnitude(m)>>) = Ok(<<u, w>>) /\ 0 <= u /\ u < w /\ w = m
              /\ \A z \in Int : Divisor(m, z - r) <=> Divisor(w, z - u)
<1> DEFINE u == r % m
<1>1. Normal(r, m) = u /\ Magnitude(m) = m BY NormalIsModulo DEF Magnitude
<1>2. r \div m \in Int /\ u \in Int /\ 0 <= u /\ u < m /\ r = m * (r \div m) + u BY DivMod
<1> DEFINE k == r \div m
<1> HIDE DEF u, k
<1>3. k \in Int /\ u \in Int /\ r = m * k + u BY <1>2 DEF k
<1>4. ASSUME NEW z \in Int PROVE Divisor(m, z - r) <=> Divisor(m, z - u)
  <2>1. ASSUME NEW a \in Int, z - r = m * a PROVE Divisor(m, z - u)
    <3>1. z - u = m * (a + k) BY <1>3, <2>1
    <3>2. a + k \in Int BY <1>3
    <3> QED BY <3>1, <3>2 DEF Divisor
  <2>2. ASSUME NEW a \in Int, z - u = m * a PROVE Divisor(m, z - r)
    <3>1. z - r = m * (a - k) BY <1>3, <2>2
    <3>2. a - k \in Int BY <1>3
    <3> QED BY <3>1, <3>2 DEF Divisor
  <2> QED BY <2>1, <2>2 DEF Divisor
<1>5. Ok(<<Normal(r, m), Magnitude(m)>>) = Ok(<<u, m>>) BY <1>1
<1>6. m \in Int OBVIOUS
<1> HIDE DEF u
<1> QED BY <1>2, <1>4, <1>5, <1>6

\* A step keeps to errors and congruences.
LEMMA StepType ==
    ASSUME NEW v \in Merged, NEW s \in Int, NEW n \in Nat, n > 0
    PROVE  CrtStep(v, <<s, n>>) \in Merged
<1>1. CASE v = BadArguments
  <2>1. ~v.ok BY <1>1 DEF BadArguments, Fail
  <2>2. CrtStep(v, <<s, n>>) = v BY <2>1 DEF CrtStep
  <2> QED BY <1>1, <2>2
<1>2. CASE v # BadArguments
  <2>1. PICK r \in Int, m \in Int : v = Ok(<<r, m>>) /\ 0 <= r /\ r < m BY <1>2, MergedIs
  <2>2. m \in Nat /\ m > 0 BY <2>1
  <2> DEFINE o == CrtStep(Ok(<<r, m>>), <<s, n>>)
  <2>3. \/ o = BadArguments /\ \A z \in Int : ~(Divisor(m, z - r) /\ Divisor(n, z - s))
        \/ \E u \in Int, w \in Int :
              /\ o = Ok(<<u, w>>) /\ 0 <= u /\ u < w
              /\ \A z \in Int : Divisor(m, z - r) /\ Divisor(n, z - s) <=> Divisor(w, z - u)
    BY <2>2, CrtMerge
  <2> HIDE DEF o
  <2>4. o = BadArguments \/ \E u \in Int, w \in Int : o = Ok(<<u, w>>) /\ 0 <= u /\ u < w BY <2>3
  <2>5. o \in Merged BY <2>4, MergedIs
  <2> QED BY <2>1, <2>5 DEF o
<1> QED BY <1>1, <1>2

\* The remainders and the moduli of a system.
LEMMA SystemIs ==
    ASSUME NEW rs, NEW ms, Systems(rs, ms)
    PROVE  /\ Len(rs) \in Nat /\ Len(rs) > 0 /\ DOMAIN rs = 1 .. Len(rs) /\ DOMAIN ms = 1 .. Len(rs)
           /\ \A i \in 1 .. Len(rs) : rs[i] \in Int /\ ms[i] \in Nat /\ ms[i] > 0
<1>1. rs \in Seq(Int) /\ ms \in Seq(Nat \ {0}) /\ rs # <<>> /\ Len(ms) = Len(rs) BY DEF Systems
<1>2. Len(rs) \in Nat /\ Len(rs) > 0 BY <1>1
<1>3. \A i \in 1 .. Len(rs) : rs[i] \in Int BY <1>1
<1>4. \A i \in 1 .. Len(ms) : ms[i] \in Nat \ {0} BY <1>1
<1> QED BY <1>1, <1>2, <1>3, <1>4

\* The loop of crt ends, with errors and congruences.
LEMMA MergingEnds ==
    ASSUME NEW rs, NEW ms, Systems(rs, ms)
    PROVE  \E f \in [1 .. Len(rs) -> Merged] : Merging(f, rs, ms)
<1> DEFINE S     == 1 .. Len(rs)
           size  == [i \in S |-> i]
           Base  == {1}
           first == Ok(<<Normal(rs[1], ms[1]), Magnitude(ms[1])>>)
           next  == [i \in S \ Base |-> i - 1]
           start == [i \in Base |-> first]
           comb  == [i \in S \ Base |-> [v \in Merged |-> CrtStep(v, <<rs[i], ms[i]>>)]]
<1>1. Len(rs) \in Nat /\ Len(rs) > 0 /\ \A i \in S : rs[i] \in Int /\ ms[i] \in Nat /\ ms[i] > 0 BY SystemIs
<1>2. Recursive(S, Merged, size, Base, next, start, comb)
  <2>1. size \in [S -> Nat] OBVIOUS
  <2>2. next \in [S \ Base -> S] BY <1>1
  <2>3. first \in Merged
    <3>1. 1 \in S BY <1>1
    <3>2. rs[1] \in Int /\ ms[1] \in Nat /\ ms[1] > 0 BY <1>1, <3>1
    <3>3. \E u \in Int, w \in Int : first = Ok(<<u, w>>) /\ 0 <= u /\ u < w BY <3>2, FirstCongruence
    <3> HIDE DEF first
    <3> QED BY <3>3, MergedIs
  <2>4. start \in [Base -> Merged] BY <2>3
  <2>5. ASSUME NEW i \in S \ Base, NEW v \in Merged PROVE CrtStep(v, <<rs[i], ms[i]>>) \in Merged BY <1>1, StepType
  <2>6. comb \in [S \ Base -> [Merged -> Merged]] BY <2>5
  <2>7. ASSUME NEW i \in S \ Base PROVE size[next[i]] < size[i]
    <3>1. i \in S /\ i - 1 \in S /\ i \in Int BY <1>1
    <3>2. next[i] = i - 1 /\ size[i] = i /\ size[i - 1] = i - 1 BY <3>1
    <3> QED BY <3>1, <3>2
  <2>8. Base \in SUBSET S BY <1>1
  <2> HIDE DEF S, size, Base, next, start, comb, first
  <2> QED BY <2>1, <2>2, <2>4, <2>6, <2>7, <2>8 DEF Recursive
<1>3. PICK f \in [S -> Merged] : \A i \in S : f[i] = Unfolded(f, i, Base, next, start, comb)
  <2>1. BadArguments \in Merged BY DEF Merged
  <2> HIDE DEF S, size, Base, next, start, comb
  <2> QED BY <1>2, <2>1, Recursion
<1>4. ASSUME NEW i \in S PROVE f[i] = IF i = 1 THEN first ELSE CrtStep(f[i - 1], <<rs[i], ms[i]>>)
  <2>1. CASE i = 1 BY <1>3, <2>1 DEF Unfolded
  <2>2. CASE i # 1
    <3>1. i \in S \ Base /\ next[i] = i - 1 /\ i - 1 \in S /\ i \notin Base BY <1>1, <2>2
    <3>2. f[i - 1] \in Merged BY <3>1
    <3>3. f[i] = comb[i][f[next[i]]]
      <4> HIDE DEF S, Base, next, start, comb
      <4> QED BY <1>3, <3>1 DEF Unfolded
    <3>4. comb[i] = [v \in Merged |-> CrtStep(v, <<rs[i], ms[i]>>)] BY <3>1
    <3>5. comb[i][f[i - 1]] = CrtStep(f[i - 1], <<rs[i], ms[i]>>) BY <3>2, <3>4
    <3> HIDE DEF comb, next
    <3> QED BY <2>2, <3>1, <3>3, <3>5
  <2> QED BY <2>1, <2>2
<1>5. f = [i \in S |-> f[i]] OBVIOUS
<1>6. Merging(f, rs, ms)
  <2> HIDE DEF first
  <2>1. f = [i \in S |-> IF i = 1 THEN first ELSE CrtStep(f[i - 1], <<rs[i], ms[i]>>)] BY <1>4, <1>5
  <2> QED BY <2>1 DEF Merging, first
<1> QED BY <1>6

\* The loop's state after i congruences has the solutions of those.
LEMMA MergedUpToIsRight ==
    ASSUME NEW rs, NEW ms, Systems(rs, ms)
    PROVE  \A i \in 1 .. Len(rs) : MergedRight(MergedUpTo(rs, ms)[i], i, rs, ms)
<1> DEFINE f == MergedUpTo(rs, ms)   S == 1 .. Len(rs)   size == [i \in S |-> i]
           G == {i \in S : MergedRight(f[i], i, rs, ms)}
<1>1. Len(rs) \in Nat /\ Len(rs) > 0 /\ \A i \in S : rs[i] \in Int /\ ms[i] \in Nat /\ ms[i] > 0 BY SystemIs
<1>2. Merging(f, rs, ms)
  <2>1. f = CHOOSE g : Merging(g, rs, ms) BY DEF MergedUpTo, Merging
  <2>2. \E g : Merging(g, rs, ms) BY MergingEnds
  <2> HIDE DEF f
  <2> QED BY <2>1, <2>2
<1> HIDE DEF f
<1>3. \A i \in S : f[i] = IF i = 1 THEN Ok(<<Normal(rs[1], ms[1]), Magnitude(ms[1])>>)
                          ELSE CrtStep(f[i - 1], <<rs[i], ms[i]>>)
  BY <1>2 DEF Merging
<1>4. ASSUME NEW i \in S, \A j \in S : size[j] < size[i] => j \in G
      PROVE  i \in G
  <2> DEFINE r == rs[i]  m == ms[i]
  <2>1. r \in Int /\ m \in Nat /\ m > 0 /\ i \in Nat BY <1>1
  <2>2. CASE i = 1
    <3>1. f[i] = Ok(<<Normal(r, m), Magnitude(m)>>) BY <1>3, <2>2
    <3> DEFINE o == Ok(<<Normal(r, m), Magnitude(m)>>)
    <3>2. PICK u \in Int, w \in Int : o = Ok(<<u, w>>) /\ 0 <= u /\ u < w
                                      /\ \A z \in Int : Divisor(m, z - r) <=> Divisor(w, z - u)
      <4> HIDE DEF r, m
      <4>1. \E u \in Int, w \in Int :
               /\ Ok(<<Normal(r, m), Magnitude(m)>>) = Ok(<<u, w>>) /\ 0 <= u /\ u < w /\ w = m
               /\ \A z \in Int : Divisor(m, z - r) <=> Divisor(w, z - u)
        BY <2>1, FirstCongruence
      <4>2. \E u \in Int, w \in Int :
               /\ o = Ok(<<u, w>>) /\ 0 <= u /\ u < w /\ w = m
               /\ \A z \in Int : Divisor(m, z - r) <=> Divisor(w, z - u)
        BY <4>1
      <4> HIDE DEF o
      <4> QED BY <4>2
    <3> HIDE DEF o
    <3>3. ASSUME NEW z PROVE SolvesFirst(i, z, rs, ms) <=> Divisor(m, z - r) BY <2>2 DEF SolvesFirst
    <3> HIDE DEF r, m
    <3>4. MergedRight(o, i, rs, ms) BY <3>2, <3>3 DEF MergedRight
    <3> QED BY <3>1, <3>4 DEF o
  <2>3. CASE i # 1
    <3>1. i - 1 \in S /\ i - 1 < i BY <1>1, <2>3
    <3>2. MergedRight(f[i - 1], i - 1, rs, ms)
      <4>1. size[i - 1] < size[i] BY <3>1
      <4>2. i - 1 \in G BY <1>4, <3>1, <4>1
      <4> QED BY <4>2
    <3>3. f[i] = CrtStep(f[i - 1], <<r, m>>) BY <1>3, <2>3
    <3>4. ASSUME NEW z PROVE SolvesFirst(i, z, rs, ms) <=> SolvesFirst(i - 1, z, rs, ms) /\ Divisor(m, z - r)
      <4>1. \A j \in 1 .. i - 1 : j \in 1 .. i BY <2>1
      <4>2. \A j \in 1 .. i : j \in 1 .. i - 1 \/ j = i BY <2>1
      <4>3. i \in 1 .. i BY <2>1
      <4> QED BY <4>1, <4>2, <4>3 DEF SolvesFirst
    <3> HIDE DEF r, m
    <3>5. CASE f[i - 1] = BadArguments /\ \A z \in Int : ~SolvesFirst(i - 1, z, rs, ms)
      <4>1. ~BadArguments.ok BY DEF BadArguments, Fail
      <4>2. f[i] = BadArguments BY <3>3, <3>5, <4>1 DEF CrtStep
      <4> QED BY <3>4, <3>5, <4>2 DEF MergedRight, G, r, m
    <3>6. ASSUME NEW u \in Int, NEW w \in Int, f[i - 1] = Ok(<<u, w>>), 0 <= u, u < w,
                 \A z \in Int : SolvesFirst(i - 1, z, rs, ms) <=> Divisor(w, z - u)
          PROVE  MergedRight(f[i], i, rs, ms)
      <4>1. w \in Nat /\ w > 0 BY <3>6
      <4> DEFINE o == CrtStep(Ok(<<u, w>>), <<r, m>>)
      <4>2. \/ o = BadArguments /\ \A z \in Int : ~(Divisor(w, z - u) /\ Divisor(m, z - r))
            \/ \E v \in Int, x \in Int :
                  /\ o = Ok(<<v, x>>) /\ 0 <= v /\ v < x
                  /\ \A z \in Int : Divisor(w, z - u) /\ Divisor(m, z - r) <=> Divisor(x, z - v)
        BY <2>1, <4>1, CrtMerge
      <4> HIDE DEF o
      <4>3. MergedRight(o, i, rs, ms) BY <3>4, <3>6, <4>2 DEF MergedRight
      <4> QED BY <3>3, <3>6, <4>3 DEF o
    <3>7. MergedRight(f[i], i, rs, ms) BY <3>2, <3>5, <3>6 DEF MergedRight, G
    <3> QED BY <3>7
  <2> QED BY <2>2, <2>3
<1>5. G \in SUBSET S /\ size \in [S -> Nat] BY <1>1
<1> HIDE DEF G, S, size
<1>6. G = S BY <1>4, <1>5, ByMeasure
<1> QED BY <1>6 DEF G, S, f

Solves(z, rs, ms) == \A i \in DOMAIN rs : z % ms[i] = rs[i] % ms[i]

\* crt solves systems whose moduli need not be coprime: the answer is the
\* least solution that is not negative, and "incompatible" is said only of
\* systems without a solution.
THEOREM CrtIsRight ==
    \A rs \in Seq(Int), ms \in Seq(Nat \ {0}) :
        rs # <<>> /\ Len(ms) = Len(rs) =>
            \/ /\ Crt(rs, ms) = BadArguments
               /\ \A z \in Int : ~Solves(z, rs, ms)
            \/ \E u \in Nat : /\ Crt(rs, ms) = Ok(u) /\ Solves(u, rs, ms)
                              /\ \A z \in Nat : Solves(z, rs, ms) => u <= z
<1> SUFFICES ASSUME NEW rs \in Seq(Int), NEW ms \in Seq(Nat \ {0}), rs # <<>>, Len(ms) = Len(rs)
             PROVE  \/ /\ Crt(rs, ms) = BadArguments
                       /\ \A z \in Int : ~Solves(z, rs, ms)
                    \/ \E u \in Nat : /\ Crt(rs, ms) = Ok(u) /\ Solves(u, rs, ms)
                                      /\ \A z \in Nat : Solves(z, rs, ms) => u <= z
  OBVIOUS
<1> DEFINE n == Len(rs)   v == MergedUpTo(rs, ms)[n]
<1>1. Systems(rs, ms) BY DEF Systems
<1>2. /\ n \in Nat /\ n > 0 /\ DOMAIN rs = 1 .. n /\ DOMAIN ms = 1 .. n
      /\ \A i \in 1 .. n : rs[i] \in Int /\ ms[i] \in Nat /\ ms[i] > 0
  BY <1>1, SystemIs
<1>3. MergedRight(v, n, rs, ms)
  <2>1. n \in 1 .. n BY <1>2
  <2> QED BY <1>1, <2>1, MergedUpToIsRight
<1>4. Crt(rs, ms) = IF v.ok THEN Ok(v.is[1]) ELSE v
  <2>1. ~\E i \in DOMAIN ms : ms[i] = 0 BY <1>2
  <2> QED BY <2>1 DEF Crt
<1> HIDE DEF n, v
<1>5. ASSUME NEW z \in Int PROVE Solves(z, rs, ms) <=> SolvesFirst(n, z, rs, ms)
  <2>1. \A i \in 1 .. n : z % ms[i] = rs[i] % ms[i] <=> Divisor(ms[i], z - rs[i]) BY <1>2, OneRemainderIff
  <2> QED BY <1>2, <2>1 DEF Solves, SolvesFirst
<1>6. CASE v = BadArguments /\ \A z \in Int : ~SolvesFirst(n, z, rs, ms)
  <2>1. ~BadArguments.ok BY DEF BadArguments, Fail
  <2> QED BY <1>4, <1>5, <1>6, <2>1
<1>7. ASSUME NEW u \in Int, NEW w \in Int, v = Ok(<<u, w>>), 0 <= u, u < w,
             \A z \in Int : SolvesFirst(n, z, rs, ms) <=> Divisor(w, z - u)
      PROVE  \E a \in Nat : /\ Crt(rs, ms) = Ok(a) /\ Solves(a, rs, ms)
                            /\ \A z \in Nat : Solves(z, rs, ms) => a <= z
  <2>1. Crt(rs, ms) = Ok(u)
    <3>1. Ok(<<u, w>>).ok /\ Ok(<<u, w>>).is[1] = u BY DEF Ok
    <3> QED BY <1>4, <1>7, <3>1
  <2>2. Solves(u, rs, ms)
    <3>1. u - u = w * 0 BY <1>7
    <3>2. Divisor(w, u - u) BY <3>1 DEF Divisor
    <3> QED BY <1>5, <1>7, <3>2
  <2>3. ASSUME NEW z \in Nat, Solves(z, rs, ms) PROVE u <= z
    <3>1. z \in Int /\ Divisor(w, z - u) BY <1>5, <1>7, <2>3
    <3>2. PICK k \in Int : z - u = w * k BY <3>1 DEF Divisor
    <3>3. ASSUME z < u PROVE FALSE
      <4>1. w * k < w /\ -w < w * k
        <5> DEFINE wk == w * k
        <5>1. wk \in Int /\ z - u = wk BY <3>2
        <5> HIDE DEF wk
        <5>2. wk < w /\ -w < wk BY <1>7, <3>3, <5>1
        <5> QED BY <5>2 DEF wk
      <4>2. w > 0 BY <1>7
      <4>3. k = 0 BY <4>1, <4>2, Squeezed
      <4>4. z - u = w * 0 BY <3>2, <4>3
      <4>5. z - u = 0 BY <4>4
      <4> QED BY <3>3, <4>5
    <3> QED BY <3>3
  <2>4. u \in Nat BY <1>7
  <2> QED BY <2>1, <2>2, <2>3, <2>4
<1> QED BY <1>3, <1>6, <1>7 DEF MergedRight

-----------------------------------------------------------------------------
(* Greatest common divisors, least common multiples, rationals.            *)

Pairs == Nat \X Nat
\* f computes BigInt's gcd of two magnitudes.
Dividing(f) == f = [p \in Pairs |-> IF p[2] = 0 THEN p[1] ELSE f[<<p[2], p[1] % p[2]>>]]

\* The recursion of gcd ends.
LEMMA GcdEnds == \E f \in [Pairs -> Nat] : Dividing(f)
<1> DEFINE size  == [p \in Pairs |-> p[2]]
           Base  == {p \in Pairs : p[2] = 0}
           next  == [p \in Pairs \ Base |-> <<p[2], p[1] % p[2]>>]
           start == [p \in Base |-> p[1]]
           comb  == [p \in Pairs \ Base |-> [v \in Nat |-> v]]
<1>1. ASSUME NEW p \in Pairs \ Base
      PROVE  next[p] \in Pairs /\ size[next[p]] < size[p] /\ next[p] = <<p[2], p[1] % p[2]>>
  <2>1. p[1] \in Nat /\ p[2] \in Nat /\ p[2] > 0 BY DEF Pairs
  <2>2. p[1] % p[2] \in Nat /\ p[1] % p[2] < p[2] BY <2>1, DivMod
  <2>3. next[p] = <<p[2], p[1] % p[2]>> OBVIOUS
  <2>4. next[p] \in Pairs BY <2>1, <2>2, <2>3 DEF Pairs
  <2>5. size[next[p]] = p[1] % p[2] BY <2>3, <2>4
  <2> QED BY <2>2, <2>3, <2>4, <2>5
<1>2. Recursive(Pairs, Nat, size, Base, next, start, comb)
  <2>1. size \in [Pairs -> Nat] BY DEF Pairs
  <2>2. Base \in SUBSET Pairs OBVIOUS
  <2>3. next \in [Pairs \ Base -> Pairs] BY <1>1
  <2>4. start \in [Base -> Nat] BY DEF Pairs
  <2>5. comb \in [Pairs \ Base -> [Nat -> Nat]] OBVIOUS
  <2>6. \A p \in Pairs \ Base : size[next[p]] < size[p] BY <1>1
  <2> HIDE DEF size, Base, next, start, comb
  <2> QED BY <2>1, <2>2, <2>3, <2>4, <2>5, <2>6 DEF Recursive
<1>3. PICK f \in [Pairs -> Nat] : \A p \in Pairs : f[p] = Unfolded(f, p, Base, next, start, comb)
  <2> HIDE DEF size, Base, next, start, comb
  <2> QED BY <1>2, Recursion
<1>4. ASSUME NEW p \in Pairs PROVE f[p] = IF p[2] = 0 THEN p[1] ELSE f[<<p[2], p[1] % p[2]>>]
  <2>1. CASE p[2] = 0 BY <1>3, <2>1 DEF Unfolded
  <2>2. CASE p[2] # 0
    <3>1. p \in Pairs \ Base /\ next[p] = <<p[2], p[1] % p[2]>> /\ next[p] \in Pairs BY <1>1, <2>2
    <3>2. f[next[p]] \in Nat BY <3>1
    <3>3. f[p] = comb[p][f[next[p]]]
      <4> HIDE DEF next, comb, start
      <4> QED BY <1>3, <2>2, <3>1 DEF Unfolded
    <3> QED BY <2>2, <3>1, <3>2, <3>3
  <2> QED BY <2>1, <2>2
<1>5. Dividing(f) BY <1>4 DEF Dividing
<1> QED BY <1>5

\* gcd, unfolded once.
LEMMA GcdSteps ==
    ASSUME NEW a \in Nat, NEW b \in Nat
    PROVE  Gcd[<<a, b>>] = IF b = 0 THEN a ELSE Gcd[<<b, a % b>>]
<1>1. Gcd = CHOOSE f : Dividing(f) BY DEF Gcd, Dividing, Pairs
<1>2. Dividing(Gcd) BY <1>1, GcdEnds
<1> DEFINE f == Gcd  p == <<a, b>>
<1>3. Dividing(f) /\ p \in Pairs BY <1>2 DEF Pairs
<1> HIDE DEF f
<1>4. f[p] = IF p[2] = 0 THEN p[1] ELSE f[<<p[2], p[1] % p[2]>>] BY <1>3 DEF Dividing
<1> QED BY <1>4 DEF f

\* gcd and extended_gcd are two programs for one divisor.
THEOREM GcdsAgree == \A a \in Nat, b \in Nat : Gcd[<<a, b>>] = ExtendedGcd[<<a, b>>][1]
<1> DEFINE size == [p \in Pairs |-> p[2]]
           G    == {p \in Pairs : Gcd[p] = ExtendedGcd[p][1]}
<1>1. ASSUME NEW p \in Pairs, \A o \in Pairs : size[o] < size[p] => o \in G
      PROVE  p \in G
  <2> DEFINE a == p[1]  b == p[2]  r == a % b  o == <<b, r>>  e == ExtendedGcd[o]
  <2>1. a \in Nat /\ b \in Nat /\ p = <<a, b>> /\ p \in Bezout BY DEF Pairs, Bezout
  <2>2. CASE b = 0
    <3>1. ExtendedGcd[p] = <<a, 1, 0>> BY <2>1, <2>2, EuclidSteps
    <3>2. Gcd[p] = a BY <2>1, <2>2, GcdSteps
    <3> QED BY <3>1, <3>2
  <2>3. CASE b # 0
    <3>1. r \in Nat /\ r < b /\ a = b * (a \div b) + r /\ a \div b \in Int BY <2>1, <2>3, DivMod
    <3>2. Rem(a, b) = r
      <4>1. a \in Int /\ b \in Int \ {0} /\ b > 0 BY <2>1, <2>3
      <4>2. /\ Quo(a, b) \in Int /\ Rem(a, b) \in Int /\ a = b * Quo(a, b) + Rem(a, b)
            /\ Magnitude(Rem(a, b)) < Magnitude(b) /\ (Rem(a, b) # 0 => Sign(Rem(a, b)) = Sign(a))
        BY <4>1, RemaindersTruncate
      <4> DEFINE q == Quo(a, b)  s == Rem(a, b)
      <4> HIDE DEF a, b, q, s
      <4>3. 0 <= s /\ s < b BY <2>1, <4>1, <4>2 DEF q, s, Magnitude, Sign
      <4>4. s = a % b BY <2>1, <4>1, <4>2, <4>3, OneRemainder DEF q, s
      <4> QED BY <4>4 DEF s
    <3>3. o \in Pairs /\ size[o] < size[p] BY <2>1, <3>1 DEF Pairs
    <3>4. Gcd[o] = e[1] BY <1>1, <3>3
    <3>5. Gcd[p] = Gcd[o] BY <2>1, <2>3, GcdSteps
    <3>6. ExtendedGcd[p] = <<e[1], e[3], e[2] - Quo(a, b) * e[3]>> BY <2>1, <2>3, <3>2, EuclidSteps
    <3>7. ExtendedGcd[p][1] = e[1] BY <3>6
    <3> QED BY <3>4, <3>5, <3>7
  <2> QED BY <2>2, <2>3
<1>2. G \in SUBSET Pairs /\ size \in [Pairs -> Nat] BY DEF Pairs
<1> HIDE DEF G, size
<1>3. G = Pairs BY <1>1, <1>2, ByMeasure
<1>4. ASSUME NEW a \in Nat, NEW b \in Nat PROVE Gcd[<<a, b>>] = ExtendedGcd[<<a, b>>][1]
  <2>1. <<a, b>> \in G BY <1>3 DEF Pairs
  <2> QED BY <2>1 DEF G
<1> QED BY <1>4

\* A number and its magnitude have the same divisors, and divide the same.
LEMMA DivisorOfMagnitude ==
    ASSUME NEW g \in Int, NEW a \in Int
    PROVE  /\ Magnitude(a) \in Nat
           /\ Divisor(g, Magnitude(a)) <=> Divisor(g, a)
           /\ Divisor(Magnitude(g), a) <=> Divisor(g, a)
<1>1. ASSUME NEW k \in Int PROVE g * (-k) = -(g * k) /\ (-g) * k = -(g * k) /\ (-g) * (-k) = g * k /\ -k \in Int OBVIOUS
<1>2. Magnitude(a) \in Nat BY DEF Magnitude
<1>3. ASSUME Divisor(g, Magnitude(a)) PROVE Divisor(g, a)
  <2>1. PICK k \in Int : Magnitude(a) = g * k BY <1>3 DEF Divisor
  <2>2. a = g * k \/ a = g * (-k) BY <1>1, <2>1 DEF Magnitude
  <2> QED BY <1>1, <2>2 DEF Divisor
<1>4. ASSUME Divisor(g, a) PROVE Divisor(g, Magnitude(a))
  <2>1. PICK k \in Int : a = g * k BY <1>4 DEF Divisor
  <2>2. Magnitude(a) = g * k \/ Magnitude(a) = g * (-k) BY <1>1, <2>1 DEF Magnitude
  <2> QED BY <1>1, <2>2 DEF Divisor
<1>5. Divisor(Magnitude(g), a) <=> Divisor(g, a)
  <2>1. Magnitude(g) = g \/ Magnitude(g) = -g BY DEF Magnitude
  <2>2. CASE Magnitude(g) = -g
    <3>1. ASSUME NEW k \in Int PROVE a = (-g) * k <=> a = g * (-k) BY <1>1
    <3>2. ASSUME NEW k \in Int PROVE -k \in Int /\ (a = g * k => a = (-g) * (-k)) BY <1>1
    <3> QED BY <2>2, <3>1, <3>2 DEF Divisor
  <2> QED BY <2>1, <2>2
<1> QED BY <1>2, <1>3, <1>4, <1>5

\* gcd is a combination of the numbers, and zero of zeros only.
LEMMA GcdBezout ==
    ASSUME NEW a \in Int, NEW b \in Int
    PROVE  /\ GcdOf(a, b) \in Nat
           /\ Divisor(GcdOf(a, b), a) /\ Divisor(GcdOf(a, b), b)
           /\ \E x \in Int, y \in Int : a * x + b * y = GcdOf(a, b)
           /\ a # 0 \/ b # 0 => GcdOf(a, b) > 0
<1> DEFINE m == Magnitude(a)  n == Magnitude(b)  e == ExtendedGcd[<<m, n>>]  g == GcdOf(a, b)
<1>1. m \in Nat /\ n \in Nat BY DEF Magnitude
<1>2. g = e[1] BY <1>1, GcdsAgree DEF GcdOf
<1>3. RightBezout(e, m, n) BY <1>1, EuclidIsRight
<1> HIDE DEF m, n, e, g
<1>4. g \in Nat /\ Divisor(g, m) /\ Divisor(g, n) /\ e[2] \in Int /\ e[3] \in Int /\ m * e[2] + n * e[3] = g
  BY <1>1, <1>2, <1>3 DEF RightBezout, Triples
<1>5. Divisor(g, a) /\ Divisor(g, b) BY <1>4, DivisorOfMagnitude DEF m, n
<1>6. \E x \in Int, y \in Int : a * x + b * y = g
  <2>1. PICK s \in {1, -1} : m = s * a BY DEF m, Magnitude
  <2>2. PICK t \in {1, -1} : n = t * b BY DEF n, Magnitude
  <2> DEFINE x == s * e[2]  y == t * e[3]
  <2>3. x \in Int /\ y \in Int BY <1>4
  <2>4. a * x = m * e[2] BY <1>4, <2>1
  <2>5. b * y = n * e[3] BY <1>4, <2>2
  <2> HIDE DEF x, y
  <2> QED BY <1>4, <2>3, <2>4, <2>5
<1>7. ASSUME g = 0 PROVE a = 0 /\ b = 0
  <2>1. PICK k \in Int : a = g * k BY <1>5 DEF Divisor
  <2>2. PICK l \in Int : b = g * l BY <1>5 DEF Divisor
  <2> QED BY <1>7, <2>1, <2>2
<1>8. a # 0 \/ b # 0 => g > 0 BY <1>4, <1>7
<1>9. /\ g \in Nat /\ Divisor(g, a) /\ Divisor(g, b)
      /\ \E x \in Int, y \in Int : a * x + b * y = g
      /\ a # 0 \/ b # 0 => g > 0
  BY <1>4, <1>5, <1>6, <1>8
<1> QED BY <1>9 DEF g

\* gcd returns the greatest common divisor of two integers, of either sign: a
\* common divisor that every other one divides.
THEOREM GcdIsGreatest ==
    \A a \in Int, b \in Int :
        /\ GcdOf(a, b) \in Nat /\ Divisor(GcdOf(a, b), a) /\ Divisor(GcdOf(a, b), b)
        /\ \A d \in Int : Divisor(d, a) /\ Divisor(d, b) => Divisor(d, GcdOf(a, b))
<1> SUFFICES ASSUME NEW a \in Int, NEW b \in Int
             PROVE  /\ GcdOf(a, b) \in Nat /\ Divisor(GcdOf(a, b), a) /\ Divisor(GcdOf(a, b), b)
                    /\ \A d \in Int : Divisor(d, a) /\ Divisor(d, b) => Divisor(d, GcdOf(a, b))
  OBVIOUS
<1>1. ASSUME NEW d \in Int, Divisor(d, a), Divisor(d, b) PROVE Divisor(d, GcdOf(a, b))
  <2>1. PICK x \in Int, y \in Int : a * x + b * y = GcdOf(a, b) BY GcdBezout
  <2>2. PICK k \in Int : a = d * k BY <1>1 DEF Divisor
  <2>3. PICK l \in Int : b = d * l BY <1>1 DEF Divisor
  <2>4. d * (k * x + l * y) = a * x + b * y BY <2>2, <2>3
  <2>5. k * x + l * y \in Int OBVIOUS
  <2> QED BY <2>1, <2>4, <2>5 DEF Divisor
<1> QED BY <1>1, GcdBezout

\* What a divisor divides, divided by it.
LEMMA DividedBy ==
    ASSUME NEW g \in Nat, g > 0, NEW a \in Int, Divisor(g, a)
    PROVE  a \div g \in Int /\ a = g * (a \div g)
<1>1. PICK k \in Int : a = g * k BY DEF Divisor
<1>2. a = g * k + 0 BY <1>1
<1>3. k = a \div g BY <1>2, OneRemainder
<1> QED BY <1>1, <1>3

\* lcm returns the least common multiple of two integers, of either sign: a
\* common multiple that divides every other one, and zero where one is zero.
THEOREM LcmIsLeast ==
    \A a \in Int, b \in Int :
        /\ LcmOf(a, b) \in Nat /\ Divisor(a, LcmOf(a, b)) /\ Divisor(b, LcmOf(a, b))
        /\ \A z \in Int : Divisor(a, z) /\ Divisor(b, z) => Divisor(LcmOf(a, b), z)
<1> SUFFICES ASSUME NEW a \in Int, NEW b \in Int
             PROVE  /\ LcmOf(a, b) \in Nat /\ Divisor(a, LcmOf(a, b)) /\ Divisor(b, LcmOf(a, b))
                    /\ \A z \in Int : Divisor(a, z) /\ Divisor(b, z) => Divisor(LcmOf(a, b), z)
  OBVIOUS
<1>1. CASE a = 0 \/ b = 0
  <2>1. LcmOf(a, b) = 0 BY <1>1 DEF LcmOf
  <2>2. Divisor(a, 0) /\ Divisor(b, 0)
    <3>1. 0 = a * 0 /\ 0 = b * 0 OBVIOUS
    <3> QED BY <3>1 DEF Divisor
  <2>3. ASSUME NEW z \in Int, Divisor(0, z) PROVE z = 0
    <3>1. PICK k \in Int : z = 0 * k BY <2>3 DEF Divisor
    <3> QED BY <3>1
  <2>4. ASSUME NEW z \in Int, Divisor(a, z), Divisor(b, z) PROVE Divisor(0, z) BY <1>1, <2>4
  <2> QED BY <2>1, <2>2, <2>4
<1>2. CASE a # 0 /\ b # 0
  <2> DEFINE g == GcdOf(a, b)  m == Magnitude(a)  n == Magnitude(b)  p == m \div g  q == n \div g  u == LcmOf(a, b)
  <2>1. m \in Nat /\ n \in Nat /\ m > 0 /\ n > 0 BY <1>2 DEF Magnitude
  <2>2. g \in Nat /\ g > 0 /\ Divisor(g, m) /\ Divisor(g, n) BY <1>2, GcdBezout, DivisorOfMagnitude
  <2>3. p \in Int /\ q \in Int /\ m = g * p /\ n = g * q
    <3> HIDE DEF g, m, n
    <3>1. p \in Int /\ m = g * p BY <2>1, <2>2, DividedBy
    <3>2. q \in Int /\ n = g * q BY <2>1, <2>2, DividedBy
    <3> QED BY <3>1, <3>2
  <2>4. u = m * q BY <1>2 DEF LcmOf
  <2>5. PICK x \in Int, y \in Int : m * x + n * y = g
    <3>1. GcdOf(m, n) = g BY <2>1 DEF GcdOf, Magnitude
    <3> HIDE DEF m, n, g
    <3>2. m \in Int /\ n \in Int BY <2>1
    <3>3. \E x \in Int, y \in Int : m * x + n * y = GcdOf(m, n) BY ONLY <3>2, GcdBezout
    <3> QED BY <3>1, <3>3
  <2> HIDE DEF g, m, n, p, q, u
  <2>6. g * p * x + g * q * y = g BY <2>2, <2>3, <2>5
  <2>7. u = p * (g * q) /\ u \in Int
    <3>1. u = (g * p) * q BY <2>3, <2>4
    <3> QED BY <2>2, <2>3, <3>1
  <2>8. q >= 0
    <3>1. ASSUME q <= -1 PROVE FALSE
      <4>1. g * q <= g * (-1) BY <2>2, <2>3, <3>1
      <4> QED BY <2>1, <2>2, <2>3, <4>1
    <3> QED BY <2>3, <3>1
  <2>9. u \in Nat
    <3>1. m * q >= 0 BY <2>1, <2>3, <2>8
    <3> QED BY <2>4, <2>7, <3>1
  <2>10. ASSUME NEW z \in Int PROVE Divisor(m, z) /\ Divisor(n, z) <=> Divisor(u, z)
    <3>1. Divisor(g * p, z) /\ Divisor(g * q, z) <=> Divisor(p * (g * q), z)
      <4>1. g \in Int /\ p \in Int /\ q \in Int BY <2>2, <2>3
      <4> QED BY <2>2, <2>6, <4>1, CommonMultiple
    <3> QED BY <2>3, <2>7, <3>1
  <2>11. Divisor(u, u)
    <3>1. u = u * 1 BY <2>7
    <3> QED BY <3>1 DEF Divisor
  <2>12. Divisor(m, u) /\ Divisor(n, u) BY <2>7, <2>10, <2>11
  <2>13. ASSUME NEW z \in Int PROVE (Divisor(m, z) <=> Divisor(a, z)) /\ (Divisor(n, z) <=> Divisor(b, z))
    BY DivisorOfMagnitude DEF m, n
  <2> QED BY <2>7, <2>9, <2>10, <2>12, <2>13 DEF u
<1> QED BY <1>1, <1>2

\* Numbers without a common divisor.
Coprime(a, b) == \E x \in Int, y \in Int : a * x + b * y = 1

\* gcd is 1 for these.
LEMMA CoprimeIff ==
    ASSUME NEW a \in Int, NEW b \in Int
    PROVE  GcdOf(a, b) = 1 <=> Coprime(a, b)
<1>1. ASSUME GcdOf(a, b) = 1 PROVE Coprime(a, b)
  <2>1. \E x \in Int, y \in Int : a * x + b * y = GcdOf(a, b) BY ONLY GcdBezout, a \in Int, b \in Int
  <2> QED BY <1>1, <2>1 DEF Coprime
<1>2. ASSUME NEW x \in Int, NEW y \in Int, a * x + b * y = 1 PROVE GcdOf(a, b) = 1
  <2> DEFINE g == GcdOf(a, b)
  <2>1. g \in Nat /\ Divisor(g, a) /\ Divisor(g, b) BY GcdBezout
  <2> HIDE DEF g
  <2>2. PICK k \in Int : a = g * k BY <2>1 DEF Divisor
  <2>3. PICK l \in Int : b = g * l BY <2>1 DEF Divisor
  <2> DEFINE w == k * x + l * y
  <2>4. w \in Int OBVIOUS
  <2>5. g * w = 1
    <3>1. g * w = (g * k) * x + (g * l) * y BY <2>1
    <3> QED BY <1>2, <2>2, <2>3, <3>1
  <2> HIDE DEF w
  <2>6. g = 1 BY <2>1, <2>4, <2>5, DivisorOfOne
  <2> QED BY <2>6 DEF g
<1> QED BY <1>1, <1>2 DEF Coprime

\* What has no divisor in common with two numbers has none with their product.
LEMMA CoprimeProduct ==
    ASSUME NEW a \in Int, NEW b \in Int, NEW c \in Int, Coprime(a, b), Coprime(a, c)
    PROVE  Coprime(a, b * c)
<1>1. PICK x \in Int, y \in Int : a * x + b * y = 1 BY DEF Coprime
<1>2. PICK z \in Int, w \in Int : a * z + c * w = 1 BY DEF Coprime
<1> DEFINE u == a * x * z + x * c * w + b * y * z  v == y * w
<1>3. u \in Int /\ v \in Int OBVIOUS
<1>4. a * u + (b * c) * v = (a * x + b * y) * (a * z + c * w) OBVIOUS
<1>5. (a * x + b * y) * (a * z + c * w) = 1 BY <1>1, <1>2
<1> HIDE DEF u, v
<1>6. a * u + (b * c) * v = 1 BY <1>4, <1>5
<1> QED BY <1>3, <1>6 DEF Coprime

\* A divisor of one of them has no divisor in common with the other either.
LEMMA CoprimeDivisor ==
    ASSUME NEW a \in Int, NEW b \in Int, NEW c \in Int, Coprime(a, b), Divisor(c, a)
    PROVE  Coprime(c, b)
<1>1. PICK x \in Int, y \in Int : a * x + b * y = 1 BY DEF Coprime
<1>2. PICK k \in Int : a = c * k BY DEF Divisor
<1>3. c * (k * x) + b * y = 1
  <2>1. c * (k * x) = (c * k) * x OBVIOUS
  <2> QED BY <1>1, <1>2, <2>1
<1>4. k * x \in Int OBVIOUS
<1> QED BY <1>3, <1>4 DEF Coprime

\* Neither order nor sign matters.
LEMMA CoprimeSwap ==
    ASSUME NEW a \in Int, NEW b \in Int, Coprime(a, b)
    PROVE  Coprime(b, a)
<1>1. PICK x \in Int, y \in Int : a * x + b * y = 1 BY DEF Coprime
<1>2. b * y + a * x = 1 BY <1>1
<1> QED BY <1>2 DEF Coprime

\* A product that is zero has a factor that is.
LEMMA Cancel ==
    ASSUME NEW g \in Int, g # 0, NEW a \in Int, NEW b \in Int, g * a = g * b
    PROVE  a = b
<1> DEFINE k == a - b
<1>1. k \in Int /\ g * k = 0 OBVIOUS
<1>2. CASE g > 0
  <2> HIDE DEF k
  <2>1. k = 0
    <3>1. g * k < g /\ -g < g * k BY <1>1, <1>2
    <3> QED BY <1>1, <1>2, <3>1, Squeezed
  <2> QED BY <2>1 DEF k
<1>3. CASE g < 0
  <2> DEFINE h == -g
  <2> HIDE DEF k
  <2>1. h \in Int /\ h > 0 /\ h * k = 0 BY <1>1, <1>3
  <2> HIDE DEF h
  <2>2. k = 0
    <3>1. h * k < h /\ -h < h * k BY <2>1
    <3> QED BY <1>1, <2>1, <3>1, Squeezed
  <2> QED BY <2>2 DEF k
<1> QED BY <1>2, <1>3

\* A rational in lowest terms, as num-rational keeps it; and that it is n/d.
Rationals == {q \in Int \X (Nat \ {0}) : GcdOf(q[1], q[2]) = 1}
Equals(q, n, d) == q[1] * d = n * q[2]

LEMMA RationalIs ==
    ASSUME NEW q
    PROVE  q \in Rationals <=> \E a \in Int, b \in Nat \ {0} : q = <<a, b>> /\ Coprime(a, b)
<1>1. ASSUME q \in Rationals PROVE \E a \in Int, b \in Nat \ {0} : q = <<a, b>> /\ Coprime(a, b)
  <2>1. q[1] \in Int /\ q[2] \in Nat \ {0} /\ q = <<q[1], q[2]>> /\ GcdOf(q[1], q[2]) = 1 BY <1>1 DEF Rationals
  <2>2. Coprime(q[1], q[2]) BY <2>1, CoprimeIff
  <2> QED BY <2>1, <2>2
<1>2. ASSUME NEW a \in Int, NEW b \in Nat \ {0}, q = <<a, b>>, Coprime(a, b) PROVE q \in Rationals
  <2>1. GcdOf(a, b) = 1 BY <1>2, CoprimeIff
  <2> QED BY <1>2, <2>1 DEF Rationals
<1> QED BY <1>1, <1>2

\* Ratio divides both numbers by what they share, and has the sign above.
LEMMA RatioParts ==
    ASSUME NEW n \in Int, NEW d \in Int, d # 0
    PROVE  \E a \in Int, b \in Nat \ {0} :
              /\ Ratio(n, d) = <<a, b>> /\ Coprime(a, b)
              /\ a * d = n * b /\ Divisor(a, n) /\ Divisor(b, d)
<1> DEFINE g == GcdOf(n, d)  s == Sign(d)  k == n \div g  m == Magnitude(d)  b == m \div g  a == s * k
<1>1. g \in Nat /\ g > 0 /\ Divisor(g, n) /\ Divisor(g, d) BY GcdBezout
<1>2. \E x \in Int, y \in Int : n * x + d * y = g BY ONLY GcdBezout, n \in Int, d \in Int
<1>3. s \in {1, -1} /\ d = s * m /\ m = s * d /\ m \in Nat /\ m > 0 BY DEF Sign, Magnitude
<1>4. Divisor(g, m) BY <1>1, DivisorOfMagnitude
<1>5. Ratio(n, d) = <<a, b>> BY DEF Ratio, Divided
<1> HIDE DEF g, s, m
<1>6. k \in Int /\ n = g * k BY <1>1, DividedBy
<1>7. b \in Int /\ m = g * b BY <1>1, <1>3, <1>4, DividedBy
<1> HIDE DEF k, b
<1>8. b > 0
  <2>1. ASSUME b <= 0 PROVE FALSE
    <3>1. g * b <= g * 0 BY <1>1, <1>7, <2>1
    <3> QED BY <1>1, <1>3, <1>7, <3>1
  <2> QED BY <1>7, <2>1
<1>9. a \in Int /\ (a = k \/ a = -k) /\ s * a = k BY <1>3, <1>6
<1>10. a * d = n * b
  <2>1. a * d = (s * k) * (s * m) BY <1>3
  <2>2. (s * k) * (s * m) = k * m BY <1>3, <1>6
  <2>3. k * m = n * b
    <3>1. k * m = k * (g * b) BY <1>7
    <3>2. k * (g * b) = (g * k) * b BY <1>1, <1>6, <1>7
    <3> QED BY <1>6, <3>1, <3>2
  <2> QED BY <2>1, <2>2, <2>3
<1>11. Divisor(a, n)
  <2>1. n = a * (s * g)
    <3>1. a * (s * g) = (s * a) * g BY <1>1, <1>3, <1>9
    <3>2. (s * a) * g = k * g BY <1>9
    <3> QED BY <1>1, <1>6, <3>1, <3>2
  <2>2. s * g \in Int BY <1>1, <1>3
  <2> QED BY <2>1, <2>2 DEF Divisor
<1>12. Divisor(b, d)
  <2>1. d = b * (s * g)
    <3>1. b * (s * g) = s * (g * b) BY <1>1, <1>3, <1>7
    <3> QED BY <1>3, <1>7, <3>1
  <2>2. s * g \in Int BY <1>1, <1>3
  <2> QED BY <2>1, <2>2 DEF Divisor
<1>13. Coprime(a, b)
  <2>1. PICK x \in Int, y \in Int : n * x + d * y = g BY <1>2
  <2> DEFINE u == s * x  v == s * y
  <2>2. u \in Int /\ v \in Int BY <1>3
  <2>3. g * (a * u + b * v) = g * 1
    <3>1. a * u = k * x
      <4>1. a * u = (s * a) * x BY <1>3, <1>9
      <4> QED BY <1>9, <4>1
    <3>2. g * (k * x) = n * x
      <4>1. g * (k * x) = (g * k) * x BY <1>1, <1>6
      <4> QED BY <1>6, <4>1
    <3>3. g * (b * v) = d * y
      <4>1. g * (b * v) = (g * b) * v BY <1>1, <1>7, <2>2
      <4>2. m * v = (s * m) * y BY <1>3
      <4> QED BY <1>3, <1>7, <4>1, <4>2
    <3> HIDE DEF u, v, a
    <3>4. g * (a * u + b * v) = g * (a * u) + g * (b * v) BY <1>1, <1>7, <1>9, <2>2
    <3> QED BY <1>1, <2>1, <3>1, <3>2, <3>3, <3>4
  <2> DEFINE w == a * u + b * v
  <2>4. w \in Int BY <1>7, <1>9, <2>2
  <2> HIDE DEF w
  <2>5. w = 1
    <3>1. g * w = g * 1 BY <2>3 DEF w
    <3> QED BY <1>1, <2>4, <3>1, Cancel
  <2> HIDE DEF u, v
  <2> QED BY <2>2, <2>5 DEF w, Coprime
<1> HIDE DEF a
<1>14. b \in Nat \ {0} BY <1>7, <1>8
<1> QED BY <1>5, <1>9, <1>10, <1>11, <1>12, <1>13, <1>14

\* n/d is reduced to a rational in lowest terms that equals it, whatever the
\* signs.
THEOREM LowestTerms == \A n \in Int, d \in Int \ {0} : Ratio(n, d) \in Rationals /\ Equals(Ratio(n, d), n, d)
<1> SUFFICES ASSUME NEW n \in Int, NEW d \in Int, d # 0 PROVE Ratio(n, d) \in Rationals /\ Equals(Ratio(n, d), n, d)
  OBVIOUS
<1>1. PICK a \in Int, b \in Nat \ {0} :
         /\ Ratio(n, d) = <<a, b>> /\ Coprime(a, b)
         /\ a * d = n * b /\ Divisor(a, n) /\ Divisor(b, d)
  BY RatioParts
<1>2. Ratio(n, d) \in Rationals BY <1>1, RationalIs
<1> QED BY <1>1, <1>2 DEF Equals

\* One of two coprime numbers that divides a multiple of the other by c.
LEMMA OneDivides ==
    ASSUME NEW a \in Int, NEW b \in Int, NEW c \in Int, NEW d \in Int, Coprime(a, b), a * d = c * b
    PROVE  Divisor(b, d)
<1>1. PICK x \in Int, y \in Int : a * x + b * y = 1 BY DEF Coprime
<1>2. d = b * (c * x + d * y)
  <2>1. d = d * (a * x + b * y) BY <1>1
  <2>2. d * (a * x + b * y) = (a * d) * x + b * (d * y) OBVIOUS
  <2>3. (a * d) * x = (c * b) * x OBVIOUS
  <2>4. (c * b) * x + b * (d * y) = b * (c * x + d * y) OBVIOUS
  <2> DEFINE P == d * (a * x + b * y)  Q == (a * d) * x  R == b * (d * y)  S == (c * b) * x  T == b * (c * x + d * y)
  <2>5. d = P /\ P = Q + R /\ Q = S /\ S + R = T BY <2>1, <2>2, <2>3, <2>4
  <2> HIDE DEF P, Q, R, S, T
  <2>6. d = T BY <2>5
  <2> QED BY <2>6 DEF T
<1>3. c * x + d * y \in Int OBVIOUS
<1> QED BY <1>2, <1>3 DEF Divisor

\* Numbers above zero that divide each other are one.
LEMMA DivideEachOther ==
    ASSUME NEW b \in Nat \ {0}, NEW d \in Nat \ {0}, Divisor(b, d), Divisor(d, b)
    PROVE  b = d
<1>1. ASSUME NEW u \in Nat \ {0}, NEW v \in Nat \ {0}, Divisor(u, v) PROVE u <= v
  <2>1. PICK k \in Int : v = u * k BY <1>1 DEF Divisor
  <2>2. k >= 1
    <3>1. ASSUME k <= 0 PROVE FALSE
      <4>1. u * k <= u * 0 BY <3>1
      <4> QED BY <2>1, <4>1
    <3> QED BY <3>1
  <2>3. u * k >= u * 1 BY <2>2
  <2> QED BY <2>1, <2>3
<1>2. b <= d /\ d <= b BY <1>1
<1> QED BY <1>2

\* A rational has one form: equal ones are the same pair, which is what
\* comparing the pairs rests on.
THEOREM OneForm == \A p \in Rationals, q \in Rationals : p[1] * q[2] = q[1] * p[2] => p = q
<1> SUFFICES ASSUME NEW p \in Rationals, NEW q \in Rationals, p[1] * q[2] = q[1] * p[2] PROVE p = q
  OBVIOUS
<1>1. PICK a \in Int, b \in Nat \ {0} : p = <<a, b>> /\ Coprime(a, b) BY RationalIs
<1>2. PICK c \in Int, d \in Nat \ {0} : q = <<c, d>> /\ Coprime(c, d) BY RationalIs
<1>3. a * d = c * b BY <1>1, <1>2
<1>4. Divisor(b, d)
  <2>1. b \in Int /\ d \in Int OBVIOUS
  <2> QED BY ONLY <1>1, <1>3, <2>1, a \in Int, c \in Int, OneDivides
<1>5. Divisor(d, b)
  <2>1. b \in Int /\ d \in Int /\ c * b = a * d BY <1>3
  <2> QED BY ONLY <1>2, <2>1, a \in Int, c \in Int, OneDivides
<1>6. b = d BY <1>4, <1>5, DivideEachOther
<1>7. a = c
  <2>1. b * a = b * c BY <1>3, <1>6
  <2> QED BY <2>1, Cancel
<1> QED BY <1>1, <1>2, <1>6, <1>7

\* The product of two fractions reduced beforehand is in lowest terms.
LEMMA ProductOfRatios ==
    ASSUME NEW n \in Int, NEW d \in Int, d # 0, NEW m \in Int, NEW e \in Int, e # 0, Coprime(n, e), Coprime(m, d)
    PROVE  Product(Ratio(n, d), Ratio(m, e)) \in Rationals /\ Equals(Product(Ratio(n, d), Ratio(m, e)), n * m, d * e)
<1>1. PICK a \in Int, b \in Nat \ {0} :
         /\ Ratio(n, d) = <<a, b>> /\ Coprime(a, b)
         /\ a * d = n * b /\ Divisor(a, n) /\ Divisor(b, d)
  BY RatioParts
<1>2. PICK f \in Int, h \in Nat \ {0} :
         /\ Ratio(m, e) = <<f, h>> /\ Coprime(f, h)
         /\ f * e = m * h /\ Divisor(f, m) /\ Divisor(h, e)
  BY RatioParts
<1>3. Product(Ratio(n, d), Ratio(m, e)) = <<a * f, b * h>> BY <1>1, <1>2 DEF Product
<1>4. b \in Int /\ h \in Int /\ b * h \in Nat \ {0} /\ a * f \in Int
  <2>1. b * h >= b * 1 OBVIOUS
  <2> QED BY <2>1
<1>5. Coprime(a, h)
  <2>1. Coprime(a, e) BY <1>1, CoprimeDivisor
  <2>2. Coprime(e, a) BY <2>1, CoprimeSwap
  <2>3. Coprime(h, a) BY <1>2, <1>4, <2>2, CoprimeDivisor
  <2> QED BY <1>4, <2>3, CoprimeSwap
<1>6. Coprime(f, b)
  <2>1. Coprime(f, d) BY <1>2, CoprimeDivisor
  <2>2. Coprime(d, f) BY <2>1, CoprimeSwap
  <2>3. Coprime(b, f) BY <1>1, <1>4, <2>2, CoprimeDivisor
  <2> QED BY <1>4, <2>3, CoprimeSwap
<1>7. Coprime(a * f, b * h)
  <2>1. Coprime(a, b * h) BY <1>1, <1>4, <1>5, CoprimeProduct
  <2>2. Coprime(f, b * h) BY <1>2, <1>4, <1>6, CoprimeProduct
  <2> DEFINE w == b * h
  <2>3. w \in Int /\ Coprime(a, w) /\ Coprime(f, w) BY <1>4, <2>1, <2>2
  <2> HIDE DEF w
  <2>4. Coprime(w, a) /\ Coprime(w, f) BY <2>3, CoprimeSwap
  <2>5. Coprime(w, a * f) BY <2>3, <2>4, CoprimeProduct
  <2>6. Coprime(a * f, w) BY <1>4, <2>3, <2>5, CoprimeSwap
  <2> QED BY <2>6 DEF w
<1>8. <<a * f, b * h>> \in Rationals BY <1>4, <1>7, RationalIs
<1>9. (a * f) * (d * e) = (n * m) * (b * h)
  <2>1. (a * f) * (d * e) = (a * d) * (f * e) BY <1>4
  <2>2. (a * d) * (f * e) = (n * b) * (m * h) BY <1>1, <1>2
  <2>3. (n * b) * (m * h) = (n * m) * (b * h) BY <1>4
  <2> QED BY <2>1, <2>2, <2>3
<1> QED BY <1>3, <1>8, <1>9 DEF Equals

\* Products and quotients of rationals are exact and in lowest terms, though
\* they are reduced crosswise before they are multiplied.
THEOREM ProductsAreExact ==
    \A p \in Rationals, q \in Rationals :
        /\ Times(p, q) \in Rationals /\ Equals(Times(p, q), p[1] * q[1], p[2] * q[2])
        /\ q[1] # 0 => Over(p, q) \in Rationals /\ Equals(Over(p, q), p[1] * q[2], p[2] * q[1])
<1> SUFFICES ASSUME NEW p \in Rationals, NEW q \in Rationals
             PROVE  /\ Times(p, q) \in Rationals /\ Equals(Times(p, q), p[1] * q[1], p[2] * q[2])
                    /\ q[1] # 0 => Over(p, q) \in Rationals /\ Equals(Over(p, q), p[1] * q[2], p[2] * q[1])
  OBVIOUS
<1>1. PICK a \in Int, b \in Nat \ {0} : p = <<a, b>> /\ Coprime(a, b) BY RationalIs
<1>2. PICK c \in Int, d \in Nat \ {0} : q = <<c, d>> /\ Coprime(c, d) BY RationalIs
<1>3. b \in Int /\ d \in Int /\ b # 0 /\ d # 0 OBVIOUS
<1>4. Times(p, q) \in Rationals /\ Equals(Times(p, q), a * c, b * d)
  <2>1. Times(p, q) = Product(Ratio(a, d), Ratio(c, b)) BY <1>1, <1>2 DEF Times
  <2>2. /\ Product(Ratio(a, d), Ratio(c, b)) \in Rationals
        /\ Equals(Product(Ratio(a, d), Ratio(c, b)), a * c, d * b)
    BY <1>1, <1>2, <1>3, ProductOfRatios
  <2>3. d * b = b * d BY <1>3
  <2> QED BY <2>1, <2>2, <2>3
<1>5. ASSUME c # 0 PROVE Over(p, q) \in Rationals /\ Equals(Over(p, q), a * d, b * c)
  <2>1. Over(p, q) = Product(Ratio(a, c), Ratio(d, b)) BY <1>1, <1>2 DEF Over
  <2>2. Coprime(d, c) BY <1>2, <1>3, CoprimeSwap
  <2>3. /\ Product(Ratio(a, c), Ratio(d, b)) \in Rationals
        /\ Equals(Product(Ratio(a, c), Ratio(d, b)), a * d, c * b)
    BY <1>1, <1>3, <1>5, <2>2, ProductOfRatios
  <2>4. c * b = b * c BY <1>3
  <2> QED BY <2>1, <2>3, <2>4
<1> QED BY <1>1, <1>2, <1>4, <1>5

\* Sums and differences too, over the least common denominator.
THEOREM SumsAreExact ==
    \A p \in Rationals, q \in Rationals :
        /\ Plus(p, q) \in Rationals /\ Equals(Plus(p, q), p[1] * q[2] + q[1] * p[2], p[2] * q[2])
        /\ Minus(p, q) \in Rationals /\ Equals(Minus(p, q), p[1] * q[2] - q[1] * p[2], p[2] * q[2])
<1>1. ASSUME NEW p \in Rationals, NEW c \in Int, NEW d \in Nat \ {0}
      PROVE  Plus(p, <<c, d>>) \in Rationals /\ Equals(Plus(p, <<c, d>>), p[1] * d + c * p[2], p[2] * d)
  <2>1. PICK a \in Int, b \in Nat \ {0} : p = <<a, b>> /\ Coprime(a, b) BY RationalIs
  <2>2. b \in Int /\ d \in Int /\ b # 0 /\ d # 0 /\ b > 0 /\ d > 0 OBVIOUS
  <2>3. PICK u \in Int, v \in Nat \ {0} :
           /\ Ratio(b, d) = <<u, v>> /\ Coprime(u, v)
           /\ u * d = b * v /\ Divisor(u, b) /\ Divisor(v, d)
    BY <2>2, RatioParts
  <2> DEFINE n == a * v + c * u  e == b * v  r == Ratio(n, e)
  <2>4. n \in Int /\ e \in Int /\ e # 0
    <3>1. b * v >= b * 1 BY <2>2
    <3> QED BY <2>2, <3>1
  <2>5. Plus(p, <<c, d>>) = r BY <2>1, <2>3 DEF Plus, Across
  <2> HIDE DEF n, e, r
  <2>6. r \in Rationals /\ Equals(r, n, e) BY <2>4, LowestTerms DEF r
  <2>7. r[1] \in Int /\ r[2] \in Int /\ r[1] * e = n * r[2] BY <2>6 DEF Equals, Rationals
  <2> DEFINE x == r[1]  y == r[2]
  <2>8. x \in Int /\ y \in Int /\ x * e = n * y BY <2>7
  <2> HIDE DEF x, y
  <2>9. v * (x * (b * d)) = v * ((a * d + c * b) * y)
    <3>1. v * (x * (b * d)) = d * (x * e)
      <4>1. v * (x * (b * d)) = d * (x * (b * v)) BY <2>2, <2>8
      <4> QED BY <4>1 DEF e
    <3>2. d * (x * e) = d * (n * y) BY <2>8
    <3>3. d * (n * y) = (d * n) * y BY <2>2, <2>4, <2>8
    <3>4. d * n = v * (a * d + c * b)
      <4>1. d * n = d * (a * v) + c * (u * d) BY <2>2 DEF n
      <4>2. c * (u * d) = c * (b * v) BY <2>3
      <4>3. d * (a * v) + c * (b * v) = v * (a * d + c * b) BY <2>2
      <4> QED BY <4>1, <4>2, <4>3
    <3>5. (v * (a * d + c * b)) * y = v * ((a * d + c * b) * y) BY <2>2, <2>8
    <3> QED BY <3>1, <3>2, <3>3, <3>4, <3>5
  <2>10. x * (b * d) = (a * d + c * b) * y
    <3> DEFINE l == x * (b * d)  k == (a * d + c * b) * y
    <3>1. l \in Int /\ k \in Int /\ v * l = v * k /\ v \in Int /\ v # 0 BY <2>2, <2>8, <2>9
    <3> HIDE DEF l, k
    <3>2. l = k BY <3>1, Cancel
    <3> QED BY <3>2 DEF l, k
  <2>11. Equals(r, a * d + c * b, b * d) BY <2>10 DEF Equals, x, y
  <2> QED BY <2>1, <2>5, <2>6, <2>11
<1>2. ASSUME NEW p \in Rationals, NEW q \in Rationals
      PROVE  /\ Plus(p, q) \in Rationals /\ Equals(Plus(p, q), p[1] * q[2] + q[1] * p[2], p[2] * q[2])
             /\ Minus(p, q) \in Rationals /\ Equals(Minus(p, q), p[1] * q[2] - q[1] * p[2], p[2] * q[2])
  <2>1. PICK a \in Int, b \in Nat \ {0} : p = <<a, b>> /\ Coprime(a, b) BY RationalIs
  <2>2. PICK c \in Int, d \in Nat \ {0} : q = <<c, d>> /\ Coprime(c, d) BY RationalIs
  <2>3. Plus(p, q) \in Rationals /\ Equals(Plus(p, q), p[1] * d + c * p[2], p[2] * d) BY <1>1, <2>2
  <2>4. -c \in Int /\ Minus(p, q) = Plus(p, <<-c, d>>) BY <2>2 DEF Minus
  <2>5. Minus(p, q) \in Rationals /\ Equals(Minus(p, q), p[1] * d + (-c) * p[2], p[2] * d) BY <1>1, <2>4
  <2>6. p[1] * d + (-c) * p[2] = p[1] * d - c * p[2] BY <2>1
  <2> QED BY <2>2, <2>3, <2>5, <2>6
<1> QED BY <1>2

\* An integer read into an f64 above MaxExact becomes one of its even
\* neighbours: itself if it is even, else the one with an even significand.
THEOREM RoundingIsNearest ==
    \A i \in Int :
        /\ HalfEven(i) \in Int /\ HalfEven(i) % 2 = 0
        /\ i % 2 = 0 => HalfEven(i) = i
        /\ i % 2 = 1 => HalfEven(i) \in {i - 1, i + 1} /\ HalfEven(i) % 4 = 0
<1> SUFFICES ASSUME NEW i \in Int
             PROVE  /\ HalfEven(i) \in Int /\ HalfEven(i) % 2 = 0
                    /\ i % 2 = 0 => HalfEven(i) = i
                    /\ i % 2 = 1 => HalfEven(i) \in {i - 1, i + 1} /\ HalfEven(i) % 4 = 0
  OBVIOUS
<1>1. i % 4 \in 0 .. 3 OBVIOUS
<1>2. CASE i % 4 = 0 BY <1>2 DEF HalfEven
<1>3. CASE i % 4 = 1 BY <1>3 DEF HalfEven
<1>4. CASE i % 4 = 2 BY <1>4 DEF HalfEven
<1>5. CASE i % 4 = 3 BY <1>5 DEF HalfEven
<1> QED BY <1>1, <1>2, <1>3, <1>4, <1>5

\* Reading integers into f64 keeps their order and their signs, and changes
\* none up to MaxExact: two of them can become equal, none overtakes another.
THEOREM ReadingKeepsOrder ==
    \A i \in Int, j \in Int :
        /\ AsF64(i) \in Int /\ AsF64(-i) = -AsF64(i)
        /\ -MaxExact <= i /\ i <= MaxExact => AsF64(i) = i
        /\ i <= j => AsF64(i) <= AsF64(j)
<1> DEFINE up(n) == IF n > MaxExact THEN HalfEven(n) ELSE n
<1>1. MaxExact \in Nat BY NumbersAssumption
<1>2. ASSUME NEW n \in Nat
      PROVE  up(n) \in Nat /\ up(n) - n \in {-1, 0, 1} /\ (n > MaxExact => up(n) >= MaxExact) /\ (n <= MaxExact => up(n) = n)
  <2>1. CASE n % 2 = 0 BY <1>1, <2>1, RoundingIsNearest
  <2>2. CASE n % 2 = 1
    <3>1. n >= 1 BY <2>2
    <3>2. HalfEven(n) \in {n - 1, n + 1} BY <2>2, RoundingIsNearest
    <3> QED BY <1>1, <3>1, <3>2
  <2>3. n % 2 \in {0, 1} OBVIOUS
  <2> QED BY <2>1, <2>2, <2>3
<1>3. ASSUME NEW n \in Nat, NEW m \in Nat, n <= m PROVE up(n) <= up(m)
  <2>1. CASE m <= MaxExact BY <1>1, <1>2, <1>3, <2>1
  <2>2. CASE n <= MaxExact /\ m > MaxExact BY <1>1, <1>2, <1>3, <2>2
  <2>3. CASE n > MaxExact
    <3>1. HalfEven(n) <= HalfEven(m)
      <4>1. CASE m = n BY <4>1, RoundingIsNearest
      <4>2. CASE m = n + 1 BY <4>2 DEF HalfEven
      <4>3. CASE m >= n + 2
        <5>1. HalfEven(n) \in {n - 1, n, n + 1} /\ HalfEven(m) \in {m - 1, m, m + 1} BY DEF HalfEven
        <5> QED BY <4>3, <5>1
      <4> QED BY <1>3, <4>1, <4>2, <4>3
    <3> QED BY <1>1, <1>3, <2>3, <3>1
  <2> QED BY <1>1, <2>1, <2>2, <2>3
<1>4. ASSUME NEW n \in Int PROVE AsF64(n) = IF n < 0 THEN -up(-n) ELSE up(n)
  <2>1. CASE n < 0
    <3>1. -n \in Nat BY <2>1
    <3>2. AsF64(n) = (-1) * up(-n) BY <2>1 DEF AsF64, Sign, Magnitude
    <3> QED BY <1>2, <2>1, <3>1, <3>2
  <2>2. CASE n = 0
    <3>1. up(0) = 0 BY <1>1
    <3>2. AsF64(n) = 0 * up(0) BY <2>2 DEF AsF64, Sign, Magnitude
    <3> QED BY <2>2, <3>1, <3>2
  <2>3. CASE n > 0
    <3>1. n \in Nat BY <2>3
    <3>2. AsF64(n) = 1 * up(n) BY <2>3 DEF AsF64, Sign, Magnitude
    <3> QED BY <1>2, <2>3, <3>1, <3>2
  <2> QED BY <2>1, <2>2, <2>3
<1>5. up(0) = 0 BY <1>1
<1> HIDE DEF up
<1>6. ASSUME NEW i \in Int, NEW j \in Int
      PROVE  /\ AsF64(i) \in Int /\ AsF64(-i) = -AsF64(i)
             /\ -MaxExact <= i /\ i <= MaxExact => AsF64(i) = i
             /\ i <= j => AsF64(i) <= AsF64(j)
  <2>1. CASE i < 0
    <3>1. -i \in Nat /\ up(-i) \in Nat BY <1>2, <2>1
    <3>2. AsF64(i) = -up(-i) /\ AsF64(-i) = up(-i) BY <1>4, <2>1, <3>1
    <3>3. i <= j => AsF64(i) <= AsF64(j)
      <4>1. CASE j < 0
        <5>1. -j \in Nat /\ up(-j) \in Nat /\ AsF64(j) = -up(-j) BY <1>2, <1>4, <4>1
        <5>2. i <= j => up(-j) <= up(-i) BY <1>3, <3>1, <5>1
        <5> QED BY <3>1, <3>2, <5>1, <5>2
      <4>2. CASE j >= 0
        <5>1. up(j) \in Nat /\ AsF64(j) = up(j) BY <1>2, <1>4, <4>2
        <5> QED BY <3>1, <3>2, <5>1
      <4> QED BY <4>1, <4>2
    <3>4. -MaxExact <= i => up(-i) = -i BY <1>1, <1>2, <3>1
    <3> QED BY <3>1, <3>2, <3>3, <3>4
  <2>2. CASE i >= 0
    <3>1. i \in Nat /\ up(i) \in Nat /\ AsF64(i) = up(i) BY <1>2, <1>4, <2>2
    <3>2. AsF64(-i) = -up(i)
      <4>1. CASE i = 0 BY <1>4, <1>5, <4>1
      <4>2. CASE i > 0
        <5>1. -i \in Int /\ -i < 0 /\ -(-i) = i BY <4>2
        <5> QED BY <1>4, <5>1
      <4> QED BY <2>2, <4>1, <4>2
    <3>3. i <= j => AsF64(i) <= AsF64(j)
      <4>1. ASSUME i <= j PROVE AsF64(j) = up(j) /\ up(i) <= up(j) BY <1>3, <1>4, <2>2, <3>1, <4>1
      <4> QED BY <3>1, <4>1
    <3>4. i <= MaxExact => up(i) = i BY <1>1, <1>2, <3>1
    <3> QED BY <3>1, <3>2, <3>3, <3>4
  <2> QED BY <2>1, <2>2
<1> QED BY <1>6

-----------------------------------------------------------------------------
(* Rounding to decimals, falling factorials and combinations.              *)

\* Rounding to decimals takes the multiple of 1/grid next to the number, of two
\* as near the one further from zero, and never one of the other sign.
THEOREM RoundsToNearest ==
    \A q \in Rationals, grid \in Nat \ {0} :
        /\ RoundedTo(q, grid) \in Rationals
        /\ \E k \in Int :
              /\ Equals(RoundedTo(q, grid), k, grid)
              /\ k # 0 => Sign(k) = Sign(q[1])
              /\ -q[2] < 2 * (Magnitude(k) * q[2] - Magnitude(q[1]) * grid)
              /\ 2 * (Magnitude(k) * q[2] - Magnitude(q[1]) * grid) <= q[2]
<1> SUFFICES ASSUME NEW q \in Rationals, NEW grid \in Nat \ {0}
             PROVE  /\ RoundedTo(q, grid) \in Rationals
                    /\ \E k \in Int :
                          /\ Equals(RoundedTo(q, grid), k, grid)
                          /\ k # 0 => Sign(k) = Sign(q[1])
                          /\ -q[2] < 2 * (Magnitude(k) * q[2] - Magnitude(q[1]) * grid)
                          /\ 2 * (Magnitude(k) * q[2] - Magnitude(q[1]) * grid) <= q[2]
  OBVIOUS
<1> DEFINE a == q[1]  b == q[2]  m == Magnitude(a) * grid  d == 2 * b  t == 2 * m + b  h == t \div d  k == Sign(a) * h
<1>1. a \in Int /\ b \in Nat /\ b > 0 BY DEF Rationals
<1>2. Magnitude(a) \in Nat /\ m \in Nat
  <2>1. Magnitude(a) \in Nat BY <1>1 DEF Magnitude
  <2> DEFINE w == Magnitude(a)
  <2>2. w \in Nat BY <2>1
  <2> HIDE DEF w
  <2>3. w * grid \in Nat BY <2>2
  <2> QED BY <2>1, <2>3 DEF w
<1>3. RoundedTo(q, grid) = Ratio(k, grid)
  <2>1. 2 * Magnitude(a) * grid = 2 * m BY <1>1, <1>2
  <2> QED BY <2>1 DEF RoundedTo
<1> HIDE DEF a, b, m
<1>4. d \in Nat /\ d > 0 /\ t \in Nat BY <1>1, <1>2
<1> HIDE DEF d, t
<1>5. h \in Int /\ d * h <= t /\ t < d * h + d BY <1>4, DivMod
<1> HIDE DEF h
<1>6. h >= 0
  <2>1. ASSUME h <= -1 PROVE FALSE
    <3>1. d * h <= d * (-1) BY <1>4, <1>5, <2>1
    <3> QED BY <1>4, <1>5, <3>1
  <2> QED BY <1>5, <2>1
<1>7. d * h = 2 * (h * b) /\ h * b \in Int BY <1>1, <1>5 DEF d
<1>8. -b < 2 * (h * b - m) /\ 2 * (h * b - m) <= b
  <2> DEFINE u == h * b
  <2>1. u \in Int /\ 2 * u <= 2 * m + b /\ 2 * m + b < 2 * u + 2 * b BY <1>5, <1>7 DEF d, t
  <2> HIDE DEF u
  <2>2. -b < 2 * (u - m) /\ 2 * (u - m) <= b BY <1>1, <1>2, <2>1
  <2> QED BY <2>2 DEF u
<1>9. k \in Int /\ (a # 0 => Magnitude(k) = h) /\ (k # 0 => Sign(k) = Sign(a))
  <2>1. CASE a = 0 BY <1>5, <2>1 DEF Sign
  <2>2. CASE a > 0
    <3>1. k = h BY <1>1, <1>5, <2>2 DEF Sign
    <3> HIDE DEF k
    <3> QED BY <1>1, <1>5, <1>6, <2>2, <3>1 DEF Sign, Magnitude
  <2>3. CASE a < 0
    <3>1. k = -h BY <1>5, <2>3 DEF Sign
    <3> HIDE DEF k
    <3> QED BY <1>5, <1>6, <2>3, <3>1 DEF Sign, Magnitude
  <2> QED BY <1>1, <2>1, <2>2, <2>3
<1>10. a = 0 => k = 0 /\ h = 0
  <2>1. ASSUME a = 0 PROVE k = 0 BY <1>5, <2>1 DEF Sign
  <2>2. ASSUME a = 0 PROVE m = 0 BY <2>2 DEF m, Magnitude
  <2>3. ASSUME m = 0, h >= 1 PROVE FALSE
    <3>1. d * h >= d * 1 BY <1>4, <1>5, <2>3
    <3> QED BY <1>1, <1>4, <1>5, <2>3, <3>1 DEF d, t
  <2> QED BY <1>5, <1>6, <2>1, <2>2, <2>3
<1>11. Magnitude(k) = h
  <2>1. CASE a = 0 BY <1>10, <2>1 DEF Magnitude
  <2> QED BY <1>9, <2>1
<1> HIDE DEF k
<1>12. Ratio(k, grid) \in Rationals /\ Equals(Ratio(k, grid), k, grid) BY <1>9, LowestTerms
<1>13. -b < 2 * (Magnitude(k) * b - m) /\ 2 * (Magnitude(k) * b - m) <= b BY <1>8, <1>11
<1> QED BY <1>3, <1>9, <1>12, <1>13 DEF a, b, m

-----------------------------------------------------------------------------
(* Permutations and combinations.                                          *)

Factors == Int \X Nat \X BOOLEAN
\* f computes the product, n * (n - 1) * .. over k factors.
Multiplying(f) ==
    f = [s \in Factors |->
            IF s[2] = 0 THEN 1
            ELSE LET done == f[<<s[1], s[2] - 1, s[3]>>] * (s[1] - s[2] + 1) IN IF s[3] THEN done \div s[2] ELSE done]

\* One turn of the loop less.
LEMMA FewerFactors ==
    ASSUME NEW s \in Factors, s[2] # 0
    PROVE  /\ s[1] \in Int /\ s[2] \in Nat /\ s[2] > 0 /\ s[2] - 1 \in Nat /\ s[3] \in BOOLEAN
           /\ <<s[1], s[2] - 1, s[3]>> \in Factors
<1>1. s[1] \in Int /\ s[2] \in Nat /\ s[3] \in BOOLEAN BY DEF Factors
<1>2. s[2] - 1 \in Nat /\ s[2] > 0 BY <1>1
<1> QED BY <1>1, <1>2 DEF Factors

\* The loop of perm and comb ends.
LEMMA FallingEnds == \E f \in [Factors -> Int] : Multiplying(f)
<1> DEFINE size  == [s \in Factors |-> s[2]]
           Base  == {s \in Factors : s[2] = 0}
           next  == [s \in Factors \ Base |-> <<s[1], s[2] - 1, s[3]>>]
           start == [s \in Base |-> 1]
           comb  == [s \in Factors \ Base |-> [v \in Int |->
                        IF s[3] THEN (v * (s[1] - s[2] + 1)) \div s[2] ELSE v * (s[1] - s[2] + 1)]]
<1>1. ASSUME NEW s \in Factors \ Base
      PROVE  next[s] \in Factors /\ size[next[s]] < size[s] /\ next[s] = <<s[1], s[2] - 1, s[3]>>
  <2>1. s[2] # 0 OBVIOUS
  <2>2. s[2] \in Nat /\ <<s[1], s[2] - 1, s[3]>> \in Factors BY <2>1, FewerFactors
  <2>3. next[s] = <<s[1], s[2] - 1, s[3]>> OBVIOUS
  <2>4. size[next[s]] = s[2] - 1 BY <2>2, <2>3
  <2> QED BY <2>2, <2>3, <2>4
<1>2. ASSUME NEW s \in Factors \ Base, NEW v \in Int PROVE comb[s][v] \in Int
  <2>1. s[1] \in Int /\ s[2] \in Nat /\ s[2] > 0 BY FewerFactors
  <2> DEFINE w == v * (s[1] - s[2] + 1)
  <2>2. w \in Int BY <2>1
  <2> HIDE DEF w
  <2>3. w \div s[2] \in Int BY <2>1, <2>2, DivMod
  <2>4. comb[s][v] = IF s[3] THEN w \div s[2] ELSE w BY DEF w
  <2> HIDE DEF comb
  <2> QED BY <2>2, <2>3, <2>4
<1>3. Recursive(Factors, Int, size, Base, next, start, comb)
  <2>1. size \in [Factors -> Nat] BY DEF Factors
  <2>2. Base \in SUBSET Factors OBVIOUS
  <2>3. next \in [Factors \ Base -> Factors] BY <1>1
  <2>4. start \in [Base -> Int] OBVIOUS
  <2>5. comb \in [Factors \ Base -> [Int -> Int]]
    <3>1. ASSUME NEW s \in Factors \ Base PROVE comb[s] \in [Int -> Int]
      <4>1. comb[s] = [v \in Int |-> comb[s][v]] OBVIOUS
      <4> HIDE DEF comb
      <4> QED BY <1>2, <4>1
    <3>2. comb = [s \in Factors \ Base |-> comb[s]] OBVIOUS
    <3> HIDE DEF comb
    <3> QED BY <3>1, <3>2
  <2>6. \A s \in Factors \ Base : size[next[s]] < size[s] BY <1>1
  <2> HIDE DEF size, Base, next, start, comb
  <2> QED BY <2>1, <2>2, <2>3, <2>4, <2>5, <2>6 DEF Recursive
<1>4. PICK f \in [Factors -> Int] : \A s \in Factors : f[s] = Unfolded(f, s, Base, next, start, comb)
  <2>1. 0 \in Int OBVIOUS
  <2> HIDE DEF size, Base, next, start, comb
  <2> QED BY <1>3, <2>1, Recursion
<1>5. ASSUME NEW s \in Factors
      PROVE  f[s] = IF s[2] = 0 THEN 1
                    ELSE LET done == f[<<s[1], s[2] - 1, s[3]>>] * (s[1] - s[2] + 1) IN IF s[3] THEN done \div s[2] ELSE done
  <2>1. CASE s[2] = 0 BY <1>4, <2>1 DEF Unfolded
  <2>2. CASE s[2] # 0
    <3>1. s \in Factors \ Base /\ next[s] = <<s[1], s[2] - 1, s[3]>> /\ next[s] \in Factors BY <1>1, <2>2
    <3>2. f[next[s]] \in Int BY <3>1
    <3>3. f[s] = comb[s][f[next[s]]]
      <4> HIDE DEF next, comb, start
      <4> QED BY <1>4, <2>2, <3>1 DEF Unfolded
    <3> QED BY <2>2, <3>1, <3>2, <3>3
  <2> QED BY <2>1, <2>2
<1>6. Multiplying(f) BY <1>5 DEF Multiplying
<1> QED BY <1>6

\* The loop of perm and comb, unfolded once.
LEMMA FallingSteps ==
    ASSUME NEW n \in Int, NEW k \in Nat
    PROVE  /\ Falling[<<n, k, TRUE>>] \in Int /\ Falling[<<n, k, FALSE>>] \in Int
           /\ Falling[<<n, 0, TRUE>>] = 1 /\ Falling[<<n, 0, FALSE>>] = 1
           /\ Falling[<<n, k + 1, TRUE>>] = (Falling[<<n, k, TRUE>>] * (n - k)) \div (k + 1)
           /\ Falling[<<n, k + 1, FALSE>>] = Falling[<<n, k, FALSE>>] * (n - k)
<1>1. Falling = CHOOSE f : Multiplying(f) BY DEF Falling, Multiplying, Factors
<1>2. Multiplying(Falling) BY <1>1, FallingEnds
<1> DEFINE f == Falling
<1>3. Multiplying(f) BY <1>2
<1> HIDE DEF f
<1>4. ASSUME NEW s \in Factors
      PROVE  f[s] = IF s[2] = 0 THEN 1
                    ELSE LET done == f[<<s[1], s[2] - 1, s[3]>>] * (s[1] - s[2] + 1) IN IF s[3] THEN done \div s[2] ELSE done
  BY <1>3 DEF Multiplying
<1>5. ASSUME NEW j \in Nat, NEW c \in BOOLEAN PROVE <<n, j, c>> \in Factors BY DEF Factors
<1>6. f[<<n, 0, TRUE>>] = 1 /\ f[<<n, 0, FALSE>>] = 1
  <2>1. 0 \in Nat /\ TRUE \in BOOLEAN /\ FALSE \in BOOLEAN OBVIOUS
  <2>2. <<n, 0, TRUE>> \in Factors /\ <<n, 0, FALSE>> \in Factors BY <1>5, <2>1
  <2> QED BY <1>4, <2>2
<1>7. ASSUME NEW j \in Nat
      PROVE  /\ f[<<n, j + 1, TRUE>>] = (f[<<n, j, TRUE>>] * (n - j)) \div (j + 1)
             /\ f[<<n, j + 1, FALSE>>] = f[<<n, j, FALSE>>] * (n - j)
  <2> DEFINE s == <<n, j + 1, TRUE>>  t == <<n, j + 1, FALSE>>
  <2>1. j + 1 \in Nat /\ j + 1 # 0 /\ (j + 1) - 1 = j /\ n - (j + 1) + 1 = n - j /\ TRUE \in BOOLEAN /\ FALSE \in BOOLEAN OBVIOUS
  <2>2. s \in Factors /\ t \in Factors BY <1>5, <2>1
  <2>3. s[1] = n /\ s[2] = j + 1 /\ s[3] = TRUE /\ t[1] = n /\ t[2] = j + 1 /\ t[3] = FALSE OBVIOUS
  <2> HIDE DEF s, t
  <2>4. f[s] = (f[<<n, (j + 1) - 1, TRUE>>] * (n - (j + 1) + 1)) \div (j + 1) BY <1>4, <2>1, <2>2, <2>3
  <2>5. f[t] = f[<<n, (j + 1) - 1, FALSE>>] * (n - (j + 1) + 1) BY <1>4, <2>1, <2>2, <2>3
  <2> QED BY <2>1, <2>4, <2>5 DEF s, t
<1>8. \A j \in Nat : f[<<n, j, TRUE>>] \in Int /\ f[<<n, j, FALSE>>] \in Int
  <2> DEFINE A == {j \in Nat : f[<<n, j, TRUE>>] \in Int /\ f[<<n, j, FALSE>>] \in Int}
  <2>1. 0 \in A BY <1>6
  <2>2. ASSUME NEW j \in A PROVE j + 1 \in A
    <3> DEFINE u == f[<<n, j, TRUE>>] * (n - j)  v == f[<<n, j, FALSE>>] * (n - j)
    <3>1. j \in Nat /\ u \in Int /\ v \in Int OBVIOUS
    <3> HIDE DEF u, v
    <3>2. j + 1 \in Nat /\ j + 1 > 0 BY <3>1
    <3>3. u \div (j + 1) \in Int BY <3>1, <3>2, DivMod
    <3>4. f[<<n, j + 1, TRUE>>] = u \div (j + 1) /\ f[<<n, j + 1, FALSE>>] = v BY <1>7, <3>1 DEF u, v
    <3> QED BY <3>1, <3>2, <3>3, <3>4
  <2> HIDE DEF A
  <2>3. A \in SUBSET Nat BY DEF A
  <2>4. A = Nat BY <2>1, <2>2, <2>3, AllNaturals
  <2> QED BY <2>4 DEF A
<1> QED BY <1>6, <1>7, <1>8 DEF f

\* C is Pascal's row for n, as far as the divisions of comb go.
Exact(n) == \A k \in Nat : Falling[<<n, k + 1, TRUE>>] * (k + 1) = Falling[<<n, k, TRUE>>] * (n - k)
Pascal(n) == \A k \in Nat : Falling[<<n + 1, k + 1, TRUE>>] = Falling[<<n, k, TRUE>>] + Falling[<<n, k + 1, TRUE>>]

\* A division that is exact.
LEMMA ExactQuotient ==
    ASSUME NEW d \in Nat, d > 0, NEW q \in Int, NEW a \in Int, a = d * q
    PROVE  a \div d = q
<1>1. a = d * q + 0 OBVIOUS
<1> QED BY <1>1, OneRemainder

\* None of nothing.
LEMMA NoneOfNothing == \A k \in Nat : Falling[<<0, k + 1, TRUE>>] = 0
<1> DEFINE A == {k \in Nat : Falling[<<0, k + 1, TRUE>>] = 0}
<1>1. 0 \in A
  <2>1. Falling[<<0, 0 + 1, TRUE>>] = (Falling[<<0, 0, TRUE>>] * (0 - 0)) \div (0 + 1) /\ Falling[<<0, 0, TRUE>>] = 1
    BY FallingSteps, 0 \in Int, 0 \in Nat
  <2>2. (1 * (0 - 0)) \div (0 + 1) = 0 BY ExactQuotient
  <2> QED BY <2>1, <2>2
<1>2. ASSUME NEW k \in A PROVE k + 1 \in A
  <2>1. k \in Nat /\ k + 1 \in Nat /\ Falling[<<0, k + 1, TRUE>>] = 0 OBVIOUS
  <2>2. Falling[<<0, (k + 1) + 1, TRUE>>] = (Falling[<<0, k + 1, TRUE>>] * (0 - (k + 1))) \div ((k + 1) + 1)
    BY <2>1, 0 \in Int, FallingSteps
  <2>3. 0 * (0 - (k + 1)) = ((k + 1) + 1) * 0 BY <2>1
  <2>4. (0 * (0 - (k + 1))) \div ((k + 1) + 1) = 0
    <3> DEFINE d == (k + 1) + 1  a == 0 * (0 - (k + 1))
    <3>1. d \in Nat /\ d > 0 /\ a \in Int /\ a = d * 0 BY <2>1, <2>3
    <3> HIDE DEF d, a
    <3>2. a \div d = 0 BY <3>1, ExactQuotient
    <3> QED BY <3>2 DEF a, d
  <2> QED BY <2>1, <2>2, <2>4
<1>3. A \in SUBSET Nat OBVIOUS
<1> HIDE DEF A
<1>4. A = Nat BY <1>1, <1>2, <1>3, AllNaturals
<1> QED BY <1>4 DEF A

\* An exact row has the next one below it as Pascal's rule makes it, and that
\* one is exact too.
LEMMA NextRow ==
    ASSUME NEW n \in Nat, Exact(n)
    PROVE  Pascal(n) /\ Exact(n + 1)
<1> DEFINE C == [k \in Nat |-> Falling[<<n, k, TRUE>>]]
           D == [k \in Nat |-> IF k = 0 THEN 1 ELSE C[k - 1] + C[k]]
           E == [k \in Nat |-> Falling[<<n + 1, k, TRUE>>]]
<1>1. \A k \in Nat : C[k] \in Int /\ E[k] \in Int
  <2>1. n \in Int /\ n + 1 \in Int OBVIOUS
  <2> QED BY <2>1, FallingSteps
<1>2. C[0] = 1 /\ E[0] = 1
  <2>1. n \in Int /\ n + 1 \in Int /\ 0 \in Nat OBVIOUS
  <2> QED BY <2>1, FallingSteps
<1>3. ASSUME NEW k \in Nat PROVE C[k + 1] * (k + 1) = C[k] * (n - k)
  <2>1. k + 1 \in Nat OBVIOUS
  <2> QED BY <2>1 DEF Exact
<1>4. ASSUME NEW k \in Nat PROVE E[k + 1] = (E[k] * ((n + 1) - k)) \div (k + 1)
  <2>1. k + 1 \in Nat /\ n + 1 \in Int OBVIOUS
  <2> QED BY <2>1, FallingSteps
<1>5. D[0] = 1 /\ \A k \in Nat : D[k + 1] = C[k] + C[k + 1]
  <2>1. \A k \in Nat : k + 1 \in Nat /\ k + 1 # 0 /\ (k + 1) - 1 = k OBVIOUS
  <2> HIDE DEF C
  <2>2. \A k \in Nat : D[k + 1] = C[(k + 1) - 1] + C[k + 1] BY <2>1
  <2> QED BY <2>1, <2>2
<1>6. \A k \in Nat : D[k] \in Int
  <2> HIDE DEF C, D
  <2>1. ASSUME NEW k \in Nat PROVE D[k] \in Int
    <3>1. CASE k = 0 BY <1>5, <3>1
    <3>2. CASE k # 0
      <4> DEFINE j == k - 1
      <4>1. j \in Nat /\ j + 1 = k BY <3>2
      <4> HIDE DEF j
      <4>2. D[j + 1] = C[j] + C[j + 1] BY <1>5, <4>1
      <4>3. C[j] \in Int /\ C[k] \in Int BY <1>1, <4>1
      <4>4. D[k] = C[j] + C[k] BY <4>1, <4>2
      <4> QED BY <4>3, <4>4
    <3> QED BY <3>1, <3>2
  <2> QED BY <2>1
<1> HIDE DEF C, D, E
<1>7. ASSUME NEW k \in Nat PROVE D[k + 1] * (k + 1) = D[k] * ((n + 1) - k)
  <2> DEFINE c == C[k]  e == C[k + 1]
  <2>1. c \in Int /\ e \in Int /\ e * (k + 1) = c * (n - k) /\ D[k + 1] = c + e BY <1>1, <1>3, <1>5
  <2> HIDE DEF c, e
  <2>2. (c + e) * (k + 1) = c * (n + 1)
    <3>1. (c + e) * (k + 1) = c * (k + 1) + e * (k + 1) BY <2>1
    <3>2. c * (k + 1) + c * (n - k) = c * (n + 1) BY <2>1
    <3> QED BY <2>1, <3>1, <3>2
  <2>3. CASE k = 0
    <3>1. c = 1 /\ D[k] = 1 BY <1>2, <1>5, <2>3 DEF c
    <3> QED BY <2>1, <2>2, <2>3, <3>1
  <2>4. CASE k # 0
    <3> DEFINE j == k - 1  b == C[j]
    <3>1. j \in Nat /\ j + 1 = k BY <2>4
    <3> HIDE DEF j
    <3>2. b \in Int /\ C[j + 1] * (j + 1) = b * (n - j) /\ D[j + 1] = b + C[j + 1] BY <1>1, <1>3, <1>5, <3>1
    <3> HIDE DEF b
    <3>3. c * k = b * (n - j) /\ D[k] = b + c BY <3>1, <3>2 DEF c
    <3>4. (b + c) * ((n + 1) - k) = c * (n + 1)
      <4>1. (n + 1) - k = n - j BY <3>1
      <4>2. (b + c) * (n - j) = b * (n - j) + c * (n - j) BY <2>1, <3>1, <3>2
      <4>3. b * (n - j) + c * (n - j) = c * k + c * ((n + 1) - k) BY <3>3, <4>1
      <4>4. c * k + c * ((n + 1) - k) = c * (n + 1) BY <2>1
      <4> QED BY <4>1, <4>2, <4>3, <4>4
    <3> QED BY <2>1, <2>2, <3>3, <3>4
  <2> QED BY <2>3, <2>4
<1>8. \A k \in Nat : E[k] = D[k]
  <2> DEFINE A == {k \in Nat : E[k] = D[k]}
  <2>1. 0 \in A BY <1>2, <1>5
  <2>2. ASSUME NEW k \in A PROVE k + 1 \in A
    <3> DEFINE d == D[k]  q == D[k + 1]  a == d * ((n + 1) - k)  m == k + 1
    <3>1. k \in Nat /\ E[k] = d OBVIOUS
    <3>2. m \in Nat /\ m > 0 /\ d \in Int /\ q \in Int BY <1>6, <3>1
    <3>3. q * m = a BY <1>7, <3>1
    <3>4. E[m] = a \div m BY <1>4, <3>1
    <3> HIDE DEF d, q, m
    <3>5. a \in Int BY <3>1, <3>2
    <3> HIDE DEF a
    <3>6. a = m * q BY <3>2, <3>3, <3>5
    <3>7. a \div m = q BY <3>2, <3>5, <3>6, ExactQuotient
    <3>8. E[m] = q BY <3>4, <3>7
    <3> QED BY <3>1, <3>2, <3>8 DEF m, q
  <2>3. A \in SUBSET Nat OBVIOUS
  <2> HIDE DEF A
  <2>4. A = Nat BY <2>1, <2>2, <2>3, AllNaturals
  <2> QED BY <2>4 DEF A
<1>9. ASSUME NEW k \in Nat
      PROVE  /\ Falling[<<n + 1, k + 1, TRUE>>] = Falling[<<n, k, TRUE>>] + Falling[<<n, k + 1, TRUE>>]
             /\ Falling[<<n + 1, k + 1, TRUE>>] * (k + 1) = Falling[<<n + 1, k, TRUE>>] * ((n + 1) - k)
  <2>1. k + 1 \in Nat OBVIOUS
  <2>2. E[k + 1] = C[k] + C[k + 1] BY <1>5, <1>8, <2>1
  <2>3. E[k + 1] * (k + 1) = E[k] * ((n + 1) - k) BY <1>7, <1>8, <2>1
  <2>4. /\ E[k + 1] = Falling[<<n + 1, k + 1, TRUE>>] /\ E[k] = Falling[<<n + 1, k, TRUE>>]
        /\ C[k] = Falling[<<n, k, TRUE>>] /\ C[k + 1] = Falling[<<n, k + 1, TRUE>>]
    BY <2>1 DEF C, E
  <2> QED BY <2>2, <2>3, <2>4
<1> QED BY <1>9 DEF Pascal, Exact

\* comb's loop: no division leaves a remainder, though it divides after every
\* factor, and what it computes is Pascal's triangle.
THEOREM CombinationsAreExact == \A n \in Nat : Exact(n) /\ Pascal(n) /\ Falling[<<n, 0, TRUE>>] = 1
<1> DEFINE A == {n \in Nat : Exact(n)}
<1>1. 0 \in A
  <2>1. ASSUME NEW k \in Nat PROVE Falling[<<0, k + 1, TRUE>>] * (k + 1) = Falling[<<0, k, TRUE>>] * (0 - k)
    <3>1. Falling[<<0, k + 1, TRUE>>] = 0 BY NoneOfNothing
    <3>2. CASE k = 0
      <4>1. Falling[<<0, 0, TRUE>>] = 1 BY FallingSteps, 0 \in Int, 0 \in Nat
      <4> QED BY <3>1, <3>2, <4>1
    <3>3. CASE k # 0
      <4> DEFINE j == k - 1
      <4>1. j \in Nat /\ j + 1 = k BY <3>3
      <4> HIDE DEF j
      <4>2. Falling[<<0, j + 1, TRUE>>] = 0 BY <4>1, NoneOfNothing
      <4>3. Falling[<<0, k, TRUE>>] = 0 BY <4>1, <4>2
      <4>4. 0 * (k + 1) = 0 * (0 - k) OBVIOUS
      <4> QED BY <3>1, <4>3, <4>4
    <3> QED BY <3>2, <3>3
  <2> QED BY <2>1 DEF Exact
<1>2. ASSUME NEW n \in A PROVE n + 1 \in A
  <2>1. n \in Nat /\ Exact(n) OBVIOUS
  <2>2. Exact(n + 1) BY <2>1, NextRow
  <2> QED BY <2>1, <2>2
<1>3. A \in SUBSET Nat OBVIOUS
<1> HIDE DEF A
<1>4. A = Nat BY <1>1, <1>2, <1>3, AllNaturals
<1>5. ASSUME NEW n \in Nat PROVE Exact(n) /\ Pascal(n) /\ Falling[<<n, 0, TRUE>>] = 1
  <2>1. Exact(n) BY <1>4 DEF A
  <2>2. n \in Int /\ 0 \in Nat OBVIOUS
  <2> QED BY <2>1, <2>2, NextRow, FallingSteps
<1> QED BY <1>5

\* A row ends with one combination, and has none after it.
LEMMA RowEnds ==
    ASSUME NEW n \in Nat
    PROVE  /\ Falling[<<n, n, TRUE>>] = 1
           /\ \A k \in Nat : k > n => Falling[<<n, k, TRUE>>] = 0
<1> DEFINE B == {m \in Nat : Falling[<<m, m, TRUE>>] = 1 /\ \A k \in Nat : k > m => Falling[<<m, k, TRUE>>] = 0}
<1>1. 0 \in B
  <2>1. Falling[<<0, 0, TRUE>>] = 1 BY FallingSteps, 0 \in Int, 0 \in Nat
  <2>2. ASSUME NEW k \in Nat, k > 0 PROVE Falling[<<0, k, TRUE>>] = 0
    <3> DEFINE j == k - 1
    <3>1. j \in Nat /\ j + 1 = k BY <2>2
    <3> HIDE DEF j
    <3>2. Falling[<<0, j + 1, TRUE>>] = 0 BY <3>1, NoneOfNothing
    <3> QED BY <3>1, <3>2
  <2> QED BY <2>1, <2>2
<1>2. ASSUME NEW m \in B PROVE m + 1 \in B
  <2>1. m \in Nat /\ Falling[<<m, m, TRUE>>] = 1 /\ \A k \in Nat : k > m => Falling[<<m, k, TRUE>>] = 0 OBVIOUS
  <2>2. \A k \in Nat : Falling[<<m + 1, k + 1, TRUE>>] = Falling[<<m, k, TRUE>>] + Falling[<<m, k + 1, TRUE>>]
    BY <2>1, CombinationsAreExact DEF Pascal
  <2>3. Falling[<<m, m + 1, TRUE>>] = 0
    <3>1. m + 1 \in Nat /\ m + 1 > m BY <2>1
    <3> QED BY <2>1, <3>1
  <2>4. Falling[<<m + 1, m + 1, TRUE>>] = 1
    <3>1. Falling[<<m + 1, m + 1, TRUE>>] = Falling[<<m, m, TRUE>>] + Falling[<<m, m + 1, TRUE>>] BY <2>1, <2>2
    <3>2. 1 + 0 = 1 OBVIOUS
    <3> QED BY <2>1, <2>3, <3>1, <3>2
  <2>5. ASSUME NEW k \in Nat, k > m + 1 PROVE Falling[<<m + 1, k, TRUE>>] = 0
    <3> DEFINE j == k - 1
    <3>1. j \in Nat /\ j + 1 = k /\ j > m BY <2>1, <2>5
    <3> HIDE DEF j
    <3>2. j + 1 \in Nat /\ j + 1 > m BY <2>1, <3>1
    <3>3. Falling[<<m, j, TRUE>>] = 0 /\ Falling[<<m, j + 1, TRUE>>] = 0 BY <2>1, <3>1, <3>2
    <3>4. Falling[<<m + 1, j + 1, TRUE>>] = 0
      <4>1. Falling[<<m + 1, j + 1, TRUE>>] = Falling[<<m, j, TRUE>>] + Falling[<<m, j + 1, TRUE>>] BY <2>2, <3>1
      <4>2. 0 + 0 = 0 OBVIOUS
      <4> QED BY <3>3, <4>1, <4>2
    <3> QED BY <3>1, <3>4
  <2>6. m + 1 \in Nat BY <2>1
  <2> QED BY <2>4, <2>5, <2>6
<1>3. B \in SUBSET Nat OBVIOUS
<1> HIDE DEF B
<1>4. B = Nat BY <1>1, <1>2, <1>3, AllNaturals
<1> QED BY <1>4 DEF B

Selections(n, k) == Falling[<<n, k, TRUE>>]

\* A row reads the same from its end.
LEMMA MirroredRow ==
    ASSUME NEW n \in Nat, \A k \in Nat : k <= n => Selections(n, k) = Selections(n, n - k),
           NEW k \in Nat, k <= n + 1
    PROVE  Selections(n + 1, k) = Selections(n + 1, (n + 1) - k)
<1>1. \A j \in Nat : Selections(n + 1, j + 1) = Selections(n, j) + Selections(n, j + 1)
  BY CombinationsAreExact DEF Pascal, Selections
<1>2. Selections(n + 1, 0) = 1 /\ Selections(n + 1, n + 1) = 1
  <2>1. n + 1 \in Nat OBVIOUS
  <2> QED BY <2>1, CombinationsAreExact, RowEnds DEF Selections
<1>3. \A j \in Nat : Selections(n, j) \in Int
  <2>1. n \in Int OBVIOUS
  <2> QED BY <2>1, FallingSteps DEF Selections
<1>4. CASE k = 0
  <2>1. (n + 1) - k = n + 1 BY <1>4
  <2> QED BY <1>2, <1>4, <2>1
<1>5. CASE k = n + 1
  <2>1. (n + 1) - k = 0 BY <1>5
  <2> QED BY <1>2, <1>5, <2>1
<1>6. CASE k # 0 /\ k # n + 1
  <2> DEFINE j == k - 1  l == n - k
  <2>1. j \in Nat /\ l \in Nat /\ j + 1 = k /\ l + 1 = (n + 1) - k /\ j <= n /\ k <= n /\ n - j = l + 1 /\ n - k = l
    BY <1>6
  <2> HIDE DEF j, l
  <2>2. Selections(n, j) = Selections(n, l + 1)
    <3>1. Selections(n, j) = Selections(n, n - j) BY <2>1
    <3> QED BY <2>1, <3>1
  <2>3. Selections(n, k) = Selections(n, l)
    <3>1. Selections(n, k) = Selections(n, n - k) BY <2>1
    <3> QED BY <2>1, <3>1
  <2>4. Selections(n + 1, k) = Selections(n, j) + Selections(n, k)
    <3>1. Selections(n + 1, j + 1) = Selections(n, j) + Selections(n, j + 1) BY <1>1, <2>1
    <3> QED BY <2>1, <3>1
  <2>5. Selections(n + 1, (n + 1) - k) = Selections(n, l) + Selections(n, l + 1)
    <3>1. Selections(n + 1, l + 1) = Selections(n, l) + Selections(n, l + 1) BY <1>1, <2>1
    <3> QED BY <2>1, <3>1
  <2>6. Selections(n, l) \in Int /\ Selections(n, l + 1) \in Int
    <3>1. l + 1 \in Nat BY <2>1
    <3> QED BY <1>3, <2>1, <3>1
  <2> QED BY <2>2, <2>3, <2>4, <2>5, <2>6
<1> QED BY <1>4, <1>5, <1>6

\* comb's shortcuts answer what its loop would: for k = n and for k > n, and
\* with n - k factors in the place of k.
THEOREM ShortcutsOfComb ==
    \A n \in Nat, k \in Nat :
        /\ k = n => Falling[<<n, k, TRUE>>] = 1
        /\ k > n => Falling[<<n, k, TRUE>>] = 0
        /\ k <= n => Falling[<<n, k, TRUE>>] = Falling[<<n, n - k, TRUE>>]
<1> DEFINE Mirrored(n) == \A k \in Nat : k <= n => Selections(n, k) = Selections(n, n - k)
           A == {n \in Nat : Mirrored(n)}
<1>1. 0 \in A
  <2>1. ASSUME NEW k \in Nat, k <= 0 PROVE Selections(0, k) = Selections(0, 0 - k)
    <3>1. k = 0 /\ 0 - k = 0 BY <2>1
    <3> QED BY <3>1
  <2> QED BY <2>1
<1>2. ASSUME NEW n \in A PROVE n + 1 \in A
  <2>1. n \in Nat /\ Mirrored(n) OBVIOUS
  <2>2. ASSUME NEW k \in Nat, k <= n + 1 PROVE Selections(n + 1, k) = Selections(n + 1, (n + 1) - k)
    BY <2>1, <2>2, MirroredRow
  <2>3. Mirrored(n + 1) BY <2>2
  <2>4. n + 1 \in Nat BY <2>1
  <2> QED BY <2>3, <2>4
<1>3. A \in SUBSET Nat OBVIOUS
<1>4. A = Nat
  <2> HIDE DEF A
  <2> QED BY <1>1, <1>2, <1>3, AllNaturals
<1>5. ASSUME NEW n \in Nat, NEW k \in Nat, k <= n PROVE Selections(n, k) = Selections(n, n - k)
  <2>1. Mirrored(n) BY <1>4
  <2> QED BY <1>5, <2>1
<1>6. ASSUME NEW n \in Nat, NEW k \in Nat
      PROVE  /\ k = n => Falling[<<n, k, TRUE>>] = 1
             /\ k > n => Falling[<<n, k, TRUE>>] = 0
             /\ k <= n => Falling[<<n, k, TRUE>>] = Falling[<<n, n - k, TRUE>>]
  <2>1. ASSUME k = n PROVE Falling[<<n, k, TRUE>>] = 1 BY <2>1, RowEnds
  <2>2. ASSUME k > n PROVE Falling[<<n, k, TRUE>>] = 0 BY <2>2, RowEnds
  <2>3. ASSUME k <= n PROVE Selections(n, k) = Selections(n, n - k) BY <1>5, <2>3
  <2> QED BY <2>1, <2>2, <2>3 DEF Selections
<1> QED BY <1>6

\* One more of both: the product starts with n + 1.
LEMMA OneFactorMore ==
    ASSUME NEW n \in Nat, NEW k \in Nat
    PROVE  Falling[<<n + 1, k + 1, FALSE>>] = (n + 1) * Falling[<<n, k, FALSE>>]
<1> DEFINE P == [j \in Nat |-> Falling[<<n, j, FALSE>>]]
           Q == [j \in Nat |-> Falling[<<n + 1, j, FALSE>>]]
           A == {j \in Nat : Q[j + 1] = (n + 1) * P[j]}
<1>1. n \in Int /\ n + 1 \in Int /\ 0 \in Nat /\ \A j \in Nat : j + 1 \in Nat OBVIOUS
<1>2. P[0] = 1 /\ Q[0] = 1 BY <1>1, FallingSteps
<1>3. \A j \in Nat : P[j] \in Int /\ P[j + 1] = P[j] * (n - j) BY <1>1, FallingSteps
<1>4. \A j \in Nat : Q[j] \in Int /\ Q[j + 1] = Q[j] * ((n + 1) - j) BY <1>1, FallingSteps
<1>5. Q[k + 1] = Falling[<<n + 1, k + 1, FALSE>>] /\ P[k] = Falling[<<n, k, FALSE>>] BY <1>1
<1> HIDE DEF P, Q
<1>6. 0 \in A
  <2>1. Q[0 + 1] = Q[0] * ((n + 1) - 0) BY <1>1, <1>4
  <2> QED BY <1>2, <2>1
<1>7. ASSUME NEW j \in A PROVE j + 1 \in A
  <2> DEFINE p == P[j]  m == j + 1
  <2>1. j \in Nat /\ m \in Nat /\ p \in Int /\ P[m] = p * (n - j) /\ Q[m] = (n + 1) * p BY <1>1, <1>3
  <2>2. Q[m + 1] = Q[m] * ((n + 1) - m) /\ (n + 1) - m = n - j BY <1>4, <2>1
  <2> HIDE DEF p
  <2>3. ((n + 1) * p) * (n - j) = (n + 1) * (p * (n - j)) BY <2>1
  <2>4. Q[m + 1] = (n + 1) * P[m] BY <2>1, <2>2, <2>3
  <2> QED BY <2>1, <2>4
<1>8. A \in SUBSET Nat OBVIOUS
<1> HIDE DEF A
<1>9. A = Nat BY <1>6, <1>7, <1>8, AllNaturals
<1> QED BY <1>5, <1>9 DEF A

\* A choice in order is a choice and an order: perm is comb times k!, which is
\* perm of k out of k.
THEOREM PermutationsCombine ==
    \A n \in Nat, k \in Nat : Falling[<<n, k, FALSE>>] = Falling[<<n, k, TRUE>>] * Falling[<<k, k, FALSE>>]
<1> SUFFICES ASSUME NEW n \in Nat
             PROVE  \A k \in Nat : Falling[<<n, k, FALSE>>] = Falling[<<n, k, TRUE>>] * Falling[<<k, k, FALSE>>]
  OBVIOUS
<1> DEFINE P == [j \in Nat |-> Falling[<<n, j, FALSE>>]]
           C == [j \in Nat |-> Falling[<<n, j, TRUE>>]]
           F == [j \in Nat |-> Falling[<<j, j, FALSE>>]]
           A == {j \in Nat : P[j] = C[j] * F[j]}
<1>1. n \in Int /\ 0 \in Int /\ 0 \in Nat /\ \A j \in Nat : j \in Int /\ j + 1 \in Nat OBVIOUS
<1>2. P[0] = 1 /\ C[0] = 1 /\ F[0] = 1 BY <1>1, FallingSteps
<1>3. \A j \in Nat : P[j] \in Int /\ C[j] \in Int /\ P[j + 1] = P[j] * (n - j) BY <1>1, FallingSteps
<1>4. \A j \in Nat : F[j] \in Int BY <1>1, FallingSteps
<1>5. \A j \in Nat : F[j + 1] = (j + 1) * F[j] BY <1>1, OneFactorMore
<1>6. \A j \in Nat : C[j + 1] * (j + 1) = C[j] * (n - j) BY <1>1, CombinationsAreExact DEF Exact
<1>7. \A j \in Nat : P[j] = Falling[<<n, j, FALSE>>] /\ C[j] = Falling[<<n, j, TRUE>>] /\ F[j] = Falling[<<j, j, FALSE>>] OBVIOUS
<1> HIDE DEF P, C, F
<1>8. 0 \in A BY <1>2
<1>9. ASSUME NEW j \in A PROVE j + 1 \in A
  <2> DEFINE c == C[j]  f == F[j]  m == j + 1  d == C[m]
  <2>1. j \in Nat /\ m \in Nat /\ P[j] = c * f OBVIOUS
  <2>2. c \in Int /\ f \in Int /\ d \in Int BY <1>3, <1>4, <2>1
  <2>3. P[m] = P[j] * (n - j) /\ F[m] = m * f /\ d * m = c * (n - j) BY <1>3, <1>5, <1>6, <2>1
  <2> HIDE DEF c, f, d
  <2>4. P[m] = (c * f) * (n - j) BY <2>1, <2>3
  <2>5. (c * f) * (n - j) = (c * (n - j)) * f BY <2>1, <2>2
  <2>6. (d * m) * f = d * (m * f) BY <2>1, <2>2
  <2>7. P[m] = d * F[m] BY <2>3, <2>4, <2>5, <2>6
  <2> QED BY <2>1, <2>7 DEF d
<1>10. A \in SUBSET Nat OBVIOUS
<1> HIDE DEF A
<1>11. A = Nat BY <1>8, <1>9, <1>10, AllNaturals
<1> QED BY <1>7, <1>11 DEF A

-----------------------------------------------------------------------------
(* Outcomes.                                                               *)

\* Of a sequence of outcomes, either all their values or the first failure.
THEOREM FirstFailure ==
    ASSUME NEW S, NEW outcomes \in Seq([ok : BOOLEAN, is : S])
    PROVE  \/ /\ \A i \in DOMAIN outcomes : outcomes[i].ok
              /\ Collected(outcomes) = Ok([i \in DOMAIN outcomes |-> outcomes[i].is])
           \/ \E i \in DOMAIN outcomes :
                 /\ ~outcomes[i].ok /\ Collected(outcomes) = outcomes[i]
                 /\ \A j \in 1 .. i - 1 : outcomes[j].ok
<1> DEFINE bad == {i \in DOMAIN outcomes : ~outcomes[i].ok}
<1>1. DOMAIN outcomes = 1 .. Len(outcomes) /\ Len(outcomes) \in Nat OBVIOUS
<1>2. CASE bad = {} BY <1>2 DEF Collected
<1>3. CASE bad # {}
  <2> DEFINE i == CHOOSE i \in bad : \A j \in bad : i <= j
  <2>1. bad \in SUBSET Nat BY <1>1
  <2>2. \E m \in bad : \A j \in bad : m <= j BY <1>3, <2>1, LeastOf
  <2>3. i \in bad /\ \A j \in bad : i <= j BY <2>2
  <2>4. Collected(outcomes) = outcomes[i] BY <1>3 DEF Collected
  <2> HIDE DEF i
  <2>5. ASSUME NEW j \in 1 .. i - 1 PROVE outcomes[j].ok
    <3>1. i \in 1 .. Len(outcomes) /\ j \in DOMAIN outcomes /\ ~(i <= j) BY <1>1, <2>3
    <3>2. j \notin bad BY <2>3, <3>1
    <3> QED BY <3>1, <3>2
  <2> QED BY <2>3, <2>4, <2>5
<1> QED BY <1>2, <1>3

=============================================================================
