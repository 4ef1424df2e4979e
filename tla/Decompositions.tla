--------------------------- MODULE Decompositions ----------------------------
(***************************************************************************)
(* math/numerical.rs and what the matrix domain makes of it: LU, QR,       *)
(* eigenvalues, singular values, linear systems, least squares and the     *)
(* matrix exponential.                                                     *)
(*                                                                         *)
(* nalgebra's decompositions are exact here.  An eigenvector stands for    *)
(* its direction, a singular value and the entries of Q and R for their    *)
(* signed squares; eigenvalues are asked for where they are rational.      *)
(***************************************************************************)
EXTENDS Statistics, ScalarDomains

Places(s)   == [i \in DOMAIN s |-> i]
Swapped(s, i, j) == [s EXCEPT ![i] = s[j], ![j] = s[i]]
Multiply(a, b) == WrittenOut([i \in DOMAIN a |-> [j \in DOMAIN b[1] |-> SumProduct(a[i], Column(b, j))]])
MatrixVector(m, v) == WrittenOut([i \in DOMAIN m |-> SumProduct(m[i], v)])
PlusTimes(a, q, b) == WrittenOut([i \in DOMAIN a |-> [j \in DOMAIN a[1] |-> Plus(a[i][j], Times(q, b[i][j]))]])
MinusScalar(m, q)  == [i \in DOMAIN m |-> [j \in DOMAIN m |-> IF i = j THEN Minus(m[i][j], q) ELSE m[i][j]]]
IdentityRows(n) == [i \in 1 .. n |-> [j \in 1 .. n |-> Whole(IF i = j THEN 1 ELSE 0)]]
Nought(v)      == \A i \in DOMAIN v : v[i] = Zero

RequireFinite(values) == \A i \in DOMAIN values : IsFinite(values[i])
FiniteMatrix(m)       == \A i \in DOMAIN m : RequireFinite(m[i])
IsSymmetric(m)        == Square(m) /\ \A i, j \in DOMAIN m : m[i][j] = m[j][i]
\* the guards in front of lu, eig, eig_general and matrix_exp
SquareOnly(m, result) == IF ~FiniteMatrix(m) THEN NanOrInf ELSE IF ~Square(m) THEN BadArguments ELSE result
-----------------------------------------------------------------------------
\* Partial pivoting: L below the diagonal, U on and above it, rows in order.
PivotRow(m, k) ==
    CHOOSE p \in k .. Len(m) : \A r \in k .. Len(m) :
        LET size(i) == AbsOf(m[i][k]) IN Below(size(r), size(p)) \/ (size(r) = size(p) /\ p <= r)
Cleared(m, k) ==
    WrittenOut([i \in DOMAIN m |-> [j \in DOMAIN m |->
        IF i <= k \/ j < k THEN m[i][j]
        ELSE LET factor == Over(m[i][k], m[k][k]) IN IF j = k THEN factor ELSE Minus(m[i][j], Times(factor, m[k][j]))]])
LuStep(d, k) ==
    LET p == PivotRow(d.packed, k)
    IN  IF d.packed[p][k] = Zero THEN d
        ELSE [packed |-> Cleared(Swapped(d.packed, k, p), k), order |-> Swapped(d.order, k, p)]
Packed(m) == FoldLeft(LuStep, [packed |-> m, order |-> Places(m)], Places(m))

Triangle(d, Inside(_, _), Diagonal(_)) ==
    [i \in DOMAIN d.order |-> [j \in DOMAIN d.order |-> IF i = j THEN Diagonal(i) ELSE IF Inside(i, j) THEN d.packed[i][j] ELSE Zero]]
LuParts(d) ==
    [L |-> Triangle(d, LAMBDA i, j : j < i, LAMBDA i : Whole(1)),
     U |-> Triangle(d, LAMBDA i, j : i < j, LAMBDA i : d.packed[i][i]),
     P |-> [i \in DOMAIN d.order |-> IdentityRows(Len(d.order))[d.order[i]]]]
Lu(m) == SquareOnly(m, Ok(LuParts(Packed(m))))

\* LU::solve: permute, forwards, backwards; none when U has a zero on its diagonal
LuSolve(d, b) ==
    LET n == Len(b)
        forwards(x, i)  == [x EXCEPT ![i] = Minus(x[i], SumOf([j \in 1 .. i - 1 |-> Times(d.packed[i][j], x[j])]))]
        backwards(x, i) == [x EXCEPT ![i] = Over(Minus(x[i], SumOf([k \in 1 .. n - i |-> Times(d.packed[i][i + k], x[i + k])])), d.packed[i][i])]
    IN  IF \E i \in 1 .. n : d.packed[i][i] = Zero THEN BadArguments
        ELSE Ok(FoldLeft(backwards, FoldLeft(forwards, [i \in 1 .. n |-> b[d.order[i]]], Places(b)), Reverse(Places(b))))
Solve(m, b) ==
    CASE ~FiniteMatrix(m) \/ ~RequireFinite(b) -> NanOrInf
      [] FiniteMatrix(m) /\ RequireFinite(b) /\ (~Square(m) \/ Len(b) # Len(m)) -> BadArguments
      [] OTHER -> LuSolve(Packed(m), b)
-----------------------------------------------------------------------------
\* Gram-Schmidt without norms: each vector less its shadows on those before.
Residue(kept, v) ==
    FoldLeft(LAMBDA r, q : IF Nought(q) THEN r ELSE WrittenOut(Difference(r, ScalarMulVec(q, Over(SumProduct(q, r), MagnitudeSquared(q))))), v, kept)
Orthogonal(vectors) == FoldLeft(LAMBDA kept, v : Append(kept, Residue(kept, v)), <<>>, vectors)

\* The thin QR of a matrix whose leading columns are independent, R's
\* diagonal positive: directions of Q and, for R, shadows on them.
ShadowOn(q, v) == IF Nought(q) THEN Zero ELSE Over(SumProduct(q, v), MagnitudeSquared(q))
QrOf(m, directions) ==
    [directions |-> directions,
     shadow |-> WrittenOut([i \in DOMAIN directions |-> [j \in DOMAIN m[1] |-> IF j < i THEN Zero ELSE ShadowOn(directions[i], Column(m, j))]])]
ThinQr(m) == QrOf(m, Orthogonal([j \in 1 .. Min({Len(m), Len(m[1])}) |-> Column(m, j)]))
QrParts(m, d) ==
    LET length(i) == MagnitudeSquared(d.directions[i])
    IN  [Q |-> [i \in DOMAIN m |-> [j \in DOMAIN d.directions |-> Over(SignedSquare(d.directions[j][i]), length(j))]],
         R |-> [i \in DOMAIN d.directions |-> [j \in DOMAIN m[1] |-> Times(SignedSquare(d.shadow[i][j]), length(i))]]]
Qr(m) == IF FiniteMatrix(m) THEN Ok(QrParts(m, ThinQr(m))) ELSE NanOrInf

\* The pseudo-inverse applied to b, from A = B C with B the independent columns.
ShortestOf(weights, least) == MatrixVector(Transpose(weights), MatrixVector(TryInverse(Multiply(weights, Transpose(weights))).is, least))
ThroughBasis(a, b, basis, gram) ==
    ShortestOf(Multiply(Multiply(gram, Transpose(basis)), a), MatrixVector(gram, MatrixVector(Transpose(basis), b)))
MinimumNorm(a, b, residues) ==
    LET chosen == SelectSeq(Places(residues), LAMBDA j : ~Nought(residues[j]))
        basis  == WrittenOut([i \in DOMAIN a |-> [j \in DOMAIN chosen |-> a[i][chosen[j]]]])
    IN  IF chosen = <<>> THEN Ok([j \in DOMAIN a[1] |-> Zero])
        ELSE IF ~RequireFinite(b) THEN NanOrInf
        ELSE Ok(ThroughBasis(a, b, basis, TryInverse(Multiply(Transpose(basis), basis)).is))
BackSubstituted(d, b) ==
    LET n == Len(d.directions)
        onto(i) == Over(SumProduct(d.directions[i], b), MagnitudeSquared(d.directions[i]))
        step(x, i) == [x EXCEPT ![i] = Minus(onto(i), SumOf([k \in 1 .. n - i |-> Times(d.shadow[i][i + k], x[i + k])]))]
    IN  FoldLeft(step, [i \in 1 .. n |-> Zero], Reverse(Places(d.directions)))
LstsqBy(a, b, d) ==
    IF Len(a) < Len(a[1]) \/ \E i \in DOMAIN d.directions : Nought(d.directions[i])
    THEN MinimumNorm(a, b, Orthogonal([j \in DOMAIN a[1] |-> Column(a, j)]))
    ELSE IF ~RequireFinite(b) THEN NanOrInf ELSE Ok(BackSubstituted(d, b))
Lstsq(a, b) ==
    CASE Len(a) # Len(b) \/ a = <<>> -> BadArguments
      [] Len(a) = Len(b) /\ a # <<>> /\ ~FiniteMatrix(a) -> NanOrInf
      [] OTHER -> LstsqBy(a, b, ThinQr(a))
-----------------------------------------------------------------------------
\* nalgebra's symmetric eigenvalues, in no order the code relies on: here
\* descending.  The columns of the product of A - mu over the other
\* eigenvalues mu are in the eigenspace of the one left out.
Spectrum(m) ==
    LET reach == Max({SumOf([j \in DOMAIN m |-> AbsOf(m[i][j])])[1] : i \in DOMAIN m})
    IN  {q \in -reach .. reach : Determinant(MinusScalar(m, Whole(q))) = Zero}
Eigenspace(m, q) ==
    LET product == FoldLeft(LAMBDA p, other : Multiply(p, MinusScalar(m, Whole(other))), IdentityRows(Len(m)), SetToSeq(Spectrum(m) \ {q}))
    IN  SelectSeq(Orthogonal([j \in DOMAIN m |-> Column(product, j)]), LAMBDA v : ~Nought(v))
SymmetricEigen(m) ==
    LET with(q, vectors) == [i \in DOMAIN vectors |-> [value |-> Whole(q), vector |-> vectors[i]]]
    IN  FoldLeft(LAMBDA pairs, q : pairs \o with(q, Eigenspace(m, q)), <<>>, SetToSortSeq(Spectrum(m), LAMBDA p, q : q < p))

ByValue(pairs) == SortSeq(pairs, LAMBDA p, q : Below(p.value, q.value))
Eig(m) == SquareOnly(m, IF IsSymmetric(m) THEN Ok(ByValue(SymmetricEigen(m))) ELSE BadArguments)

\* the squares of the singular values, descending
ValuesOf(pairs) == [i \in DOMAIN pairs |-> pairs[i].value]
Svd(m) ==
    IF FiniteMatrix(m)
    THEN Ok(ValuesOf(SymmetricEigen(IF Len(m) < Len(m[1]) THEN Multiply(m, Transpose(m)) ELSE Multiply(Transpose(m), m))))
    ELSE NanOrInf
-----------------------------------------------------------------------------
\* eig_general: pairs <<re, im>>.  A block triangular matrix is its own Schur
\* form; no other one that is not symmetric is asked for.
AsComplex(q) == <<q, Zero>>
SquareRoot(q) == Ratio(CHOOSE k \in 0 .. 200 : k * k = q[1] * q[2], q[2])
RootsAround(half, disc, root) ==
    IF Below(disc, Zero) THEN <<<<half, root>>, <<half, Minus(Zero, root)>>>>
    ELSE <<AsComplex(Plus(half, root)), AsComplex(Minus(half, root))>>
QuadraticPair(trace, disc) == RootsAround(Over(trace, Whole(2)), disc, Over(SquareRoot(AbsOf(disc)), Whole(2)))
BlockValues(a, b, c, d) ==
    QuadraticPair(Plus(a, d), Minus(SquareOf(Plus(a, d)), Times(Whole(4), Minus(Times(a, d), Times(b, c)))))
RECURSIVE SchurBlockEigenvalues(_, _)
SchurBlockEigenvalues(t, i) ==
    IF i > Len(t) THEN <<>>
    ELSE IF i < Len(t) /\ t[i + 1][i] # Zero
    THEN BlockValues(t[i][i], t[i][i + 1], t[i + 1][i], t[i + 1][i + 1]) \o SchurBlockEigenvalues(t, i + 2)
    ELSE <<AsComplex(t[i][i])>> \o SchurBlockEigenvalues(t, i + 1)

ComplexCleared(a, k, col) ==
    WrittenOut([r \in DOMAIN a |-> [c \in DOMAIN a |->
        IF r <= k \/ c < col THEN a[r][c] ELSE PairSum(a[r][c], Opposite(ComplexProduct(Quotient2(a[r][col], a[k][col]), a[k][c])))]])
PivotIn(rows, col, from) ==
    CHOOSE p \in from .. Len(rows) : \A r \in from .. Len(rows) :
        LET size(i) == NormSquared(rows[i][col]) IN Below(size(r), size(p)) \/ (size(r) = size(p) /\ p <= r)
EliminateFrom(d, col, row, pivot) ==
    IF d.rows[pivot][col] = Origin THEN d
    ELSE [rows |-> ComplexCleared(Swapped(d.rows, row, pivot), row, col), columns |-> Append(d.columns, col)]
EliminateColumn(d, col) ==
    LET row == Len(d.columns) + 1 IN IF row > Len(d.rows) THEN d ELSE EliminateFrom(d, col, row, PivotIn(d.rows, col, row))
\* the free variable is one, the pivots' follow from below
FilledIn(d, start) ==
    LET sum(row, col, y) == FoldLeft(PairSum, Origin, [j \in DOMAIN y |-> IF j > col THEN ComplexProduct(d.rows[row][j], y[j]) ELSE Origin])
        fill(y, row) == [y EXCEPT ![d.columns[row]] = Opposite(Quotient2(sum(row, d.columns[row], y), d.rows[row][d.columns[row]]))]
    IN  FoldLeft(fill, start, Reverse(Places(d.columns)))
NullVectorOf(d, free) ==
    IF free = <<>> THEN [i \in DOMAIN d.rows |-> Origin]
    ELSE FilledIn(d, [i \in DOMAIN d.rows |-> IF i = free[1] THEN AsComplex(Whole(1)) ELSE Origin])
FreeVector(d) == NullVectorOf(d, SelectSeq(Places(d.rows), LAMBDA c : c \notin ToSet(d.columns)))
NullVectorComplex(m) == FreeVector(FoldLeft(EliminateColumn, [rows |-> m, columns |-> <<>>], Places(m)))
ByParts(p, q) == Below(p.value[1], q.value[1]) \/ (p.value[1] = q.value[1] /\ Below(p.value[2], q.value[2]))
ShiftedBack(m, q) == [i \in DOMAIN m |-> [j \in DOMAIN m |-> IF i = j THEN PairSum(AsComplex(m[i][i]), Opposite(q)) ELSE AsComplex(m[i][j])]]
SchurPairs(m, values) == SortSeq([i \in DOMAIN values |-> [value |-> values[i], vector |-> NullVectorComplex(ShiftedBack(m, values[i]))]], ByParts)
WithoutImaginary(pairs) == [i \in DOMAIN pairs |-> [value |-> AsComplex(pairs[i].value), vector |-> [k \in DOMAIN pairs |-> AsComplex(pairs[i].vector[k])]]]
EigGeneral(m) ==
    SquareOnly(m, IF IsSymmetric(m) THEN AndThen(Eig(m), LAMBDA pairs : Ok(WithoutImaginary(pairs)))
                  ELSE Ok(SchurPairs(m, SchurBlockEigenvalues(m, 1))))
-----------------------------------------------------------------------------
\* 1i64 << s, the amount wrapping as in a release build
RECURSIVE Doubled(_, _)
Doubled(i, s) == IF s = 0 THEN i ELSE Doubled(IF i = -Wide THEN 0 ELSE IF 2 * i = Wide THEN -Wide ELSE 2 * i, s - 1)
ShiftedOne(s) == LET bits == CHOOSE b \in 1 .. 32 : 2 ^ (b - 1) = Wide IN Doubled(1, s % bits)
ScaleFor(norm2) ==
    CHOOSE s \in 0 .. 15 : ~Below(Whole(4 ^ s), Times(Whole(4), norm2)) /\ (s > 0 => Below(Whole(4 ^ (s - 1)), Times(Whole(4), norm2)))
PadeScale(m) == ScaleFor(SumOf([i \in DOMAIN m |-> MagnitudeSquared(m[i])]))
PadeCoefficients == <<<<1, 1>>, <<1, 2>>, <<1, 9>>, <<1, 72>>, <<1, 1008>>, <<1, 30240>>, <<1, 1209600>>>>
\* The powers 0, 1, 2, 4, 6, 7 and 8 with coefficients meant for 0 to 5.
PadeSum(powers, signs) ==
    FoldLeft(LAMBDA sum, i : PlusTimes(sum, Times(Whole(signs[i]), PadeCoefficients[i]), powers[i]), PlusTimes(powers[1], Whole(-1), powers[1]), Places(powers))
SolveColumns(m, b) ==
    AndThen(Collected([j \in DOMAIN b[1] |-> LuSolve(Packed(m), Column(b, j))]), LAMBDA columns : Ok(Transpose(columns)))
PadeQuotient(powers) ==
    SolveColumns(PadeSum(powers, <<1, -1, 1, -1, 1, -1, 1>>), PadeSum(powers, <<1, 1, 1, 1, 1, 1, 1>>))
Powers8(a, a2, a6) == LET a4 == Multiply(a2, a2) IN <<IdentityRows(Len(a)), a, a2, a4, a6, Multiply(a6, a), Multiply(a6, a2)>>
PowersFrom(a, a2)  == Powers8(a, a2, Multiply(Multiply(a2, a2), a2))
ScaledBack(m, q)   == WrittenOut([i \in DOMAIN m |-> [j \in DOMAIN m |-> Over(m[i][j], q)]])
PadeScaled(a, s)   ==
    AndThen(PadeQuotient(PowersFrom(a, Multiply(a, a))), LAMBDA x : Ok(FoldLeft(LAMBDA y, i : Multiply(y, y), x, [i \in 1 .. s |-> i])))
PadeExp(m) == LET s == PadeScale(m) IN PadeScaled(ScaledBack(m, Whole(ShiftedOne(s))), s)
\* V diag(exp(values)) V^T, with the directions' lengths divided out; an
\* exponential beyond f64 is not looked for
Spectral(pairs, n) ==
    LET part(p, i, j) == FloatProduct(Over(Times(p.vector[i], p.vector[j]), MagnitudeSquared(p.vector)), Exponential(p.value))
        entry(i, j) == FoldLeft(LAMBDA sum, p : FloatSum(sum, part(p, i, j)), Zero, pairs)
    IN  WrittenOut([i \in 1 .. n |-> [j \in 1 .. n |-> entry(i, j)]])
MatrixExp(m) ==
    SquareOnly(m, IF IsSymmetric(m) THEN AndThen(Eig(m), LAMBDA pairs : Ok(Spectral(pairs, Len(m)))) ELSE PadeExp(m))

Numerical(name, args) ==
    CASE name = "lu" -> Lu(args[1]) [] name = "qr" -> Qr(args[1]) [] name = "svd" -> Svd(args[1])
      [] name = "eig" -> Eig(args[1]) [] name = "eig_general" -> EigGeneral(args[1]) [] name = "matrix_exp" -> MatrixExp(args[1])
      [] name = "solve" -> Solve(args[1], args[2]) [] name = "lstsq" -> Lstsq(args[1], args[2])
-----------------------------------------------------------------------------
\* The matrix domain: decompositions are known as the whole expression only.
Factorizations == {"lu", "qr", "eig", "eig_general", "svd"}
Gathered(list, values) == IF list THEN D!Result("list", values) ELSE values[1]
Evaluated(e) == TheOne({Gathered(IsList(e), [i \in DOMAIN parts |-> EvalMatrix(parts[i])]) : parts \in {IF IsList(e) THEN e.kids ELSE <<e>>}})
NumericalMatrixArg(v) == IF Len(v) = 1 /\ v[1].tag = "matrix" THEN Ok(v[1].rows) ELSE BadArguments
\* b is a list of scalars or a matrix of one column
RightSide(b) ==
    CASE b.tag = "list" /\ Len(b.rows) <= MAX_MATRIX_DIM /\ (\A i \in DOMAIN b.rows : b.rows[i].tag = "scalar") ->
            Ok([i \in DOMAIN b.rows |-> b.rows[i].rows[1][1]])
      [] b.tag = "matrix" /\ Len(b.rows[1]) = 1 -> Ok(Column(b.rows, 1))
      [] OTHER -> BadArguments
SolveArgs(v) == IF Len(v) = 2 /\ v[1].tag = "matrix" THEN RightSide(v[2]) ELSE BadArguments
NumericalOn(name, v) ==
    IF name = "solve" THEN Answered(AndThen(SolveArgs(v), LAMBDA b : Solve(v[1].rows, b)), D!Vector)
    ELSE Answered(AndThen(NumericalMatrixArg(v), LAMBDA m : Numerical(name, <<m>>)), Json)
TryNumerical(name, args) == TheOne({NumericalOn(name, v) : v \in {[i \in DOMAIN args |-> Evaluated(args[i])]}})
EvaluateMatrix(e) ==
    IF e.kind = "call" /\ e.head \in Factorizations \cup {"solve"} THEN TryNumerical(e.head, e.kids)
    ELSE IF e.kind = "call" /\ e.head = "precision" THEN D!Error
    ELSE EvalMatrix(e)
-----------------------------------------------------------------------------
(***************************************************************************)
(* What the decompositions are to be.                                      *)
(***************************************************************************)
Diagonal(m) == [i \in DOMAIN m |-> m[i][i]]
Zeros(m)    == \A i \in DOMAIN m : Nought(m[i])
LuRight(m, d) ==
    /\ Multiply(d.P, m) = Multiply(d.L, d.U)
    /\ \A i, j \in DOMAIN m : /\ i <= j => d.L[i][j] = Whole(IF i = j THEN 1 ELSE 0)
                             /\ j < i  => d.U[i][j] = Zero /\ ~Below(Whole(1), AbsOf(d.L[i][j]))
    /\ AbsOf(Determinant(m)) = AbsOf(FoldLeft(Times, Whole(1), Diagonal(d.U)))
\* columns of Q are of length one, R is triangular and has the lengths of the columns
QrRight(m, d) ==
    LET lengths(roots) == [j \in DOMAIN roots[1] |-> SumOf([i \in DOMAIN roots |-> AbsOf(roots[i][j])])]
    IN  /\ \A q \in ToSet(lengths(d.Q)) : q = Whole(1)
        /\ lengths(d.R) = [j \in DOMAIN m[1] |-> MagnitudeSquared(Column(m, j))]
        /\ \A i \in DOMAIN d.R, j \in DOMAIN m[1] : (j < i => d.R[i][j] = Zero) /\ (i = j => Below(Zero, d.R[i][j]))
        /\ Square(m) => SquareOf(Determinant(m)) = FoldLeft(Times, Whole(1), Diagonal(d.R))
SolveRight(m, b, r) ==
    FiniteMatrix(m) /\ RequireFinite(b) /\ Square(m) /\ Len(b) = Len(m) =>
        /\ r.ok = (Determinant(m) # Zero)
        /\ r.ok => MatrixVector(m, r.is) = b /\ r.is = MatrixVector(TryInverse(m).is, b)
\* nothing is left in the columns, and there is no shorter solution
LstsqRight(m, b, x) ==
    RequireFinite(b) =>
    /\ Nought(MatrixVector(Transpose(m), Difference(MatrixVector(m, x), b)))
    /\ Nought(Residue(Orthogonal(m), x))
    /\ Square(m) /\ Determinant(m) # Zero => x = Solve(m, b).is
    /\ Len(m[1]) = 2 /\ Column(m, 1) = Column(m, 2) => x[1] = x[2]
EigRight(m, pairs) ==
    /\ Len(pairs) = Len(m)
    /\ \A i \in DOMAIN pairs : /\ ~Nought(pairs[i].vector)
                              /\ MatrixVector(m, pairs[i].vector) = ScalarMulVec(pairs[i].vector, pairs[i].value)
    /\ \A i, j \in DOMAIN pairs : i < j => /\ ~Below(pairs[j].value, pairs[i].value)
                                          /\ SumProduct(pairs[i].vector, pairs[j].vector) = Zero
    /\ SumOf([i \in DOMAIN pairs |-> pairs[i].value]) = SumOf(Diagonal(m))
EigGeneralRight(m, pairs) ==
    LET times(v) == [i \in DOMAIN m |-> FoldLeft(PairSum, Origin, [j \in DOMAIN m |-> ComplexProduct(AsComplex(m[i][j]), v[j])])]
        values == [i \in DOMAIN pairs |-> pairs[i].value]
    IN  /\ Len(pairs) = Len(m)
        /\ \A i \in DOMAIN pairs : /\ \E k \in DOMAIN m : pairs[i].vector[k] # Origin
                                  /\ times(pairs[i].vector) = [k \in DOMAIN m |-> ComplexProduct(values[i], pairs[i].vector[k])]
                                  /\ Conjugate(values[i]) \in ToSet(values)
        /\ \A i \in 1 .. Len(pairs) - 1 : ~ByParts(pairs[i + 1], pairs[i])
        /\ FoldLeft(PairSum, Origin, values) = AsComplex(SumOf(Diagonal(m)))
        /\ FoldLeft(ComplexProduct, AsComplex(Whole(1)), values) = AsComplex(Determinant(m))
SvdRight(m, squares) ==
    /\ SumOf(squares) = SumOf([i \in DOMAIN m |-> MagnitudeSquared(m[i])])
    /\ \A i \in DOMAIN squares : ~Below(squares[i], Zero) /\ (i > 1 => ~Below(squares[i - 1], squares[i]))
    /\ Square(m) => FoldLeft(Times, Whole(1), squares) = SquareOf(Determinant(m))
\* The exponential of a matrix whose third power is zero, as long as its norm
\* leaves 2^s in an i64; and of a symmetric one it is undone by exp(-A).
MatrixExpRight(m, r) ==
    LET cube == Multiply(m, Multiply(m, m))
        minus == PlusTimes(m, Whole(-2), m)
    IN  /\ Zeros(cube) /\ 2 ^ PadeScale(m) < Wide =>
               r = PlusTimes(PlusTimes(IdentityRows(Len(m)), Whole(1), m), <<1, 2>>, Multiply(m, m))
        /\ IsSymmetric(m) =>
               /\ IsSymmetric(r)
               /\ FiniteMatrix(r) => Multiply(r, MatrixExp(minus).is) = IdentityRows(Len(m))
        /\ MatrixExp(Transpose(m)).is = Transpose(r)
NumericalRight(name, args, r) ==
    LET m == args[1]
    IN  /\ r.ok => CASE name = "lu" -> LuRight(m, r.is) [] name = "qr" -> QrRight(m, r.is) [] name = "svd" -> SvdRight(m, r.is)
                     [] name = "eig" -> EigRight(m, r.is) [] name = "eig_general" -> EigGeneralRight(m, r.is)
                     [] name = "lstsq" -> LstsqRight(m, args[2], r.is) [] name = "matrix_exp" -> MatrixExpRight(m, r.is)
                     [] OTHER -> TRUE
        /\ name = "solve" => SolveRight(m, args[2], r)
        /\ ~r.ok /\ r.is = "nan_or_inf" => args[1] # <<>> /\ ~(FiniteMatrix(m) /\ (Len(args) = 2 => RequireFinite(args[2])))
\* What the domain solves is solved by the matrices of the domain, too.
DecompositionRight(e, r) ==
    e.kind = "call" /\ e.head = "solve" /\ r # D!Error /\ IsList(e.kids[2]) =>
        LET column == Matrix([i \in DOMAIN e.kids[2].kids |-> <<e.kids[2].kids[i]>>])
        IN  /\ EvaluateMatrix(Call("solve", <<e.kids[1], column>>)) = r
            /\ EvalMatrix(BinaryOp("*", Call("inverse", <<e.kids[1]>>), column)).rows = Transpose(r.rows)
=============================================================================
