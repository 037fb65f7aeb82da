----------------------------- MODULE FecMatrix ------------------------------
(***************************************************************************)
(* The matrices of src/rtp/fec/fec_matrix.c: the product, the inverse of a *)
(* Vandermonde matrix, and matrix_inv, which turns a square matrix into    *)
(* its inverse in place, a column a step: Gauss-Jordan elimination with    *)
(* the pivot taken from the diagonal if it can be, from the first row that *)
(* has one if not, and the columns put back in order at the end.           *)
(***************************************************************************)
EXTENDS FecField, Sequences, FiniteSets

CONSTANT Order    \* rows and columns of a matrix: the k of matrix_inv

ASSUME OrderAssumption == Order \in Nat \ {0}

Lines == 0 .. Order - 1
Matrices == [Lines -> [Lines -> Elements]]

VARIABLES matrix,    \* the matrix that becomes its inverse
          used,      \* ipiv: the columns that had their pivot
          swaps,     \* indxr and indxc, one pair for each column done
          mpc,       \* where matrix_inv is, or what it returned
          original   \* history: the matrix it was called with

matrixVars == <<matrix, used, swaps, mpc, original>>

Zero == [n \in Lines |-> 0]
Unit(r) == [Zero EXCEPT ![r] = 1]
Identity == [r \in Lines |-> Unit(r)]

-----------------------------------------------------------------------------
\* One element of matrix_mul: the sum of the products of a row and a column.
Dot(a, b) ==
  LET Acc[n \in 0..Order] ==
        IF n = 0 THEN 0 ELSE GF_ADD(Acc[n - 1], GF_MUL(a[n - 1], b[n - 1]))
  IN  Acc[Order]

\* One row of matrix_mul
RowTimes(coefs, b) == [col \in Lines |-> Dot(coefs, [line \in Lines |-> b[line][col]])]

\* gf_add_mul
AddMul(a, b, c) == [n \in DOMAIN a |-> GF_ADD(a[n], GF_MUL(c, b[n]))]

-----------------------------------------------------------------------------
\* x * P - p * P for the product P of i factors, whose coefficients are the last i
TimesPoint(c, p, i) ==
  [j \in Lines |-> CASE j = Order - 1 -> GF_ADD(c[j], p)
                     [] j < Order - 1 /\ j >= Order - 1 - i -> GF_ADD(c[j], GF_MUL(p, c[j + 1]))
                     [] OTHER -> c[j]]

\* matrix_inv_vandermonde of the matrix with the points p: the coefficients of the
\* product of all x - p[i], built up a point at a time
Coefficients(p) ==
  LET C[i \in Lines] == IF i = 0 THEN [Zero EXCEPT ![Order - 1] = p[0]]
                        ELSE TimesPoint(C[i - 1], p[i], i)
  IN  C[Order - 1]

\* the quotient by x - p[i], and its value at the point, by synthetic division
Quotient(c, x) ==
  LET B[j \in Lines] == IF j = Order - 1 THEN 1 ELSE GF_ADD(c[j + 1], GF_MUL(x, B[j + 1]))
      T[j \in Lines] == IF j = Order - 1 THEN 1 ELSE GF_ADD(GF_MUL(x, T[j + 1]), B[j])
  IN  [j \in Lines |-> GF_MUL(GF_INV(T[0]), B[j])]

\* A matrix of one row stays as it is.
VandermondeInverse(p) ==
  IF Order = 1 THEN [r \in Lines |-> [n \in Lines |-> 1]]
  ELSE LET q == [row \in Lines |-> Quotient(Coefficients(p), p[row])]
       IN  [col \in Lines |-> [row \in Lines |-> q[row][col]]]

-----------------------------------------------------------------------------
MatrixInit(m) == /\ matrix = m /\ original = m
                 /\ used = {} /\ swaps = <<>>
                 /\ mpc = "pivot"

\* The column that is done.
Column == Len(swaps)

OnDiagonal == Column \notin used /\ matrix[Column][Column] # 0

\* The places a search finds: of the rows without pivot, and of the columns
Places == {p \in (Lines \ used) \X (Lines \ used) : matrix[p[1]][p[2]] # 0}

\* The first of them, row by row
FirstPlace(place) ==
  /\ place \in Places
  /\ \A other \in Places : \/ place[1] < other[1]
                           \/ place[1] = other[1] /\ place[2] <= other[2]

\* Two rows of a matrix, or two elements of a row, change places (SWAP): so does the
\* pivot's row with the one on the diagonal,
Swapped(m, r, n) == [m EXCEPT ![r] = m[n], ![n] = m[r]]

\* which is divided by the pivot, and that leaves the pivot's inverse in its place,
Divided(m, n) ==
  LET c == m[n][n]
  IN  IF c = 1 THEN m
      ELSE [m EXCEPT ![n] = [j \in Lines |-> GF_MUL(GF_INV(c), IF j = n THEN 1 ELSE @[j])]]

\* Mutant: the element below the pivot is not cleared before the row is reduced.
ReducedUncleared(m, n) ==
  IF m[n] = Unit(n) THEN m
  ELSE [r \in Lines |-> IF r = n THEN m[n] ELSE AddMul(m[r], m[n], m[r][n])]

\* and subtracted from the others, unless it has become a row of the identity.
Reduced(m, n) ==
  IF m[n] = Unit(n) THEN m
  ELSE [r \in Lines |-> IF r = n THEN m[n]
                        ELSE AddMul([m[r] EXCEPT ![n] = 0], m[n], m[r][n])]

Eliminate(r, n) ==
  /\ matrix' = Reduced(Divided(Swapped(matrix, r, n), n), n)
  /\ used' = used \union {n}
  /\ swaps' = Append(swaps, <<r, n>>)
  /\ UNCHANGED <<mpc, original>>

PivotOnDiagonal == /\ mpc = "pivot" /\ Column < Order
                   /\ OnDiagonal
                   /\ Eliminate(Column, Column)

PivotFound(place) == /\ mpc = "pivot" /\ Column < Order
                     /\ ~OnDiagonal /\ FirstPlace(place)
                     /\ Eliminate(place[1], place[2])

PivotNotFound == /\ mpc = "pivot" /\ Column < Order
                 /\ ~OnDiagonal /\ Places = {}
                 /\ mpc' = "singular"
                 /\ UNCHANGED <<matrix, used, swaps, original>>

PivotsDone == /\ mpc = "pivot" /\ Column = Order
              /\ mpc' = "descramble"
              /\ UNCHANGED <<matrix, used, swaps, original>>

\* The columns of the last swap are put back first.
Descramble ==
  /\ mpc = "descramble" /\ swaps # <<>>
  /\ LET r == swaps[Column][1]   n == swaps[Column][2]
     IN  matrix' = [line \in Lines |-> Swapped(matrix[line], r, n)]
  /\ swaps' = SubSeq(swaps, 1, Column - 1)
  /\ UNCHANGED <<used, mpc, original>>

Descrambled == /\ mpc = "descramble" /\ swaps = <<>>
               /\ mpc' = "inverted"
               /\ UNCHANGED <<matrix, used, swaps, original>>

MatrixNext == \/ PivotOnDiagonal \/ PivotNotFound \/ PivotsDone \/ Descramble \/ Descrambled
              \/ \E place \in Places : PivotFound(place)

MatrixInverse == (\E m \in Matrices : MatrixInit(m)) /\ [][MatrixNext]_matrixVars

-----------------------------------------------------------------------------
\* A matrix that takes a vector other than 0 to 0 has no inverse.
Singular(m) == \E x \in [Lines -> Elements] :
                 x # Zero /\ \A r \in Lines : Dot(m[r], x) = 0

\* matrix_inv returns the inverse of the matrix it was given, whatever pivots it had to
\* search for, and gives up only on a matrix that has none.
InverseRight ==
  /\ mpc = "inverted" => \A r \in Lines : RowTimes(matrix[r], original) = Unit(r)
  /\ mpc = "singular" => Singular(original)
=============================================================================
