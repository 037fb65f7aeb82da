--------------------------- MODULE FecMatrixProofs ---------------------------
(***************************************************************************)
(* Proofs about FecMatrix, for every order and every field: matrix_inv     *)
(* inverts in place what can be inverted and refuses the rest, and         *)
(* matrix_inv_vandermonde inverts the powers of points that differ.        *)
(***************************************************************************)
EXTENDS FecMatrix, FiniteSetTheorems, WellFoundedInduction, TLAPS

\* The laws of the field, one by one.
LEMMA AddType == \A x, y \in Elements : GF_ADD(x, y) \in Elements
  BY FieldAssumption DEF OfTwo, OfThree
LEMMA MulType == \A x, y \in Elements : GF_MUL(x, y) \in Elements
  BY FieldAssumption DEF OfTwo, OfThree
LEMMA AddCommutes == \A x, y \in Elements : GF_ADD(x, y) = GF_ADD(y, x)
  BY FieldAssumption DEF OfTwo, OfThree
LEMMA MulCommutes == \A x, y \in Elements : GF_MUL(x, y) = GF_MUL(y, x)
  BY FieldAssumption DEF OfTwo, OfThree
LEMMA AddAssociates ==
  \A x, y, z \in Elements : GF_ADD(GF_ADD(x, y), z) = GF_ADD(x, GF_ADD(y, z))
  BY FieldAssumption DEF OfTwo, OfThree
LEMMA MulAssociates ==
  \A x, y, z \in Elements : GF_MUL(GF_MUL(x, y), z) = GF_MUL(x, GF_MUL(y, z))
  BY FieldAssumption DEF OfTwo, OfThree
LEMMA Distributes ==
  \A x, y, z \in Elements : GF_MUL(x, GF_ADD(y, z)) = GF_ADD(GF_MUL(x, y), GF_MUL(x, z))
  BY FieldAssumption DEF OfTwo, OfThree
LEMMA Constants ==
  /\ 0 \in Elements /\ 1 \in Elements
  /\ \A x \in Elements : /\ GF_ADD(x, 0) = x /\ GF_ADD(0, x) = x /\ GF_ADD(x, x) = 0
                         /\ GF_MUL(x, 1) = x /\ GF_MUL(1, x) = x
                         /\ GF_MUL(x, 0) = 0 /\ GF_MUL(0, x) = 0
  BY FieldAssumption DEF OfTwo, OfThree
LEMMA Inverses ==
  \A x \in Elements : x # 0 => /\ GF_INV(x) \in Elements
                               /\ GF_MUL(x, GF_INV(x)) = 1 /\ GF_MUL(GF_INV(x), x) = 1
  BY FieldAssumption DEF OfTwo, OfThree

\* What is added twice is gone.
LEMMA AddTwice ==
  ASSUME NEW x \in Elements, NEW y \in Elements
  PROVE  /\ GF_ADD(x, GF_ADD(x, y)) = y /\ GF_ADD(GF_ADD(y, x), x) = y
         /\ GF_ADD(GF_ADD(x, y), x) = y
  <1>1. GF_ADD(x, GF_ADD(x, y)) = y
    <2>1. GF_ADD(x, GF_ADD(x, y)) = GF_ADD(GF_ADD(x, x), y)
      BY AddAssociates
    <2> QED
      BY <2>1, Constants
  <1>2. GF_ADD(GF_ADD(y, x), x) = y
    <2>1. GF_ADD(GF_ADD(y, x), x) = GF_ADD(y, GF_ADD(x, x))
      BY AddAssociates
    <2> QED
      BY <2>1, Constants
  <1>3. GF_ADD(x, y) = GF_ADD(y, x)
    BY AddCommutes
  <1> QED
    BY <1>1, <1>2, <1>3

LEMMA AddCancels ==
  ASSUME NEW x \in Elements, NEW y \in Elements, NEW z \in Elements, GF_ADD(x, z) = GF_ADD(y, z)
  PROVE  x = y
  BY AddTwice

LEMMA SumZeroOnlyOfEqual ==
  ASSUME NEW x \in Elements, NEW y \in Elements, GF_ADD(x, y) = 0
  PROVE  x = y
  <1>1. GF_ADD(GF_ADD(x, y), y) = x
    BY AddTwice
  <1> QED
    BY <1>1, Constants

\* Sums of two sums.
LEMMA AddPairs ==
  ASSUME NEW a \in Elements, NEW b \in Elements, NEW c \in Elements, NEW d \in Elements
  PROVE  GF_ADD(GF_ADD(a, b), GF_ADD(c, d)) = GF_ADD(GF_ADD(a, c), GF_ADD(b, d))
  <1>1. GF_ADD(GF_ADD(a, b), GF_ADD(c, d)) = GF_ADD(a, GF_ADD(b, GF_ADD(c, d)))
    BY AddAssociates, AddType
  <1>2. GF_ADD(b, GF_ADD(c, d)) = GF_ADD(c, GF_ADD(b, d))
    <2>1. GF_ADD(b, GF_ADD(c, d)) = GF_ADD(GF_ADD(b, c), d)
      BY AddAssociates
    <2>2. GF_ADD(c, GF_ADD(b, d)) = GF_ADD(GF_ADD(c, b), d)
      BY AddAssociates
    <2> QED
      BY <2>1, <2>2, AddCommutes
  <1>3. GF_ADD(GF_ADD(a, c), GF_ADD(b, d)) = GF_ADD(a, GF_ADD(c, GF_ADD(b, d)))
    BY AddAssociates, AddType
  <1> QED
    BY <1>1, <1>2, <1>3

-----------------------------------------------------------------------------
NatPairs == {p \in Nat \X Nat : p[1] < p[2]}

\* A set of natural numbers that is not empty has a least.
LEMMA LeastNatural ==
  ASSUME NEW T \in SUBSET Nat, T # {}
  PROVE  \E n \in T : \A m \in T : n <= m
  <1>1. IsWellFoundedOn(NatPairs, Nat)
    BY NatLessThanWellFounded DEF OpToRel, NatPairs
  <1>2. \E n \in T : \A m \in T : ~(<<m, n>> \in NatPairs)
    BY <1>1, WFMin, Zenon
  <1>3. PICK n \in T : \A m \in T : ~(<<m, n>> \in NatPairs)
    BY <1>2
  <1>4. ASSUME NEW m \in T PROVE n <= m
    <2>1. m < n => <<m, n>> \in NatPairs
      BY DEF NatPairs
    <2>2. ~(<<m, n>> \in NatPairs)
      BY <1>3
    <2> QED
      BY <2>1, <2>2
  <1> QED
    BY <1>4

LEMMA InductionUpTo ==
  ASSUME NEW M \in Nat, NEW T, 0 \in T, \A n \in 1..M : n - 1 \in T => n \in T
  PROVE  0..M \subseteq T
  <1> SUFFICES ASSUME (0..M) \ T # {} PROVE FALSE
    OBVIOUS
  <1>1. (0..M) \ T \in SUBSET Nat
    OBVIOUS
  <1>2. PICK n \in (0..M) \ T : \A m \in (0..M) \ T : n <= m
    BY <1>1, LeastNatural
  <1>3. n \in 1..M /\ n - 1 \in 0..M /\ n - 1 \notin (0..M) \ T
    BY <1>2
  <1> QED
    BY <1>2, <1>3

-----------------------------------------------------------------------------
Vectors == [Lines -> Elements]

\* g is the sums of the first n terms of f, for n up to m.
Partial(g, f, m) == /\ g \in [0..m -> Elements] /\ g[0] = 0
                    /\ \A n \in 1..m : g[n] = GF_ADD(g[n - 1], f[n - 1])

LEMMA PartialExists ==
  ASSUME NEW f \in Vectors
  PROVE  \E g : Partial(g, f, Order)
  <1> DEFINE T == {m \in 0..Order : \E g : Partial(g, f, m)}
  <1>1. 0 \in T
    <2>1. Partial([n \in 0..0 |-> 0], f, 0)
      BY Constants DEF Partial
    <2> QED
      BY <2>1, OrderAssumption
  <1>2. ASSUME NEW m \in 1..Order, m - 1 \in T PROVE m \in T
    <2>1. PICK g : Partial(g, f, m - 1)
      BY <1>2
    <2>2. PICK last \in Elements : last = GF_ADD(g[m - 1], f[m - 1])
      <3>1. g[m - 1] \in Elements
        BY <2>1, OrderAssumption DEF Partial
      <3>2. f[m - 1] \in Elements
        BY OrderAssumption DEF Vectors, Lines
      <3> QED
        BY <3>1, <3>2, AddType
    <2>3. PICK h : h = [n \in 0..m |-> IF n = m THEN last ELSE g[n]]
      OBVIOUS
    <2>4. h \in [0..m -> Elements] /\ h[0] = 0
      BY <2>1, <2>3, OrderAssumption DEF Partial
    <2>5. ASSUME NEW n \in 1..m PROVE h[n] = GF_ADD(h[n - 1], f[n - 1])
      BY <2>1, <2>2, <2>3, OrderAssumption DEF Partial
    <2>6. Partial(h, f, m)
      BY <2>4, <2>5 DEF Partial
    <2> QED
      BY <2>6
  <1> HIDE DEF T
  <1>3. 0..Order \subseteq T
    BY <1>1, <1>2, OrderAssumption, InductionUpTo
  <1>4. Order \in T
    BY <1>3, OrderAssumption
  <1> QED
    BY <1>4 DEF T

LEMMA PartialUnique ==
  ASSUME NEW f, NEW g, NEW h, Partial(g, f, Order), Partial(h, f, Order)
  PROVE  g[Order] = h[Order]
  <1> DEFINE T == {m \in 0..Order : g[m] = h[m]}
  <1>1. 0 \in T
    BY OrderAssumption DEF Partial
  <1>2. ASSUME NEW m \in 1..Order, m - 1 \in T PROVE m \in T
    BY <1>2 DEF Partial
  <1> HIDE DEF T
  <1>3. 0..Order \subseteq T
    BY <1>1, <1>2, OrderAssumption, InductionUpTo
  <1>4. Order \in T
    BY <1>3, OrderAssumption
  <1> QED
    BY <1>4 DEF T

\* The sum of the elements of a vector.
Sigma(f) == CHOOSE v : \E g : Partial(g, f, Order) /\ v = g[Order]

LEMMA SigmaIs ==
  ASSUME NEW f, NEW g, Partial(g, f, Order)
  PROVE  Sigma(f) = g[Order] /\ Sigma(f) \in Elements
  <1>1. \E v : \E h : Partial(h, f, Order) /\ v = h[Order]
    OBVIOUS
  <1>2. PICK h : Partial(h, f, Order) /\ Sigma(f) = h[Order]
    BY <1>1, Zenon DEF Sigma
  <1>3. g[Order] = h[Order]
    BY <1>2, PartialUnique
  <1>4. g[Order] \in Elements
    BY OrderAssumption DEF Partial
  <1> QED
    BY <1>2, <1>3, <1>4

LEMMA SigmaType == \A f \in Vectors : Sigma(f) \in Elements
  BY PartialExists, SigmaIs

\* The accumulator of matrix_mul is the sum of the products.
LEMMA DotIs ==
  ASSUME NEW a \in Vectors, NEW b \in Vectors
  PROVE  Dot(a, b) = Sigma([j \in Lines |-> GF_MUL(a[j], b[j])])
  <1> DEFINE Acc[n \in 0..Order] ==
               IF n = 0 THEN 0 ELSE GF_ADD(Acc[n - 1], GF_MUL(a[n - 1], b[n - 1]))
             Body(f) == [n \in 0..Order |->
                           IF n = 0 THEN 0 ELSE GF_ADD(f[n - 1], GF_MUL(a[n - 1], b[n - 1]))]
  <1>1. PICK p \in Vectors : p = [j \in Lines |-> GF_MUL(a[j], b[j])]
    BY MulType DEF Vectors
  <1>2. PICK g : Partial(g, p, Order)
    BY PartialExists
  <1>3. g = Body(g)
    <2>1. \A n \in 1..Order : p[n - 1] = GF_MUL(a[n - 1], b[n - 1])
      BY <1>1, OrderAssumption DEF Lines
    <2>2. \A n \in 0..Order :
            g[n] = IF n = 0 THEN 0 ELSE GF_ADD(g[n - 1], GF_MUL(a[n - 1], b[n - 1]))
      BY <1>2, <2>1, OrderAssumption DEF Partial
    <2>3. g = [n \in 0..Order |-> g[n]]
      BY <1>2 DEF Partial
    <2> QED
      BY <2>2, <2>3
  <1>4. Acc = CHOOSE f : f = Body(f)
    BY DEF Acc
  <1>5. Acc = Body(Acc)
    BY <1>3, <1>4
  <1>6. PICK h : h = Acc
    OBVIOUS
  <1>7. \A n \in 0..Order :
          h[n] = IF n = 0 THEN 0 ELSE GF_ADD(h[n - 1], GF_MUL(a[n - 1], b[n - 1]))
    BY <1>5, <1>6
  <1> DEFINE T == {m \in 0..Order : h[m] = g[m]}
  <1>8. 0 \in T
    BY <1>2, <1>7, OrderAssumption DEF Partial
  <1>9. ASSUME NEW m \in 1..Order, m - 1 \in T PROVE m \in T
    <2>1. p[m - 1] = GF_MUL(a[m - 1], b[m - 1])
      BY <1>1, OrderAssumption DEF Lines
    <2>2. h[m] = GF_ADD(h[m - 1], p[m - 1])
      BY <1>7, <2>1, OrderAssumption
    <2> QED
      BY <1>2, <1>9, <2>2 DEF Partial
  <1> HIDE DEF T
  <1>10. 0..Order \subseteq T
    BY <1>8, <1>9, OrderAssumption, InductionUpTo
  <1>11. Order \in T
    BY <1>10, OrderAssumption
  <1>12. h[Order] = g[Order]
    BY <1>11 DEF T
  <1>13. Sigma(p) = g[Order]
    BY <1>2, SigmaIs
  <1> QED
    BY <1>1, <1>6, <1>12, <1>13 DEF Dot, Acc

-----------------------------------------------------------------------------
\* The sum of sums, and of multiples.
LEMMA SigmaAdd ==
  ASSUME NEW a \in Vectors, NEW b \in Vectors
  PROVE  Sigma([j \in Lines |-> GF_ADD(a[j], b[j])]) = GF_ADD(Sigma(a), Sigma(b))
  <1>1. PICK g : Partial(g, a, Order)
    BY PartialExists
  <1>2. PICK h : Partial(h, b, Order)
    BY PartialExists
  <1>3. PICK k : k = [n \in 0..Order |-> GF_ADD(g[n], h[n])]
    OBVIOUS
  <1>4. PICK c : c = [j \in Lines |-> GF_ADD(a[j], b[j])]
    OBVIOUS
  <1>5. k \in [0..Order -> Elements]
    BY <1>1, <1>2, <1>3, AddType DEF Partial
  <1>6. k[0] = 0
    BY <1>1, <1>2, <1>3, Constants, OrderAssumption DEF Partial
  <1>7. ASSUME NEW n \in 1..Order PROVE k[n] = GF_ADD(k[n - 1], c[n - 1])
    <2>1. n \in 0..Order /\ n - 1 \in 0..Order /\ n - 1 \in Lines
      BY OrderAssumption DEF Lines
    <2>2. PICK p \in Elements : p = g[n - 1]
      BY <1>1, <2>1 DEF Partial
    <2>3. PICK q \in Elements : q = h[n - 1]
      BY <1>2, <2>1 DEF Partial
    <2>4. PICK x \in Elements : x = a[n - 1]
      BY <2>1 DEF Vectors
    <2>5. PICK y \in Elements : y = b[n - 1]
      BY <2>1 DEF Vectors
    <2>6. k[n] = GF_ADD(GF_ADD(p, x), GF_ADD(q, y))
      BY <1>1, <1>2, <1>3, <2>1, <2>2, <2>3, <2>4, <2>5 DEF Partial
    <2>7. k[n - 1] = GF_ADD(p, q) /\ c[n - 1] = GF_ADD(x, y)
      BY <1>3, <1>4, <2>1, <2>2, <2>3, <2>4, <2>5
    <2> QED
      BY <2>6, <2>7, AddPairs
  <1>8. Partial(k, c, Order)
    BY <1>5, <1>6, <1>7 DEF Partial
  <1>9. Sigma(a) = g[Order] /\ Sigma(b) = h[Order] /\ Sigma(c) = k[Order]
    BY <1>1, <1>2, <1>8, SigmaIs
  <1> QED
    BY <1>3, <1>4, <1>9, OrderAssumption

LEMMA SigmaMul ==
  ASSUME NEW t \in Elements, NEW a \in Vectors
  PROVE  Sigma([j \in Lines |-> GF_MUL(t, a[j])]) = GF_MUL(t, Sigma(a))
  <1>1. PICK g : Partial(g, a, Order)
    BY PartialExists
  <1>2. PICK k : k = [n \in 0..Order |-> GF_MUL(t, g[n])]
    OBVIOUS
  <1>3. PICK c : c = [j \in Lines |-> GF_MUL(t, a[j])]
    OBVIOUS
  <1>4. k \in [0..Order -> Elements]
    BY <1>1, <1>2, MulType DEF Partial
  <1>5. k[0] = 0
    BY <1>1, <1>2, Constants, OrderAssumption DEF Partial
  <1>6. ASSUME NEW n \in 1..Order PROVE k[n] = GF_ADD(k[n - 1], c[n - 1])
    <2>1. n \in 0..Order /\ n - 1 \in 0..Order /\ n - 1 \in Lines
      BY OrderAssumption DEF Lines
    <2>2. PICK p \in Elements : p = g[n - 1]
      BY <1>1, <2>1 DEF Partial
    <2>3. PICK x \in Elements : x = a[n - 1]
      BY <2>1 DEF Vectors
    <2>4. k[n] = GF_MUL(t, GF_ADD(p, x))
      BY <1>1, <1>2, <2>1, <2>2, <2>3 DEF Partial
    <2>5. k[n - 1] = GF_MUL(t, p) /\ c[n - 1] = GF_MUL(t, x)
      BY <1>2, <1>3, <2>1, <2>2, <2>3
    <2> QED
      BY <2>4, <2>5, Distributes
  <1>7. Partial(k, c, Order)
    BY <1>4, <1>5, <1>6 DEF Partial
  <1>8. Sigma(a) = g[Order] /\ Sigma(c) = k[Order]
    BY <1>1, <1>7, SigmaIs
  <1> QED
    BY <1>2, <1>3, <1>8, OrderAssumption

\* The sum of a vector that differs from another at one place.
LEMMA SigmaBut ==
  ASSUME NEW a \in Vectors, NEW b \in Vectors, NEW l \in Lines,
         \A j \in Lines : j # l => a[j] = b[j]
  PROVE  Sigma(b) = GF_ADD(Sigma(a), GF_ADD(a[l], b[l]))
  <1>1. PICK g : Partial(g, a, Order)
    BY PartialExists
  <1>2. PICK x \in Elements : x = a[l]
    BY DEF Vectors
  <1>3. PICK y \in Elements : y = b[l]
    BY DEF Vectors
  <1>4. PICK d \in Elements : d = GF_ADD(x, y)
    BY AddType
  <1>5. PICK k : k = [n \in 0..Order |-> IF n <= l THEN g[n] ELSE GF_ADD(g[n], d)]
    OBVIOUS
  <1>6. k \in [0..Order -> Elements]
    BY <1>1, <1>5, AddType DEF Partial
  <1>7. k[0] = 0
    BY <1>1, <1>5, OrderAssumption DEF Partial, Lines
  <1>8. ASSUME NEW n \in 1..Order PROVE k[n] = GF_ADD(k[n - 1], b[n - 1])
    <2>1. n \in 0..Order /\ n - 1 \in 0..Order /\ n - 1 \in Lines
      BY OrderAssumption DEF Lines
    <2>2. PICK p \in Elements : p = g[n - 1]
      BY <1>1, <2>1 DEF Partial
    <2>3. PICK z \in Elements : z = a[n - 1]
      BY <2>1 DEF Vectors
    <2>4. g[n] = GF_ADD(p, z)
      BY <1>1, <2>2, <2>3 DEF Partial
    <2>5. CASE n <= l
      <3>1. k[n] = g[n] /\ k[n - 1] = p /\ b[n - 1] = z
        BY <1>5, <2>1, <2>2, <2>3, <2>5 DEF Lines
      <3> QED
        BY <2>4, <3>1
    <2>6. CASE n = l + 1
      <3>1. z = x /\ b[n - 1] = y /\ k[n - 1] = p /\ k[n] = GF_ADD(g[n], d)
        BY <1>2, <1>3, <1>5, <2>1, <2>2, <2>3, <2>6 DEF Lines
      <3>2. GF_ADD(GF_ADD(p, x), GF_ADD(x, y)) = GF_ADD(p, y)
        <4>1. GF_ADD(GF_ADD(p, x), GF_ADD(x, y)) = GF_ADD(p, GF_ADD(x, GF_ADD(x, y)))
          BY AddAssociates, AddType
        <4> QED
          BY <4>1, AddTwice
      <3> QED
        BY <1>4, <2>4, <3>1, <3>2
    <2>7. CASE n > l + 1
      <3>1. n - 1 # l /\ ~(n <= l) /\ ~(n - 1 <= l)
        BY <2>7 DEF Lines
      <3>2. b[n - 1] = z /\ k[n - 1] = GF_ADD(p, d) /\ k[n] = GF_ADD(g[n], d)
        BY <1>5, <2>1, <2>2, <2>3, <3>1
      <3>3. GF_ADD(GF_ADD(p, z), d) = GF_ADD(GF_ADD(p, d), z)
        <4>1. GF_ADD(GF_ADD(p, z), d) = GF_ADD(p, GF_ADD(z, d))
          BY AddAssociates
        <4>2. GF_ADD(GF_ADD(p, d), z) = GF_ADD(p, GF_ADD(d, z))
          BY AddAssociates
        <4> QED
          BY <4>1, <4>2, AddCommutes
      <3> QED
        BY <2>4, <3>2, <3>3
    <2> QED
      BY <2>5, <2>6, <2>7 DEF Lines
  <1>9. Partial(k, b, Order)
    BY <1>6, <1>7, <1>8 DEF Partial
  <1>10. Sigma(a) = g[Order] /\ Sigma(b) = k[Order]
    BY <1>1, <1>9, SigmaIs
  <1>11. k[Order] = GF_ADD(g[Order], d)
    BY <1>5, OrderAssumption DEF Lines
  <1> QED
    BY <1>2, <1>3, <1>4, <1>10, <1>11

\* The sum of nothing but zeroes, and of one element.
LEMMA SigmaZero == Sigma(Zero) = 0
  <1>1. Partial([n \in 0..Order |-> 0], Zero, Order)
    <2>1. \A n \in 1..Order : n - 1 \in Lines
      BY OrderAssumption DEF Lines
    <2> QED
      BY <2>1, Constants, OrderAssumption DEF Partial, Zero
  <1> QED
    BY <1>1, SigmaIs, OrderAssumption

\* Two elements that change places leave the sum.
LEMMA SigmaSwap ==
  ASSUME NEW a \in Vectors, NEW b \in Vectors, NEW l \in Lines, NEW m \in Lines,
         b = [a EXCEPT ![l] = a[m], ![m] = a[l]]
  PROVE  Sigma(b) = Sigma(a)
  <1>1. CASE l = m
    <2>1. b = a
      BY <1>1 DEF Vectors
    <2> QED
      BY <2>1
  <1>2. CASE l # m
    <2>1. PICK x \in Elements : x = a[l]
      BY DEF Vectors
    <2>2. PICK y \in Elements : y = a[m]
      BY DEF Vectors
    <2>3. PICK c \in Vectors : c = [a EXCEPT ![l] = y]
      BY DEF Vectors
    <2>4. c[l] = y /\ c[m] = y /\ b[m] = x /\ b[l] = y
      BY <1>2, <2>1, <2>2, <2>3 DEF Vectors
    <2>5. \A j \in Lines : j # l => a[j] = c[j]
      BY <2>3 DEF Vectors
    <2>6. \A j \in Lines : j # m => c[j] = b[j]
      BY <1>2, <2>2, <2>3, <2>4 DEF Vectors
    <2>7. Sigma(c) = GF_ADD(Sigma(a), GF_ADD(x, y))
      BY <2>1, <2>4, <2>5, SigmaBut
    <2>8. Sigma(b) = GF_ADD(Sigma(c), GF_ADD(y, x))
      <3>1. Sigma(b) = GF_ADD(Sigma(c), GF_ADD(c[m], b[m]))
        BY <2>6, SigmaBut, Zenon
      <3> QED
        BY <2>4, <3>1
    <2>9. PICK s \in Elements : s = Sigma(a)
      BY SigmaType
    <2>10. PICK d \in Elements : d = GF_ADD(x, y) /\ d = GF_ADD(y, x)
      BY AddType, AddCommutes
    <2>11. GF_ADD(GF_ADD(s, d), d) = s
      BY AddTwice
    <2> QED
      BY <2>7, <2>8, <2>9, <2>10, <2>11
  <1> QED
    BY <1>1, <1>2

-----------------------------------------------------------------------------
\* What each pair of elements contributes to a product.
Products(a, b) == [j \in Lines |-> GF_MUL(a[j], b[j])]

LEMMA DotSigma ==
  \A a, b \in Vectors : /\ Products(a, b) \in Vectors
                        /\ Dot(a, b) = Sigma(Products(a, b)) /\ Dot(a, b) \in Elements
  <1> SUFFICES ASSUME NEW a \in Vectors, NEW b \in Vectors
               PROVE  /\ Products(a, b) \in Vectors
                      /\ Dot(a, b) = Sigma(Products(a, b)) /\ Dot(a, b) \in Elements
    OBVIOUS
  <1>1. Products(a, b) \in Vectors
    BY MulType DEF Products, Vectors
  <1>2. Dot(a, b) = Sigma(Products(a, b))
    BY DotIs DEF Products
  <1> QED
    BY <1>1, <1>2, SigmaType

\* y is what m makes of x.
Image(m, x, y) == \A r \in Lines : y[r] = Dot(m[r], x)

\* A pivot exchanges input n and output n.
Pivoted(m, n) == Reduced(Divided(m, n), n)

\* What the code makes of the elements, its two shortcuts aside.
LEMMA PivotedIs ==
  ASSUME NEW m \in Matrices, NEW n \in Lines, m[n][n] # 0
  PROVE  /\ Pivoted(m, n) \in Matrices
         /\ \A j \in Lines : Pivoted(m, n)[n][j] =
              IF j = n THEN GF_INV(m[n][n]) ELSE GF_MUL(GF_INV(m[n][n]), m[n][j])
         /\ \A r \in Lines : r # n => \A j \in Lines : Pivoted(m, n)[r][j] =
              IF j = n THEN GF_MUL(m[r][n], Pivoted(m, n)[n][n])
              ELSE GF_ADD(m[r][j], GF_MUL(m[r][n], Pivoted(m, n)[n][j]))
  <1>1. PICK c \in Elements : c = m[n][n]
    BY DEF Matrices
  <1>2. PICK i \in Elements : i = GF_INV(c) /\ GF_MUL(c, i) = 1
    BY <1>1, Inverses
  <1>3. c = 1 => i = 1
    BY <1>2, Constants
  <1>4. PICK row \in Vectors : row = [j \in Lines |-> IF j = n THEN i ELSE GF_MUL(i, m[n][j])]
    <2>1. ASSUME NEW j \in Lines PROVE (IF j = n THEN i ELSE GF_MUL(i, m[n][j])) \in Elements
      BY <2>1, MulType DEF Matrices
    <2> QED
      BY <2>1 DEF Vectors
  <1>5. PICK d : d = Divided(m, n)
    OBVIOUS
  <1>6. d \in Matrices /\ d[n] = row /\ \A r \in Lines : r # n => d[r] = m[r]
    <2>1. CASE c = 1
      <3>1. d = m
        BY <1>1, <1>5, <2>1 DEF Divided
      <3>2. m[n] = [j \in Lines |-> m[n][j]]
        BY DEF Matrices
      <3>3. ASSUME NEW j \in Lines PROVE m[n][j] = row[j]
        <4>1. m[n][j] \in Elements
          BY DEF Matrices
        <4> QED
          BY <1>1, <1>3, <1>4, <2>1, <4>1, Constants
      <3>4. row = [j \in Lines |-> row[j]]
        BY DEF Vectors
      <3>5. m[n] = row
        BY <3>2, <3>3, <3>4
      <3> QED
        BY <3>1, <3>5
    <2>2. CASE c # 1
      <3>1. d = [m EXCEPT ![n] = [j \in Lines |-> GF_MUL(i, IF j = n THEN 1 ELSE m[n][j])]]
        BY <1>1, <1>2, <1>5, <2>2 DEF Divided
      <3>2. ASSUME NEW j \in Lines PROVE GF_MUL(i, IF j = n THEN 1 ELSE m[n][j]) = row[j]
        BY <1>4, Constants
      <3>3. [j \in Lines |-> GF_MUL(i, IF j = n THEN 1 ELSE m[n][j])] = row
        <4>1. row = [j \in Lines |-> row[j]]
          BY DEF Vectors
        <4> QED
          BY <3>2, <4>1
      <3>4. d = [m EXCEPT ![n] = row]
        BY <3>1, <3>3
      <3> QED
        BY <3>4 DEF Matrices, Vectors
    <2> QED
      BY <2>1, <2>2
  <1>7. PICK p : p = Pivoted(m, n)
    OBVIOUS
  <1>8. p = Reduced(d, n)
    BY <1>5, <1>7 DEF Pivoted
  <1>9. /\ p \in [Lines -> Vectors] /\ p[n] = row
        /\ \A r \in Lines : r # n => \A j \in Lines :
             p[r][j] = IF j = n THEN GF_MUL(m[r][n], row[n])
                       ELSE GF_ADD(m[r][j], GF_MUL(m[r][n], row[j]))
    <2>1. ASSUME NEW r \in Lines, NEW j \in Lines PROVE m[r][j] \in Elements /\ row[j] \in Elements
      BY DEF Matrices, Vectors
    <2>2. CASE row = Unit(n)
      <3>1. p = d
        BY <1>6, <1>8, <2>2 DEF Reduced
      <3>2. \A j \in Lines : row[j] = IF j = n THEN 1 ELSE 0
        BY <2>2 DEF Unit, Zero
      <3>3. ASSUME NEW r \in Lines, r # n, NEW j \in Lines
            PROVE p[r][j] = IF j = n THEN GF_MUL(m[r][n], row[n])
                            ELSE GF_ADD(m[r][j], GF_MUL(m[r][n], row[j]))
        <4>1. p[r] = m[r]
          BY <1>6, <3>1, <3>3
        <4> QED
          BY <2>1, <3>2, <4>1, Constants
      <3> QED
        BY <1>6, <3>1, <3>3 DEF Matrices, Vectors
    <2>3. CASE row # Unit(n)
      <3>1. p = [r \in Lines |-> IF r = n THEN row ELSE AddMul([d[r] EXCEPT ![n] = 0], row, d[r][n])]
        BY <1>6, <1>8, <2>3 DEF Reduced
      <3>2. ASSUME NEW r \in Lines, r # n
            PROVE /\ p[r] \in Vectors
                  /\ \A j \in Lines :
                       p[r][j] = IF j = n THEN GF_MUL(m[r][n], row[n])
                                 ELSE GF_ADD(m[r][j], GF_MUL(m[r][n], row[j]))
        <4>1. PICK z : z = [m[r] EXCEPT ![n] = 0]
          OBVIOUS
        <4>2. z \in Vectors /\ \A j \in Lines : z[j] = IF j = n THEN 0 ELSE m[r][j]
          BY <4>1, Constants DEF Matrices, Vectors
        <4>3. p[r] = AddMul(z, row, m[r][n])
          BY <1>6, <3>1, <3>2, <4>1
        <4>4. p[r] = [j \in Lines |-> GF_ADD(z[j], GF_MUL(m[r][n], row[j]))]
          BY <4>2, <4>3 DEF AddMul, Vectors
        <4>5. ASSUME NEW j \in Lines
              PROVE  /\ p[r][j] \in Elements
                     /\ p[r][j] = IF j = n THEN GF_MUL(m[r][n], row[n])
                                  ELSE GF_ADD(m[r][j], GF_MUL(m[r][n], row[j]))
          <5>1. PICK q \in Elements : q = GF_MUL(m[r][n], row[j])
            BY <2>1, MulType
          <5>2. p[r][j] = GF_ADD(z[j], q)
            BY <4>4, <5>1
          <5> QED
            BY <2>1, <4>2, <5>1, <5>2, Constants, AddType
        <4> QED
          BY <4>4, <4>5 DEF Vectors
      <3>3. p[n] = row
        BY <3>1
      <3>4. p \in [Lines -> Vectors]
        BY <3>1, <3>2, <3>3
      <3> QED
        BY <3>2, <3>3, <3>4
    <2> QED
      BY <2>2, <2>3
  <1>10. p \in Matrices
    BY <1>9 DEF Matrices, Vectors
  <1>11. \A j \in Lines : p[n][j] = IF j = n THEN GF_INV(m[n][n]) ELSE GF_MUL(GF_INV(m[n][n]), m[n][j])
    BY <1>1, <1>2, <1>4, <1>9
  <1> QED
    BY <1>7, <1>9, <1>10, <1>11

\* The line of the pivot, as a product with the exchanged input.
LEMMA PivotLine ==
  ASSUME NEW m \in Matrices, NEW n \in Lines, m[n][n] # 0,
         NEW x \in Vectors, NEW w \in Vectors, \A j \in Lines : j # n => w[j] = x[j]
  PROVE  Dot(Pivoted(m, n)[n], w)
           = GF_ADD(GF_MUL(GF_INV(m[n][n]), Dot(m[n], x)),
                    GF_ADD(x[n], GF_MUL(GF_INV(m[n][n]), w[n])))
  <1>0. PICK o \in Elements : o = w[n]
    BY DEF Vectors
  <1>1. PICK c \in Elements : c = m[n][n]
    BY DEF Matrices
  <1>2. PICK i \in Elements : i = GF_INV(c) /\ GF_MUL(c, i) = 1
    BY <1>1, Inverses
  <1>3. PICK l \in Vectors : l = m[n]
    BY DEF Matrices, Vectors
  <1>4. PICK p \in Vectors : /\ p = Pivoted(m, n)[n]
                             /\ \A j \in Lines : p[j] = IF j = n THEN i ELSE GF_MUL(i, l[j])
    <2>1. Pivoted(m, n)[n] \in Vectors
      BY PivotedIs DEF Matrices, Vectors
    <2> QED
      BY <1>1, <1>2, <1>3, <2>1, PivotedIs
  <1>5. PICK q \in Vectors : q = Products(l, x)
    BY DotSigma
  <1>6. PICK a \in Vectors : a = [j \in Lines |-> GF_MUL(i, q[j])]
    BY MulType DEF Vectors
  <1>7. PICK b \in Vectors : b = Products(p, w)
    BY DotSigma
  <1>8. ASSUME NEW j \in Lines, j # n PROVE a[j] = b[j]
    <2>1. PICK u \in Elements : u = l[j]
      BY DEF Vectors
    <2>2. PICK y \in Elements : y = x[j] /\ y = w[j]
      BY <1>8 DEF Vectors
    <2>3. a[j] = GF_MUL(i, GF_MUL(u, y))
      BY <1>5, <1>6, <2>1, <2>2 DEF Products
    <2>4. b[j] = GF_MUL(GF_MUL(i, u), y)
      BY <1>4, <1>7, <1>8, <2>1, <2>2 DEF Products
    <2> QED
      BY <2>3, <2>4, MulAssociates
  <1>9. PICK y \in Elements : y = x[n]
    BY DEF Vectors
  <1>10. a[n] = y
    <2>1. a[n] = GF_MUL(i, GF_MUL(c, y))
      BY <1>1, <1>3, <1>5, <1>6, <1>9 DEF Products
    <2>2. GF_MUL(i, GF_MUL(c, y)) = GF_MUL(GF_MUL(i, c), y)
      BY MulAssociates
    <2>3. GF_MUL(i, c) = 1
      BY <1>2, MulCommutes
    <2> QED
      BY <2>1, <2>2, <2>3, Constants
  <1>11. b[n] = GF_MUL(i, o)
    BY <1>0, <1>4, <1>7 DEF Products
  <1>12. Sigma(a) = GF_MUL(i, Dot(l, x))
    <2>1. Sigma(a) = GF_MUL(i, Sigma(q))
      BY <1>6, SigmaMul
    <2> QED
      BY <1>5, <2>1, DotSigma
  <1>13. Sigma(b) = GF_ADD(Sigma(a), GF_ADD(a[n], b[n]))
    BY <1>8, SigmaBut, Zenon
  <1>14. Dot(p, w) = Sigma(b)
    BY <1>7, DotSigma
  <1> QED
    BY <1>0, <1>1, <1>2, <1>3, <1>4, <1>9, <1>10, <1>11, <1>12, <1>13, <1>14

\* Any other line.
LEMMA OtherLine ==
  ASSUME NEW m \in Matrices, NEW n \in Lines, m[n][n] # 0, NEW r \in Lines, r # n,
         NEW x \in Vectors, NEW w \in Vectors, \A j \in Lines : j # n => w[j] = x[j]
  PROVE  Dot(Pivoted(m, n)[r], w)
           = GF_ADD(GF_ADD(Dot(m[r], x), GF_MUL(m[r][n], Dot(Pivoted(m, n)[n], w))),
                    GF_MUL(m[r][n], x[n]))
  <1>0. PICK o \in Elements : o = w[n]
    BY DEF Vectors
  <1>1. PICK l \in Vectors : l = m[r]
    BY DEF Matrices, Vectors
  <1>2. PICK t \in Elements : t = m[r][n] /\ t = l[n]
    BY <1>1 DEF Vectors
  <1>3. PICK p \in Vectors : p = Pivoted(m, n)[n]
    BY PivotedIs DEF Matrices, Vectors
  <1>4. PICK k \in Vectors :
          /\ k = Pivoted(m, n)[r]
          /\ \A j \in Lines : k[j] = IF j = n THEN GF_MUL(t, p[n])
                                     ELSE GF_ADD(l[j], GF_MUL(t, p[j]))
    <2>1. Pivoted(m, n)[r] \in Vectors
      BY PivotedIs DEF Matrices, Vectors
    <2> QED
      BY <1>1, <1>2, <1>3, <2>1, PivotedIs
  <1>5. PICK f \in Vectors : f = Products(l, x)
    BY DotSigma
  <1>6. PICK g \in Vectors : g = Products(p, w)
    BY DotSigma
  <1>7. PICK h \in Vectors : h = [j \in Lines |-> GF_MUL(t, g[j])]
    BY MulType DEF Vectors
  <1>8. PICK a \in Vectors : a = [j \in Lines |-> GF_ADD(f[j], h[j])]
    BY AddType DEF Vectors
  <1>9. PICK b \in Vectors : b = Products(k, w)
    BY DotSigma
  <1>10. ASSUME NEW j \in Lines, j # n PROVE a[j] = b[j]
    <2>1. PICK u \in Elements : u = l[j]
      BY DEF Vectors
    <2>2. PICK y \in Elements : y = x[j] /\ y = w[j]
      BY <1>10 DEF Vectors
    <2>3. PICK e \in Elements : e = p[j]
      BY DEF Vectors
    <2>4. a[j] = GF_ADD(GF_MUL(u, y), GF_MUL(t, GF_MUL(e, y)))
      BY <1>5, <1>6, <1>7, <1>8, <2>1, <2>2, <2>3 DEF Products
    <2>5. b[j] = GF_MUL(GF_ADD(u, GF_MUL(t, e)), y)
      BY <1>4, <1>9, <1>10, <2>1, <2>2, <2>3 DEF Products
    <2>6. PICK te \in Elements : te = GF_MUL(t, e)
      BY MulType
    <2>7. GF_MUL(GF_ADD(u, te), y) = GF_ADD(GF_MUL(u, y), GF_MUL(te, y))
      <3>1. GF_MUL(y, GF_ADD(u, te)) = GF_ADD(GF_MUL(y, u), GF_MUL(y, te))
        BY Distributes
      <3>2. GF_ADD(u, te) \in Elements
        BY AddType
      <3> QED
        BY <3>1, <3>2, MulCommutes
    <2>8. GF_MUL(te, y) = GF_MUL(t, GF_MUL(e, y))
      BY <2>6, MulAssociates
    <2> QED
      BY <2>4, <2>5, <2>6, <2>7, <2>8
  <1>11. PICK y \in Elements : y = x[n]
    BY DEF Vectors
  <1>12. PICK e \in Elements : e = p[n]
    BY DEF Vectors
  <1>13. PICK teo \in Elements : teo = GF_MUL(t, GF_MUL(e, o)) /\ teo = GF_MUL(GF_MUL(t, e), o)
    BY MulType, MulAssociates
  <1>14. PICK ty \in Elements : ty = GF_MUL(t, y)
    BY MulType
  <1>16. a[n] = GF_ADD(ty, teo)
    BY <1>2, <1>5, <1>6, <1>7, <1>8, <1>11, <1>12, <1>13, <1>14, <1>0 DEF Products
  <1>17. b[n] = teo
    BY <1>0, <1>4, <1>9, <1>12, <1>13 DEF Products
  <1>18. Sigma(b) = GF_ADD(Sigma(a), GF_ADD(a[n], b[n]))
    BY <1>10, SigmaBut, Zenon
  <1>19. GF_ADD(a[n], b[n]) = ty
    BY <1>16, <1>17, AddTwice
  <1>20. Sigma(a) = GF_ADD(Sigma(f), Sigma(h))
    BY <1>8, SigmaAdd
  <1>21. Sigma(h) = GF_MUL(t, Sigma(g))
    BY <1>7, SigmaMul
  <1>22. Sigma(f) = Dot(l, x) /\ Sigma(g) = Dot(p, w) /\ Sigma(b) = Dot(k, w)
    BY <1>5, <1>6, <1>9, DotSigma
  <1>23. Dot(k, w) = GF_ADD(GF_ADD(Dot(l, x), GF_MUL(t, Dot(p, w))), ty)
    BY <1>18, <1>19, <1>20, <1>21, <1>22
  <1> QED
    BY <1>1, <1>2, <1>3, <1>4, <1>11, <1>14, <1>23

\* The pivot exchanges what the matrix takes and gives at its line, and is undone by
\* no choice of vectors.
LEMMA PivotExchanges ==
  ASSUME NEW m \in Matrices, NEW n \in Lines, m[n][n] # 0,
         NEW x \in Vectors, NEW y \in Vectors, NEW w \in Vectors, NEW v \in Vectors,
         w[n] = y[n], v[n] = x[n],
         \A j \in Lines : j # n => w[j] = x[j],
         \A j \in Lines : j # n => v[j] = y[j]
  PROVE  Image(m, x, y) <=> Image(Pivoted(m, n), w, v)
  <1>0. ASSUME NEW r \in Lines, r # n
        PROVE  Dot(Pivoted(m, n)[r], w)
                 = GF_ADD(GF_ADD(Dot(m[r], x), GF_MUL(m[r][n], Dot(Pivoted(m, n)[n], w))),
                          GF_MUL(m[r][n], x[n]))
    BY <1>0, OtherLine, ZenonT(40)
  <1>1. PICK p \in Matrices : p = Pivoted(m, n)
    BY PivotedIs
  <1>2. PICK c \in Elements : c = m[n][n]
    BY DEF Matrices
  <1>3. PICK i \in Elements : i = GF_INV(c) /\ GF_MUL(c, i) = 1 /\ GF_MUL(i, c) = 1
    BY <1>2, Inverses
  <1>4. ASSUME NEW r \in Lines
        PROVE  /\ m[r] \in Vectors /\ p[r] \in Vectors /\ m[r][n] \in Elements
               /\ Dot(m[r], x) \in Elements /\ Dot(p[r], w) \in Elements
    <2>1. m[r] \in Vectors /\ p[r] \in Vectors /\ m[r][n] \in Elements
      BY DEF Matrices, Vectors
    <2> QED
      BY <2>1, DotSigma
  <1>5. PICK d \in Elements : d = Dot(m[n], x)
    BY <1>4
  <1>6. PICK e \in Elements : e = Dot(p[n], w)
    BY <1>4
  <1>7. PICK o \in Elements : o = y[n]
    BY DEF Vectors
  <1>8. PICK z \in Elements : z = x[n]
    BY DEF Vectors
  <1>9. e = GF_ADD(GF_MUL(i, d), GF_ADD(z, GF_MUL(i, o)))
    <2>1. \A j \in Lines : j # n => w[j] = x[j]
      OBVIOUS
    <2>2. Dot(Pivoted(m, n)[n], w)
            = GF_ADD(GF_MUL(GF_INV(m[n][n]), Dot(m[n], x)),
                     GF_ADD(x[n], GF_MUL(GF_INV(m[n][n]), w[n])))
      BY <2>1, PivotLine, ZenonT(40)
    <2> QED
      BY <1>1, <1>2, <1>3, <1>5, <1>6, <1>7, <1>8, <2>2
  <1>10. PICK id \in Elements : id = GF_MUL(i, d)
    BY MulType
  <1>11. PICK io \in Elements : io = GF_MUL(i, o)
    BY MulType
  <1>12. z = e <=> d = o
    <2>1. ASSUME d = o PROVE z = e
      <3>1. id = io
        BY <1>10, <1>11, <2>1
      <3>2. GF_ADD(io, GF_ADD(z, io)) = GF_ADD(io, GF_ADD(io, z))
        BY AddCommutes
      <3> QED
        BY <1>9, <1>10, <1>11, <3>1, <3>2, AddTwice
    <2>2. ASSUME z = e PROVE d = o
      <3>1. GF_ADD(id, GF_ADD(z, io)) = GF_ADD(GF_ADD(id, io), z)
        <4>1. GF_ADD(z, io) = GF_ADD(io, z)
          BY AddCommutes
        <4> QED
          BY <4>1, AddAssociates
      <3>2. PICK s \in Elements : s = GF_ADD(id, io)
        BY AddType
      <3>3. GF_ADD(s, z) = z
        BY <1>9, <1>10, <1>11, <2>2, <3>1, <3>2
      <3>4. s = 0
        BY <3>3, AddTwice, Constants
      <3>5. id = io
        BY <3>2, <3>4, SumZeroOnlyOfEqual
      <3>6. GF_MUL(c, id) = d
        <4>1. GF_MUL(c, GF_MUL(i, d)) = GF_MUL(GF_MUL(c, i), d)
          BY MulAssociates
        <4> QED
          BY <1>3, <1>10, <4>1, Constants
      <3>7. GF_MUL(c, io) = o
        <4>1. GF_MUL(c, GF_MUL(i, o)) = GF_MUL(GF_MUL(c, i), o)
          BY MulAssociates
        <4> QED
          BY <1>3, <1>11, <4>1, Constants
      <3> QED
        BY <3>5, <3>6, <3>7
    <2> QED
      BY <2>1, <2>2
  <1>13. ASSUME NEW r \in Lines, r # n, z = e PROVE Dot(p[r], w) = Dot(m[r], x)
    <2>1. PICK f \in Elements : f = Dot(m[r], x)
      BY <1>4
    <2>2. PICK g \in Elements : g = GF_MUL(m[r][n], z)
      BY <1>4, MulType
    <2>3. Dot(p[r], w) = GF_ADD(GF_ADD(Dot(m[r], x), GF_MUL(m[r][n], Dot(p[n], w))),
                                GF_MUL(m[r][n], x[n]))
      BY <1>0, <1>1, <1>13
    <2>4. Dot(p[r], w) = GF_ADD(GF_ADD(f, g), g)
      BY <1>6, <1>8, <1>13, <2>1, <2>2, <2>3
    <2> QED
      BY <2>1, <2>4, AddTwice
  <1>14. v[n] = z /\ \A r \in Lines : r # n => v[r] = y[r]
    BY <1>8 DEF Vectors
  <1>15. ASSUME Image(m, x, y) PROVE Image(p, w, v)
    <2>1. z = e
      BY <1>5, <1>7, <1>12, <1>15 DEF Image
    <2>2. ASSUME NEW r \in Lines PROVE v[r] = Dot(p[r], w)
      BY <1>6, <1>13, <1>14, <1>15, <2>1 DEF Image
    <2> QED
      BY <2>2 DEF Image
  <1>16. ASSUME Image(p, w, v) PROVE Image(m, x, y)
    <2>1. z = e
      BY <1>6, <1>14, <1>16 DEF Image
    <2>2. d = o
      BY <1>12, <2>1
    <2>3. ASSUME NEW r \in Lines PROVE y[r] = Dot(m[r], x)
      BY <1>5, <1>7, <1>13, <1>14, <1>16, <2>1, <2>2 DEF Image
    <2> QED
      BY <2>3 DEF Image
  <1> QED
    BY <1>1, <1>15, <1>16

-----------------------------------------------------------------------------
Arrangements == [Lines -> Lines]

\* What the matrix takes, and what it gives, when the pivots of the columns used have
\* exchanged input and output and the rows lie as the arrangement says.
Taken(x, y, u, s) == [j \in Lines |-> IF j \in u THEN y[s[j]] ELSE x[j]]
Given(x, y, u, s) == [r \in Lines |-> IF r \in u THEN x[r] ELSE y[s[r]]]

Exchanged(a, m, u, s) ==
  \A x, y \in Vectors : Image(a, x, y) <=> Image(m, Taken(x, y, u, s), Given(x, y, u, s))

\* y is what the one makes of x just when x is what the other makes of y.
Inverts(a, m) == \A x, y \in Vectors : Image(a, x, y) <=> Image(m, y, x)

LEMMA TakenGivenType ==
  ASSUME NEW x \in Vectors, NEW y \in Vectors, NEW u, NEW s \in Arrangements
  PROVE  Taken(x, y, u, s) \in Vectors /\ Given(x, y, u, s) \in Vectors
  <1>1. ASSUME NEW j \in Lines PROVE x[j] \in Elements /\ y[s[j]] \in Elements
    BY DEF Vectors, Arrangements
  <1> QED
    BY <1>1 DEF Taken, Given, Vectors

LEMMA SwappedIs ==
  ASSUME NEW X, NEW f \in [Lines -> X], NEW r \in Lines, NEW n \in Lines
  PROVE  /\ Swapped(f, r, n) \in [Lines -> X]
         /\ Swapped(f, r, n)[r] = f[n] /\ Swapped(f, r, n)[n] = f[r]
         /\ \A j \in Lines : j # r /\ j # n => Swapped(f, r, n)[j] = f[j]
         /\ Swapped(Swapped(f, r, n), r, n) = f
  BY DEF Swapped

\* Rows that have not had their pivot may change places.
LEMMA RowsExchange ==
  ASSUME NEW a \in Matrices, NEW m \in Matrices, NEW u \in SUBSET Lines,
         NEW s \in Arrangements, NEW r \in Lines \ u, NEW n \in Lines \ u,
         Exchanged(a, m, u, s)
  PROVE  Exchanged(a, Swapped(m, r, n), u, Swapped(s, r, n))
  <1> SUFFICES ASSUME NEW x \in Vectors, NEW y \in Vectors
               PROVE  Image(a, x, y) <=> Image(Swapped(m, r, n),
                                               Taken(x, y, u, Swapped(s, r, n)),
                                               Given(x, y, u, Swapped(s, r, n)))
    BY DEF Exchanged
  <1>1. PICK t \in Arrangements :
          /\ t = Swapped(s, r, n) /\ t[r] = s[n] /\ t[n] = s[r]
          /\ \A j \in Lines : j # r /\ j # n => t[j] = s[j]
    BY SwappedIs DEF Arrangements
  <1>2. PICK k \in Matrices :
          /\ k = Swapped(m, r, n) /\ k[r] = m[n] /\ k[n] = m[r]
          /\ \A j \in Lines : j # r /\ j # n => k[j] = m[j]
    <2>1. m \in [Lines -> Vectors] /\ Matrices = [Lines -> Vectors]
      BY DEF Matrices, Vectors
    <2>2. /\ Swapped(m, r, n) \in [Lines -> Vectors]
          /\ Swapped(m, r, n)[r] = m[n] /\ Swapped(m, r, n)[n] = m[r]
          /\ \A j \in Lines : j # r /\ j # n => Swapped(m, r, n)[j] = m[j]
      BY <2>1, SwappedIs
    <2> QED
      BY <2>1, <2>2
  <1>3. PICK w \in Vectors : w = Taken(x, y, u, s)
    BY TakenGivenType
  <1>4. w = Taken(x, y, u, t)
    <2>1. \A j \in u : t[j] = s[j]
      BY <1>1
    <2> QED
      BY <1>3, <2>1 DEF Taken
  <1>5. PICK v \in Vectors : v = Given(x, y, u, s)
    BY TakenGivenType
  <1>6. PICK z \in Vectors : z = Given(x, y, u, t)
    BY TakenGivenType
  <1>7. /\ z[r] = v[n] /\ z[n] = v[r]
        /\ \A j \in Lines : j # r /\ j # n => z[j] = v[j]
    BY <1>1, <1>5, <1>6 DEF Given
  <1>8. Image(m, w, v) <=> Image(k, w, z)
    <2>1. ASSUME Image(m, w, v), NEW j \in Lines PROVE z[j] = Dot(k[j], w)
      BY <1>2, <1>7, <2>1 DEF Image
    <2>2. ASSUME Image(k, w, z), NEW j \in Lines PROVE v[j] = Dot(m[j], w)
      BY <1>2, <1>7, <2>2 DEF Image
    <2> QED
      BY <2>1, <2>2 DEF Image
  <1>9. Image(a, x, y) <=> Image(m, w, v)
    BY <1>3, <1>5 DEF Exchanged
  <1> QED
    BY <1>1, <1>2, <1>4, <1>6, <1>8, <1>9

\* A pivot adds its column to the used ones.
LEMMA PivotUses ==
  ASSUME NEW a \in Matrices, NEW m \in Matrices, NEW u \in SUBSET Lines,
         NEW s \in Arrangements, NEW n \in Lines \ u, m[n][n] # 0, Exchanged(a, m, u, s)
  PROVE  Exchanged(a, Pivoted(m, n), u \union {n}, s)
  <1> SUFFICES ASSUME NEW x \in Vectors, NEW y \in Vectors
               PROVE  Image(a, x, y) <=> Image(Pivoted(m, n), Taken(x, y, u \union {n}, s),
                                               Given(x, y, u \union {n}, s))
    BY DEF Exchanged
  <1>1. PICK x1 \in Vectors : x1 = Taken(x, y, u, s)
    BY TakenGivenType
  <1>2. PICK y1 \in Vectors : y1 = Given(x, y, u, s)
    BY TakenGivenType
  <1>3. PICK x2 \in Vectors : x2 = Taken(x, y, u \union {n}, s)
    BY TakenGivenType
  <1>4. PICK y2 \in Vectors : y2 = Given(x, y, u \union {n}, s)
    BY TakenGivenType
  <1>5. x2[n] = y1[n] /\ y2[n] = x1[n]
    BY <1>1, <1>2, <1>3, <1>4 DEF Taken, Given
  <1>6. \A j \in Lines : j # n => x2[j] = x1[j]
    BY <1>1, <1>3 DEF Taken
  <1>7. \A j \in Lines : j # n => y2[j] = y1[j]
    BY <1>2, <1>4 DEF Given
  <1>8. Image(m, x1, y1) <=> Image(Pivoted(m, n), x2, y2)
    <2>1. PICK l \in Lines : l = n
      OBVIOUS
    <2>2. m[l][l] # 0 /\ x2[l] = y1[l] /\ y2[l] = x1[l]
      BY <1>5, <2>1
    <2>3. \A j \in Lines : j # l => x2[j] = x1[j]
      BY <1>6, <2>1
    <2>4. \A j \in Lines : j # l => y2[j] = y1[j]
      BY <1>7, <2>1
    <2>5. Image(m, x1, y1) <=> Image(Pivoted(m, l), x2, y2)
      BY <2>2, <2>3, <2>4, PivotExchanges
    <2> QED
      BY <2>1, <2>5
  <1>9. Image(a, x, y) <=> Image(m, x1, y1)
    BY <1>1, <1>2 DEF Exchanged
  <1> QED
    BY <1>3, <1>4, <1>8, <1>9

\* Two columns may change places when all have had their pivot.
LEMMA ColumnsExchange ==
  ASSUME NEW a \in Matrices, NEW m \in Matrices, NEW k \in Matrices,
         NEW s \in Arrangements, NEW t \in Arrangements, NEW r \in Lines, NEW n \in Lines,
         s = Swapped(t, r, n), k = [line \in Lines |-> Swapped(m[line], r, n)],
         Exchanged(a, m, Lines, s)
  PROVE  Exchanged(a, k, Lines, t)
  <1> SUFFICES ASSUME NEW x \in Vectors, NEW y \in Vectors
               PROVE  Image(a, x, y) <=> Image(k, Taken(x, y, Lines, t), Given(x, y, Lines, t))
    BY DEF Exchanged
  <1>1. PICK w \in Vectors : w = Taken(x, y, Lines, s)
    BY TakenGivenType
  <1>2. PICK z \in Vectors : z = Taken(x, y, Lines, t)
    BY TakenGivenType
  <1>3. PICK v \in Vectors : v = Given(x, y, Lines, s) /\ v = Given(x, y, Lines, t)
    <2>1. Given(x, y, Lines, s) = Given(x, y, Lines, t)
      BY DEF Given
    <2> QED
      BY <2>1, TakenGivenType
  <1>4. /\ s[r] = t[n] /\ s[n] = t[r]
        /\ \A j \in Lines : j # r /\ j # n => s[j] = t[j]
    BY SwappedIs DEF Arrangements
  <1>5. /\ w[r] = z[n] /\ w[n] = z[r]
        /\ \A j \in Lines : j # r /\ j # n => w[j] = z[j]
    BY <1>1, <1>2, <1>4 DEF Taken
  <1>6. ASSUME NEW line \in Lines PROVE Dot(m[line], w) = Dot(k[line], z)
    <2>1. PICK c \in Vectors : c = m[line]
      BY DEF Matrices, Vectors
    <2>2. PICK d \in Vectors :
            /\ d = k[line] /\ d[r] = c[n] /\ d[n] = c[r]
            /\ \A j \in Lines : j # r /\ j # n => d[j] = c[j]
      <3>1. k[line] = Swapped(c, r, n)
        BY <2>1
      <3> QED
        BY <2>1, <3>1 DEF Swapped, Vectors
    <2>3. PICK f \in Vectors : f = Products(c, w)
      BY DotSigma
    <2>4. PICK g \in Vectors : g = Products(d, z)
      BY DotSigma
    <2>5. /\ g[r] = f[n] /\ g[n] = f[r]
          /\ \A j \in Lines : j # r /\ j # n => g[j] = f[j]
      BY <1>5, <2>2, <2>3, <2>4 DEF Products
    <2>6. g = [f EXCEPT ![r] = f[n], ![n] = f[r]]
      BY <2>5 DEF Vectors
    <2>7. Sigma(g) = Sigma(f)
      BY <2>6, SigmaSwap
    <2> QED
      BY <2>1, <2>2, <2>3, <2>4, <2>7, DotSigma
  <1>7. Image(m, w, v) <=> Image(k, z, v)
    BY <1>6 DEF Image
  <1>8. Image(a, x, y) <=> Image(m, w, v)
    BY <1>1, <1>3 DEF Exchanged
  <1> QED
    BY <1>2, <1>3, <1>7, <1>8

\* The rows of the identity.
LEMMA UnitIs ==
  /\ Zero \in Vectors /\ \A j \in Lines : Zero[j] = 0
  /\ \A c \in Lines : /\ Unit(c) \in Vectors /\ Unit(c)[c] = 1
                      /\ \A j \in Lines : j # c => Unit(c)[j] = 0
  <1>1. PICK o \in Elements : o = 0
    BY Constants
  <1>2. PICK i \in Elements : i = 1
    BY Constants
  <1>3. Zero = [j \in Lines |-> o]
    BY <1>1 DEF Zero
  <1>4. \A c \in Lines : Unit(c) = [Zero EXCEPT ![c] = i]
    BY <1>2 DEF Unit
  <1>5. Zero \in Vectors /\ \A j \in Lines : Zero[j] = o
    BY <1>3 DEF Vectors
  <1>6. ASSUME NEW c \in Lines
        PROVE  /\ Unit(c) \in Vectors /\ Unit(c)[c] = i
               /\ \A j \in Lines : j # c => Unit(c)[j] = o
    BY <1>4, <1>5 DEF Vectors
  <1> QED
    BY <1>1, <1>2, <1>5, <1>6

\* The product with a row of the identity.
LEMMA DotUnit ==
  ASSUME NEW a \in Vectors, NEW c \in Lines
  PROVE  Unit(c) \in Vectors /\ Dot(a, Unit(c)) = a[c]
  <1>1. PICK e \in Vectors : e = Unit(c) /\ e[c] = 1 /\ \A j \in Lines : j # c => e[j] = 0
    BY UnitIs
  <1>2. PICK z \in Vectors : z = Zero /\ \A j \in Lines : z[j] = 0
    BY UnitIs
  <1>3. PICK p \in Vectors : p = Products(a, e)
    BY DotSigma
  <1>4. PICK l \in Elements : l = a[c]
    BY DEF Vectors
  <1>5. p[c] = l
    BY <1>1, <1>3, <1>4, Constants DEF Products
  <1>6. ASSUME NEW j \in Lines, j # c PROVE z[j] = p[j]
    <2>1. a[j] \in Elements
      BY DEF Vectors
    <2> QED
      BY <1>1, <1>2, <1>3, <1>6, <2>1, Constants DEF Products
  <1>7. Sigma(p) = GF_ADD(Sigma(z), GF_ADD(z[c], p[c]))
    BY <1>6, SigmaBut, Zenon
  <1>8. Sigma(p) = l
    BY <1>2, <1>4, <1>5, <1>7, SigmaZero, Constants
  <1> QED
    BY <1>1, <1>3, <1>4, <1>8, DotSigma

\* The arrangements that the swaps have made, one after the other.
Chain(w, ps) ==
  /\ ps \in [0..Len(w) -> Arrangements]
  /\ ps[0] = [j \in Lines |-> j]
  /\ \A k \in 1..Len(w) : ps[k] = Swapped(ps[k - 1], w[k][1], w[k][2])

MatrixTypeOK == /\ matrix \in Matrices /\ original \in Matrices
                /\ used \in SUBSET Lines
                /\ swaps \in Seq(Lines \X Lines)
                /\ mpc \in {"pivot", "singular", "descramble", "inverted"}

\* Inputs and outputs are exchanged at the columns used, in the arrangement of the
\* swaps that are still to be undone.
ExchangedSoFar == \E ps : Chain(swaps, ps) /\ Exchanged(original, matrix, used, ps[Len(swaps)])

MatrixInv ==
  /\ MatrixTypeOK
  /\ mpc = "pivot" => Cardinality(used) = Len(swaps)
  /\ mpc = "descramble" => used = Lines
  /\ mpc \in {"pivot", "descramble"} => ExchangedSoFar
  /\ mpc = "inverted" => Inverts(original, matrix)
  /\ mpc = "singular" => Singular(original)

LEMMA LinesFinite == IsFiniteSet(Lines) /\ Cardinality(Lines) = Order
  <1>1. Cardinality(0 .. Order - 1) = Order
    BY FS_Interval, OrderAssumption
  <1> QED
    BY <1>1, FS_Interval, OrderAssumption DEF Lines

\* The elimination of a column, the pivot found.
LEMMA EliminateInv ==
  ASSUME MatrixInv, mpc = "pivot", NEW r \in Lines \ used, NEW n \in Lines \ used,
         matrix[r][n] # 0, Eliminate(r, n)
  PROVE  MatrixInv'
  <1>1. PICK m \in Matrices :
          /\ m = Swapped(matrix, r, n) /\ m[n] = matrix[r]
    <2>1. matrix \in [Lines -> Vectors] /\ Matrices = [Lines -> Vectors]
      BY DEF MatrixInv, MatrixTypeOK, Matrices, Vectors
    <2>2. Swapped(matrix, r, n) \in [Lines -> Vectors] /\ Swapped(matrix, r, n)[n] = matrix[r]
      BY <2>1 DEF Swapped
    <2> QED
      BY <2>1, <2>2
  <1>2. m[n][n] # 0
    BY <1>1
  <1>3. matrix' = Pivoted(m, n) /\ Pivoted(m, n) \in Matrices
    BY <1>1, <1>2, PivotedIs DEF Eliminate, Pivoted
  <1>4. /\ used' = used \union {n} /\ swaps' = Append(swaps, <<r, n>>)
        /\ mpc' = mpc /\ original' = original
    BY DEF Eliminate
  <1>5. MatrixTypeOK'
    BY <1>3, <1>4 DEF MatrixInv, MatrixTypeOK
  <1>6. Cardinality(used') = Len(swaps')
    <2>1. IsFiniteSet(used)
      BY LinesFinite, FS_Subset DEF MatrixInv, MatrixTypeOK
    <2>2. Cardinality(used') = Cardinality(used) + 1
      BY <1>4, <2>1, FS_AddElement
    <2>3. Len(swaps') = Len(swaps) + 1
      BY <1>4 DEF MatrixInv, MatrixTypeOK
    <2> QED
      BY <2>2, <2>3 DEF MatrixInv
  <1>7. ExchangedSoFar'
    <2>1. PICK ps : Chain(swaps, ps) /\ Exchanged(original, matrix, used, ps[Len(swaps)])
      BY DEF MatrixInv, ExchangedSoFar
    <2>2. PICK l \in Nat : l = Len(swaps)
      BY DEF MatrixInv, MatrixTypeOK
    <2>3. PICK s \in Arrangements : s = ps[l]
      BY <2>1, <2>2 DEF Chain
    <2>4. PICK t \in Arrangements : t = Swapped(s, r, n)
      BY DEF Swapped, Arrangements
    <2>5. PICK qs : qs = [k \in 0 .. l + 1 |-> IF k = l + 1 THEN t ELSE ps[k]]
      OBVIOUS
    <2>6. Chain(swaps', qs)
      <3>1. Len(swaps') = l + 1
        BY <1>4, <2>2 DEF MatrixInv, MatrixTypeOK
      <3>2. qs \in [0 .. l + 1 -> Arrangements]
        BY <2>1, <2>2, <2>4, <2>5 DEF Chain
      <3>3. qs[0] = [j \in Lines |-> j]
        BY <2>1, <2>5 DEF Chain
      <3>4. ASSUME NEW k \in 1 .. l + 1
            PROVE  qs[k] = Swapped(qs[k - 1], swaps'[k][1], swaps'[k][2])
        <4>1. CASE k = l + 1
          <5>1. swaps'[k] = <<r, n>>
            BY <1>4, <2>2, <4>1 DEF MatrixInv, MatrixTypeOK
          <5>2. qs[k] = t /\ qs[k - 1] = s
            BY <2>2, <2>3, <2>5, <4>1
          <5> QED
            BY <2>4, <5>1, <5>2
        <4>2. CASE k # l + 1
          <5>1. swaps'[k] = swaps[k]
            BY <1>4, <2>2, <4>2 DEF MatrixInv, MatrixTypeOK
          <5>2. qs[k] = ps[k] /\ qs[k - 1] = ps[k - 1]
            BY <2>5, <4>2
          <5>3. ps[k] = Swapped(ps[k - 1], swaps[k][1], swaps[k][2])
            BY <2>1, <2>2, <4>2 DEF Chain
          <5> QED
            BY <5>1, <5>2, <5>3
        <4> QED
          BY <4>1, <4>2
      <3> QED
        BY <3>1, <3>2, <3>3, <3>4 DEF Chain
    <2>7. PICK a \in Matrices : a = original
      BY DEF MatrixInv, MatrixTypeOK
    <2>8. PICK m0 \in Matrices : m0 = matrix
      BY DEF MatrixInv, MatrixTypeOK
    <2>9. PICK u \in SUBSET Lines : u = used /\ n \notin u /\ r \notin u
      BY DEF MatrixInv, MatrixTypeOK
    <2>10. Exchanged(a, m, u, t)
      <3>1. Exchanged(a, m0, u, s)
        BY <2>1, <2>2, <2>3, <2>7, <2>8, <2>9
      <3>2. r \in Lines \ u /\ n \in Lines \ u
        BY <2>9
      <3> QED
        BY <1>1, <2>4, <2>8, <3>1, <3>2, RowsExchange
    <2>11. Exchanged(a, Pivoted(m, n), u \union {n}, t)
      BY <1>2, <2>9, <2>10, PivotUses
    <2>12. qs[Len(swaps')] = t
      BY <1>4, <2>2, <2>5 DEF MatrixInv, MatrixTypeOK
    <2>13. Exchanged(original', matrix', used', qs[Len(swaps')])
      BY <1>3, <1>4, <2>7, <2>9, <2>11, <2>12
    <2> QED
      BY <2>6, <2>13 DEF ExchangedSoFar
  <1> QED
    BY <1>4, <1>5, <1>6, <1>7 DEF MatrixInv

\* What is left when all pivots are found and all columns are back.
LEMMA InvertsWhenBack ==
  ASSUME NEW a \in Matrices, NEW m \in Matrices, NEW s \in Arrangements,
         \A j \in Lines : s[j] = j, Exchanged(a, m, Lines, s)
  PROVE  Inverts(a, m)
  <1> SUFFICES ASSUME NEW x \in Vectors, NEW y \in Vectors
               PROVE  Image(a, x, y) <=> Image(m, y, x)
    BY DEF Inverts
  <1>1. Taken(x, y, Lines, s) = y
    BY DEF Taken, Vectors
  <1>2. Given(x, y, Lines, s) = x
    BY DEF Given, Vectors
  <1> QED
    BY <1>1, <1>2 DEF Exchanged

LEMMA InverseOfInverts ==
  ASSUME NEW a \in Matrices, NEW m \in Matrices, Inverts(a, m), NEW r \in Lines
  PROVE  RowTimes(m[r], a) = Unit(r)
  <1>1. ASSUME NEW c \in Lines
        PROVE  /\ Dot(m[r], [line \in Lines |-> a[line][c]]) = Unit(r)[c]
    <2>1. PICK x \in Vectors : x = Unit(c)
      BY UnitIs
    <2>2. PICK y \in Vectors : y = [line \in Lines |-> a[line][c]]
      BY DEF Matrices, Vectors
    <2>3. Image(a, x, y)
      <3>1. ASSUME NEW line \in Lines PROVE y[line] = Dot(a[line], x)
        <4>1. a[line] \in Vectors
          BY DEF Matrices, Vectors
        <4> QED
          BY <2>1, <2>2, <4>1, DotUnit
      <3> QED
        BY <3>1 DEF Image
    <2>6. Image(m, y, x)
      BY <2>3 DEF Inverts
    <2>7. x[r] = Dot(m[r], y)
      BY <2>6 DEF Image
    <2>8. Unit(c)[r] = Unit(r)[c]
      BY UnitIs
    <2> QED
      BY <2>1, <2>2, <2>7, <2>8
  <1>2. Unit(r) = [c \in Lines |-> Unit(r)[c]]
    BY UnitIs DEF Vectors
  <1> QED
    BY <1>1, <1>2 DEF RowTimes

\* A column without pivot that no row without pivot has an element in: its elements are
\* what the inputs exchanged have to be for the outputs to be 0.
LEMMA NoPivotSingular ==
  ASSUME NEW a \in Matrices, NEW m \in Matrices, NEW u \in SUBSET Lines,
         NEW s \in Arrangements, Exchanged(a, m, u, s), NEW c \in Lines \ u,
         \A r \in Lines \ u : m[r][c] = 0
  PROVE  Singular(a)
  <1>1. PICK z \in Vectors : z = Zero /\ \A j \in Lines : z[j] = 0
    BY UnitIs
  <1>2. PICK e \in Vectors : e = Unit(c) /\ e[c] = 1 /\ \A j \in Lines : j # c => e[j] = 0
    BY UnitIs
  <1>3. PICK x \in Vectors : x = [j \in Lines |-> IF j \in u THEN m[j][c] ELSE e[j]]
    BY DEF Matrices, Vectors
  <1>4. Taken(x, z, u, s) = e
    <2>1. ASSUME NEW j \in Lines PROVE (IF j \in u THEN z[s[j]] ELSE x[j]) = e[j]
      BY <1>1, <1>2, <1>3 DEF Arrangements
    <2>2. e = [j \in Lines |-> e[j]]
      BY DEF Vectors
    <2> QED
      BY <2>1, <2>2 DEF Taken
  <1>5. Image(m, e, Given(x, z, u, s))
    <2>1. ASSUME NEW r \in Lines PROVE Given(x, z, u, s)[r] = Dot(m[r], e)
      <3>1. Dot(m[r], e) = m[r][c]
        <4>1. m[r] \in Vectors /\ c \in Lines
          BY DEF Matrices, Vectors
        <4> QED
          BY <1>2, <4>1, DotUnit
      <3>2. CASE r \in u
        BY <1>3, <3>1, <3>2 DEF Given
      <3>3. CASE r \notin u
        <4>1. Given(x, z, u, s)[r] = 0
          BY <1>1, <3>3 DEF Given, Arrangements
        <4> QED
          BY <3>1, <3>3, <4>1
      <3> QED
        BY <3>2, <3>3
    <2> QED
      BY <2>1 DEF Image
  <1>6. Image(a, x, z)
    BY <1>4, <1>5 DEF Exchanged
  <1>7. \A r \in Lines : Dot(a[r], x) = 0
    BY <1>1, <1>6 DEF Image
  <1>8. x # Zero
    <2>1. x[c] = 1 /\ Zero[c] = 0
      BY <1>1, <1>2, <1>3
    <2> QED
      BY <2>1
  <1> QED
    BY <1>7, <1>8 DEF Singular, Vectors

\* Before the first pivot nothing is exchanged.
LEMMA NothingExchanged ==
  ASSUME NEW m \in Matrices
  PROVE  \E ps : Chain(<<>>, ps) /\ Exchanged(m, m, {}, ps[Len(<<>>)])
  <1>1. PICK id \in Arrangements : id = [j \in Lines |-> j]
    BY DEF Arrangements
  <1>2. PICK ps : ps = [k \in 0..0 |-> id]
    OBVIOUS
  <1>3. ps[0] = id /\ ps \in [0..0 -> Arrangements] /\ Len(<<>>) = 0
    BY <1>2
  <1>4. Chain(<<>>, ps)
    BY <1>1, <1>3 DEF Chain
  <1>5. ASSUME NEW x \in Vectors, NEW y \in Vectors
        PROVE  Taken(x, y, {}, id) = x /\ Given(x, y, {}, id) = y
    BY <1>1 DEF Taken, Given, Vectors
  <1>6. Exchanged(m, m, {}, id)
    BY <1>5 DEF Exchanged
  <1> QED
    BY <1>3, <1>4, <1>6

LEMMA MatrixInitInv == ASSUME NEW m \in Matrices, MatrixInit(m) PROVE MatrixInv
  <1>1. MatrixTypeOK
    BY DEF MatrixInit, MatrixTypeOK
  <1>2. Cardinality(used) = Len(swaps)
    BY FS_EmptySet DEF MatrixInit
  <1>3. ExchangedSoFar
    BY NothingExchanged DEF MatrixInit, ExchangedSoFar
  <1> QED
    BY <1>1, <1>2, <1>3 DEF MatrixInit, MatrixInv

LEMMA PivotNotFoundInv == ASSUME MatrixInv, PivotNotFound PROVE MatrixInv'
  <1>1. Singular(original)
    <2>1. PICK ps : Chain(swaps, ps) /\ Exchanged(original, matrix, used, ps[Len(swaps)])
      BY DEF MatrixInv, ExchangedSoFar, PivotNotFound
    <2>2. PICK l \in Nat : l = Len(swaps)
      BY DEF MatrixInv, MatrixTypeOK
    <2>3. PICK s \in Arrangements : s = ps[l]
      BY <2>1, <2>2 DEF Chain
    <2>4. used # Lines
      BY <2>2, LinesFinite DEF MatrixInv, PivotNotFound, Column
    <2>5. PICK c \in Lines : c \notin used
      BY <2>4 DEF MatrixInv, MatrixTypeOK
    <2>6. ASSUME NEW r \in Lines \ used PROVE matrix[r][c] = 0
      <3>1. PICK p : p = <<r, c>>
        OBVIOUS
      <3>2. p \in (Lines \ used) \X (Lines \ used) /\ p[1] = r /\ p[2] = c
        BY <2>5, <3>1
      <3>3. p \notin Places
        BY DEF PivotNotFound
      <3> QED
        BY <3>2, <3>3 DEF Places
    <2>7. PICK a \in Matrices : a = original
      BY DEF MatrixInv, MatrixTypeOK
    <2>8. PICK m \in Matrices : m = matrix
      BY DEF MatrixInv, MatrixTypeOK
    <2>9. PICK u \in SUBSET Lines : u = used
      BY DEF MatrixInv, MatrixTypeOK
    <2>10. Exchanged(a, m, u, s)
      BY <2>1, <2>2, <2>3, <2>7, <2>8, <2>9
    <2>11. c \in Lines \ u /\ \A r \in Lines \ u : m[r][c] = 0
      BY <2>5, <2>6, <2>8, <2>9
    <2>12. Singular(a)
      BY <2>10, <2>11, NoPivotSingular
    <2> QED
      BY <2>7, <2>12
  <1>2. MatrixTypeOK' /\ mpc' = "singular" /\ original' = original
    BY DEF PivotNotFound, MatrixInv, MatrixTypeOK
  <1>3. Singular(original)'
    BY <1>1, <1>2
  <1> QED
    BY <1>2, <1>3 DEF MatrixInv

LEMMA PivotsDoneInv == ASSUME MatrixInv, PivotsDone PROVE MatrixInv'
  <1>1. used = Lines
    BY LinesFinite, FS_Subset DEF MatrixInv, MatrixTypeOK, PivotsDone, Column
  <1>2. MatrixTypeOK' /\ used' = used /\ mpc' = "descramble"
    BY DEF PivotsDone, MatrixInv, MatrixTypeOK
  <1>3. ExchangedSoFar'
    BY DEF PivotsDone, MatrixInv, ExchangedSoFar
  <1> QED
    BY <1>1, <1>2, <1>3 DEF MatrixInv

LEMMA DescrambleInv == ASSUME MatrixInv, Descramble PROVE MatrixInv'
  <1>1. PICK l \in Nat : l = Len(swaps) - 1 /\ l + 1 = Len(swaps)
    <2>1. swaps \in Seq(Lines \X Lines) /\ swaps # <<>>
      BY DEF MatrixInv, MatrixTypeOK, Descramble
    <2>2. Len(swaps) \in Nat /\ Len(swaps) # 0
      BY <2>1
    <2>3. Len(swaps) - 1 \in Nat
      BY <2>2
    <2> QED
      BY <2>2, <2>3
  <1>2. PICK r \in Lines, n \in Lines : r = swaps[l + 1][1] /\ n = swaps[l + 1][2]
    BY <1>1 DEF MatrixInv, MatrixTypeOK
  <1>3. matrix' = [line \in Lines |-> Swapped(matrix[line], r, n)]
    BY <1>1, <1>2 DEF Descramble, Column
  <1>4. /\ swaps' = SubSeq(swaps, 1, l) /\ Len(swaps') = l
        /\ swaps' \in Seq(Lines \X Lines)
        /\ \A k \in 1..l : swaps'[k] = swaps[k]
    BY <1>1 DEF Descramble, Column, MatrixInv, MatrixTypeOK
  <1>5. mpc' = mpc /\ mpc = "descramble" /\ original' = original /\ used' = used /\ used = Lines
    BY DEF Descramble, MatrixInv
  <1>6. matrix' \in Matrices
    <2>1. \A line \in Lines : Swapped(matrix[line], r, n) \in [Lines -> Elements]
      BY DEF Swapped, MatrixInv, MatrixTypeOK, Matrices
    <2> QED
      BY <1>3, <2>1 DEF Matrices
  <1>7. MatrixTypeOK'
    BY <1>4, <1>5, <1>6 DEF MatrixInv, MatrixTypeOK
  <1>8. ExchangedSoFar'
    <2>1. PICK ps : Chain(swaps, ps) /\ Exchanged(original, matrix, used, ps[Len(swaps)])
      BY <1>5 DEF MatrixInv, ExchangedSoFar
    <2>2. ps \in [0 .. l + 1 -> Arrangements]
      BY <1>1, <2>1 DEF Chain
    <2>3. PICK s \in Arrangements : s = ps[l + 1]
      BY <2>2
    <2>4. PICK t \in Arrangements : t = ps[l]
      BY <2>2
    <2>5. s = Swapped(t, r, n)
      <3>1. ps[l + 1] = Swapped(ps[l + 1 - 1], swaps[l + 1][1], swaps[l + 1][2])
        BY <1>1, <2>1 DEF Chain
      <3>2. l + 1 - 1 = l
        OBVIOUS
      <3> QED
        BY <1>2, <2>3, <2>4, <3>1, <3>2
    <2>6. PICK qs : qs = [k \in 0..l |-> ps[k]]
      OBVIOUS
    <2>7. Chain(swaps', qs)
      <3>1. qs \in [0..l -> Arrangements] /\ qs[0] = ps[0]
        BY <2>2, <2>6
      <3>2. ASSUME NEW k \in 1..l
            PROVE  qs[k] = Swapped(qs[k - 1], swaps'[k][1], swaps'[k][2])
        <4>1. qs[k] = ps[k] /\ qs[k - 1] = ps[k - 1] /\ swaps'[k] = swaps[k]
          BY <1>4, <2>6
        <4>2. ps[k] = Swapped(ps[k - 1], swaps[k][1], swaps[k][2])
          BY <1>1, <2>1 DEF Chain
        <4> QED
          BY <4>1, <4>2
      <3> QED
        BY <1>4, <2>1, <3>1, <3>2 DEF Chain
    <2>8. PICK a \in Matrices : a = original
      BY DEF MatrixInv, MatrixTypeOK
    <2>9. PICK m \in Matrices : m = matrix
      BY DEF MatrixInv, MatrixTypeOK
    <2>10. PICK k \in Matrices : k = matrix'
      BY <1>6
    <2>11. Exchanged(a, m, Lines, s)
      BY <1>1, <1>5, <2>1, <2>3, <2>8, <2>9
    <2>12. k = [line \in Lines |-> Swapped(m[line], r, n)]
      BY <1>3, <2>9, <2>10
    <2>13. Exchanged(a, k, Lines, t)
      BY <2>5, <2>11, <2>12, ColumnsExchange
    <2>14. qs[Len(swaps')] = t
      BY <1>4, <2>4, <2>6
    <2>15. Exchanged(original', matrix', used', qs[Len(swaps')])
      BY <1>5, <2>8, <2>10, <2>13, <2>14
    <2> QED
      BY <2>7, <2>15 DEF ExchangedSoFar
  <1> QED
    BY <1>5, <1>7, <1>8 DEF MatrixInv

LEMMA DescrambledInv == ASSUME MatrixInv, Descrambled PROVE MatrixInv'
  <1>1. Len(swaps) = 0 /\ used = Lines /\ mpc = "descramble"
    BY DEF Descrambled, MatrixInv
  <1>2. PICK ps : Chain(swaps, ps) /\ Exchanged(original, matrix, used, ps[Len(swaps)])
    BY <1>1 DEF MatrixInv, ExchangedSoFar
  <1>3. PICK s \in Arrangements : s = ps[0] /\ \A j \in Lines : s[j] = j
    BY <1>1, <1>2 DEF Chain, Arrangements
  <1>4. PICK a \in Matrices : a = original
    BY DEF MatrixInv, MatrixTypeOK
  <1>5. PICK m \in Matrices : m = matrix
    BY DEF MatrixInv, MatrixTypeOK
  <1>6. Exchanged(a, m, Lines, s)
    BY <1>1, <1>2, <1>3, <1>4, <1>5
  <1>7. Inverts(a, m)
    BY <1>3, <1>6, InvertsWhenBack
  <1>8. /\ mpc' = "inverted" /\ matrix' = matrix /\ original' = original
        /\ MatrixTypeOK'
    BY DEF Descrambled, MatrixInv, MatrixTypeOK
  <1>9. Inverts(original', matrix')
    BY <1>4, <1>5, <1>7, <1>8
  <1> QED
    BY <1>8, <1>9 DEF MatrixInv

LEMMA MatrixStepInv == ASSUME MatrixInv, MatrixNext PROVE MatrixInv'
  <1>1. CASE PivotOnDiagonal
    <2>1. PICK n \in Nat : n = Len(swaps)
      BY DEF MatrixInv, MatrixTypeOK
    <2>2. n \in Lines \ used /\ matrix[n][n] # 0 /\ Eliminate(n, n) /\ mpc = "pivot"
      BY <1>1, <2>1, OrderAssumption DEF PivotOnDiagonal, OnDiagonal, Column, Lines
    <2> QED
      BY <2>2, EliminateInv
  <1>2. CASE \E place \in Places : PivotFound(place)
    <2>1. PICK place \in Places : PivotFound(place)
      BY <1>2
    <2>2. PICK r \in Lines \ used : r = place[1]
      BY DEF Places
    <2>3. PICK n \in Lines \ used : n = place[2]
      BY DEF Places
    <2>4. matrix[r][n] # 0
      BY <2>2, <2>3 DEF Places
    <2>5. Eliminate(r, n) /\ mpc = "pivot"
      BY <2>1, <2>2, <2>3 DEF PivotFound
    <2> QED
      BY <2>4, <2>5, EliminateInv
  <1> QED
    BY <1>1, <1>2, PivotNotFoundInv, PivotsDoneInv, DescrambleInv, DescrambledInv
    DEF MatrixNext

LEMMA InvIsRight == MatrixInv => InverseRight
  <1>1. ASSUME MatrixInv, mpc = "inverted", NEW r \in Lines
        PROVE  RowTimes(matrix[r], original) = Unit(r)
    <2>1. PICK a \in Matrices : a = original
      BY <1>1 DEF MatrixInv, MatrixTypeOK
    <2>2. PICK m \in Matrices : m = matrix
      BY <1>1 DEF MatrixInv, MatrixTypeOK
    <2>3. Inverts(a, m)
      BY <1>1, <2>1, <2>2 DEF MatrixInv
    <2> QED
      BY <2>1, <2>2, <2>3, InverseOfInverts
  <1> QED
    BY <1>1 DEF MatrixInv, InverseRight

\* matrix_inv inverts every matrix that has an inverse, over any field of this kind.
THEOREM MatrixInverts == MatrixInverse => []InverseRight
  <1>1. (\E m \in Matrices : MatrixInit(m)) => MatrixInv
    BY MatrixInitInv
  <1>2. MatrixInv /\ [MatrixNext]_matrixVars => MatrixInv'
    <2>1. ASSUME MatrixInv, UNCHANGED matrixVars PROVE MatrixInv'
      BY <2>1 DEF matrixVars, MatrixInv, MatrixTypeOK, ExchangedSoFar
    <2> QED
      BY <2>1, MatrixStepInv
  <1> QED
    BY <1>1, <1>2, InvIsRight, PTL DEF MatrixInverse

-----------------------------------------------------------------------------
\* What a loop leaves that makes a step at a time.
Steps(g, x0, step, M) == g[0] = x0 /\ \A n \in 1..M : g[n] = step[n - 1][g[n - 1]]

LEMMA StepsExist ==
  ASSUME NEW M \in Nat, NEW X, NEW x0 \in X, NEW step \in [0 .. M - 1 -> [X -> X]]
  PROVE  \E g \in [0..M -> X] : Steps(g, x0, step, M)
  <1> USE DEF Steps
  <1> DEFINE Upto(g, m) == g \in [0..m -> X] /\ Steps(g, x0, step, m)
             T == {m \in 0..M : \E g : Upto(g, m)}
  <1>1. 0 \in T
    <2>1. PICK g : g = [n \in 0..0 |-> x0]
      OBVIOUS
    <2>2. g \in [0..0 -> X] /\ g[0] = x0
      BY <2>1
    <2>3. Upto(g, 0) /\ 0 \in 0..M
      BY <2>2
    <2> QED
      BY <2>3
  <1>2. ASSUME NEW m \in 1..M, m - 1 \in T PROVE m \in T
    <2>1. PICK g : Upto(g, m - 1)
      BY <1>2
    <2>2. PICK last \in X : last = step[m - 1][g[m - 1]]
      <3>1. g[m - 1] \in X /\ m - 1 \in 0 .. M - 1
        BY <2>1
      <3> QED
        BY <3>1
    <2>3. PICK h : h = [n \in 0..m |-> IF n = m THEN last ELSE g[n]]
      OBVIOUS
    <2>4. h \in [0..m -> X] /\ h[0] = x0
      BY <2>1, <2>3
    <2>5. ASSUME NEW n \in 1..m PROVE h[n] = step[n - 1][h[n - 1]]
      BY <2>1, <2>2, <2>3
    <2>6. Upto(h, m)
      BY <2>4, <2>5
    <2> QED
      BY <2>6
  <1> HIDE DEF T
  <1>3. 0..M \subseteq T
    BY <1>1, <1>2, InductionUpTo
  <1>4. M \in T
    BY <1>3
  <1>5. PICK g : Upto(g, M)
    BY <1>4 DEF T
  <1> QED
    BY <1>5

\* b is what synthetic division by the point x makes of d from the top, t, down.
Divides(b, d, x, t) ==
  /\ b \in Vectors /\ b[Order - 1] = t
  /\ \A j \in 1 .. Order - 1 : b[j - 1] = GF_ADD(d[j], GF_MUL(x, b[j]))

LEMMA DivisionExists ==
  ASSUME NEW d \in Vectors, NEW x \in Elements, NEW t \in Elements
  PROVE  \E b \in Vectors : Divides(b, d, x, t)
  <1>1. PICK M \in Nat : M = Order - 1
    BY OrderAssumption
  <1>2. PICK step : step = [n \in 0 .. M - 1 |->
                              [e \in Elements |-> GF_ADD(d[M - n], GF_MUL(x, e))]]
    OBVIOUS
  <1>3. step \in [0 .. M - 1 -> [Elements -> Elements]]
    <2>1. ASSUME NEW n \in 0 .. M - 1, NEW e \in Elements
          PROVE  GF_ADD(d[M - n], GF_MUL(x, e)) \in Elements
      <3>1. M - n \in Lines
        BY <1>1 DEF Lines
      <3>2. d[M - n] \in Elements
        BY <3>1 DEF Vectors
      <3> QED
        BY <3>2, AddType, MulType
    <2> QED
      BY <1>2, <2>1
  <1>4. PICK g \in [0..M -> Elements] : Steps(g, t, step, M)
    BY <1>3, StepsExist
  <1>5. PICK b \in Vectors : b = [j \in Lines |-> g[M - j]]
    <2>1. \A j \in Lines : M - j \in 0..M
      BY <1>1 DEF Lines
    <2> QED
      BY <2>1 DEF Vectors
  <1>6. b[Order - 1] = t
    BY <1>1, <1>4, <1>5 DEF Lines, Steps
  <1>7. ASSUME NEW j \in 1 .. Order - 1 PROVE b[j - 1] = GF_ADD(d[j], GF_MUL(x, b[j]))
    <2>1. PICK n \in 1..M : n = M - j + 1
      BY <1>1, <1>7
    <2>2. b[j - 1] = g[n] /\ b[j] = g[n - 1] /\ n - 1 \in 0 .. M - 1
      BY <1>1, <1>5, <2>1 DEF Lines
    <2>3. g[n - 1] \in Elements
      BY <2>2
    <2>4. step[n - 1][g[n - 1]] = GF_ADD(d[M - (n - 1)], GF_MUL(x, g[n - 1]))
      BY <1>2, <2>2, <2>3
    <2>5. M - (n - 1) = j
      BY <1>1, <2>1
    <2> QED
      BY <1>4, <2>2, <2>4, <2>5 DEF Steps
  <1> QED
    BY <1>6, <1>7 DEF Divides

\* The powers of a point, as a row of a Vandermonde matrix has them.
PowersOf(v, y) == /\ v \in Vectors /\ v[0] = 1
                  /\ \A j \in 1 .. Order - 1 : v[j] = GF_MUL(y, v[j - 1])

\* A polynomial's value at y, in terms of the quotient by x and its remainder.
LEMMA DivisionValue ==
  ASSUME NEW d \in Vectors, NEW x \in Elements, NEW t \in Elements, NEW b, Divides(b, d, x, t),
         NEW y \in Elements, NEW v, PowersOf(v, y)
  PROVE  Dot(d, v) = GF_ADD(GF_ADD(GF_ADD(d[0], GF_MUL(x, b[0])),
                                   GF_MUL(GF_ADD(x, y), Dot(b, v))),
                            GF_MUL(t, GF_MUL(y, v[Order - 1])))
  <1>1. b \in Vectors /\ v \in Vectors
    BY DEF Divides, PowersOf
  <1>2. PICK p \in Vectors : p = Products(d, v)
    BY <1>1, DotSigma
  <1>3. PICK q \in Vectors : q = Products(b, v)
    BY <1>1, DotSigma
  <1>4. PICK g : Partial(g, p, Order)
    BY PartialExists
  <1>5. PICK h : Partial(h, q, Order)
    BY PartialExists
  <1>6. 0 \in Lines /\ Order - 1 \in Lines /\ Order \in Nat \ {0}
    BY OrderAssumption DEF Lines
  <1>7. PICK r \in Elements : r = GF_ADD(d[0], GF_MUL(x, b[0]))
    <2>1. d[0] \in Elements /\ b[0] \in Elements
      BY <1>1, <1>6 DEF Vectors
    <2> QED
      BY <2>1, AddType, MulType
  <1>8. PICK s \in Elements : s = GF_ADD(x, y)
    BY AddType
  \* The claim for the first n terms, n = 1 and more.
  <1> DEFINE Right(n) == g[n] = GF_ADD(GF_ADD(r, GF_MUL(s, h[n])),
                                       GF_MUL(b[n - 1], GF_MUL(y, v[n - 1])))
             T == {n \in 0 .. Order - 1 : Right(n + 1)}
  <1>9. 0 \in T
    <2>1. PICK d0 \in Elements : d0 = d[0]
      BY <1>6 DEF Vectors
    <2>2. PICK b0 \in Elements : b0 = b[0]
      BY <1>1, <1>6 DEF Vectors
    <2>3. v[0] = 1
      BY DEF PowersOf
    <2>4. p[0] = d0 /\ q[0] = b0
      BY <1>2, <1>3, <1>6, <2>1, <2>2, <2>3, Constants DEF Products
    <2>5. g[1] = GF_ADD(g[1 - 1], p[1 - 1]) /\ g[0] = 0 /\ h[1] = GF_ADD(h[1 - 1], q[1 - 1]) /\ h[0] = 0
      BY <1>4, <1>5, <1>6 DEF Partial
    <2>6. g[1] = d0 /\ h[1] = b0
      BY <2>4, <2>5, Constants
    <2>7. PICK xb \in Elements : xb = GF_MUL(x, b0)
      BY MulType
    <2>8. PICK yb \in Elements : yb = GF_MUL(y, b0) /\ yb = GF_MUL(b0, y)
      BY MulType, MulCommutes
    <2>9. GF_MUL(s, b0) = GF_ADD(xb, yb)
      <3>1. GF_MUL(b0, GF_ADD(x, y)) = GF_ADD(GF_MUL(b0, x), GF_MUL(b0, y))
        BY Distributes
      <3> QED
        BY <1>8, <2>7, <2>8, <3>1, MulCommutes
    <2>10. r = GF_ADD(d0, xb)
      BY <1>7, <2>1, <2>2, <2>7
    <2>11. GF_ADD(GF_ADD(GF_ADD(d0, xb), GF_ADD(xb, yb)), yb) = d0
      <3>1. GF_ADD(GF_ADD(d0, xb), GF_ADD(xb, yb)) = GF_ADD(d0, yb)
        <4>1. GF_ADD(GF_ADD(d0, xb), GF_ADD(xb, yb)) = GF_ADD(d0, GF_ADD(xb, GF_ADD(xb, yb)))
          BY AddAssociates, AddType
        <4> QED
          BY <4>1, AddTwice
      <3> QED
        BY <3>1, AddTwice
    <2>12. GF_MUL(b[0], GF_MUL(y, v[0])) = yb
      BY <2>2, <2>3, <2>8, Constants
    <2>13. Right(0 + 1)
      BY <2>6, <2>9, <2>10, <2>11, <2>12
    <2> QED
      BY <1>6, <2>13
  <1>10. ASSUME NEW m \in 1 .. Order - 1, m - 1 \in T PROVE m \in T
    <2>1. m \in Lines /\ m - 1 \in Lines /\ m \in 1..Order /\ m + 1 \in 1..Order
      BY OrderAssumption DEF Lines
    <2>2. g[m] = GF_ADD(GF_ADD(r, GF_MUL(s, h[m])), GF_MUL(b[m - 1], GF_MUL(y, v[m - 1])))
      BY <1>10, m - 1 + 1 = m
    <2>3. PICK dm \in Elements : dm = d[m]
      BY <2>1 DEF Vectors
    <2>4. PICK bm \in Elements : bm = b[m]
      BY <1>1, <2>1 DEF Vectors
    <2>5. PICK vm \in Elements : vm = v[m] /\ vm = GF_MUL(y, v[m - 1])
      BY <1>1, <2>1 DEF Vectors, PowersOf
    <2>6. PICK xb \in Elements : xb = GF_MUL(x, bm)
      BY MulType
    <2>7. b[m - 1] = GF_ADD(dm, xb)
      BY <1>10, <2>3, <2>4, <2>6 DEF Divides
    <2>8. PICK hm \in Elements : hm = h[m]
      BY <1>5, <2>1 DEF Partial
    <2>9. PICK rsh \in Elements : rsh = GF_ADD(r, GF_MUL(s, hm))
      BY AddType, MulType
    <2>10. p[m] = GF_MUL(dm, vm) /\ q[m] = GF_MUL(bm, vm)
      BY <1>2, <1>3, <2>1, <2>3, <2>4, <2>5 DEF Products
    <2>11. PICK dv \in Elements : dv = GF_MUL(dm, vm)
      BY MulType
    <2>12. PICK xbv \in Elements : xbv = GF_MUL(xb, vm)
      BY MulType
    <2>13. PICK bv \in Elements : bv = GF_MUL(bm, vm)
      BY MulType
    <2>14. g[m] = GF_ADD(rsh, GF_ADD(dv, xbv))
      <3>1. GF_MUL(GF_ADD(dm, xb), vm) = GF_ADD(dv, xbv)
        <4>1. GF_MUL(vm, GF_ADD(dm, xb)) = GF_ADD(GF_MUL(vm, dm), GF_MUL(vm, xb))
          BY Distributes
        <4>2. GF_ADD(dm, xb) \in Elements
          BY AddType
        <4> QED
          BY <2>11, <2>12, <4>1, <4>2, MulCommutes
      <3> QED
        BY <2>2, <2>5, <2>7, <2>8, <2>9, <3>1
    <2>15. g[m + 1] = GF_ADD(g[m], dv) /\ h[m + 1] = GF_ADD(hm, bv)
      <3>1. g[m + 1] = GF_ADD(g[m + 1 - 1], p[m + 1 - 1]) /\ h[m + 1] = GF_ADD(h[m + 1 - 1], q[m + 1 - 1])
        BY <1>4, <1>5, <2>1 DEF Partial
      <3>2. m + 1 - 1 = m
        OBVIOUS
      <3> QED
        BY <2>8, <2>10, <2>11, <2>13, <3>1, <3>2
    <2>16. g[m + 1] = GF_ADD(rsh, xbv)
      <3>1. PICK dx \in Elements : dx = GF_ADD(dv, xbv)
        BY AddType
      <3>2. GF_ADD(GF_ADD(rsh, dx), dv) = GF_ADD(rsh, GF_ADD(dx, dv))
        BY AddAssociates
      <3>3. GF_ADD(dx, dv) = xbv
        BY <3>1, AddTwice
      <3> QED
        BY <2>14, <2>15, <3>1, <3>2, <3>3
    <2>17. PICK ybv \in Elements : ybv = GF_MUL(bm, GF_MUL(y, vm))
      BY MulType
    <2>18. GF_MUL(s, bv) = GF_ADD(xbv, ybv)
      <3>1. GF_MUL(bv, GF_ADD(x, y)) = GF_ADD(GF_MUL(bv, x), GF_MUL(bv, y))
        BY Distributes
      <3>2. GF_MUL(bv, x) = xbv
        <4>1. GF_MUL(x, GF_MUL(bm, vm)) = GF_MUL(GF_MUL(x, bm), vm)
          BY MulAssociates
        <4> QED
          BY <2>6, <2>12, <2>13, <4>1, MulCommutes
      <3>3. GF_MUL(bv, y) = ybv
        <4>1. GF_MUL(GF_MUL(bm, vm), y) = GF_MUL(bm, GF_MUL(vm, y))
          BY MulAssociates
        <4> QED
          BY <2>13, <2>17, <4>1, MulCommutes
      <3> QED
        BY <1>8, <3>1, <3>2, <3>3, MulCommutes
    <2>19. GF_MUL(s, h[m + 1]) = GF_ADD(GF_MUL(s, hm), GF_ADD(xbv, ybv))
      BY <2>15, <2>18, Distributes
    <2>20. GF_ADD(GF_ADD(r, GF_MUL(s, h[m + 1])), ybv) = GF_ADD(rsh, xbv)
      <3>1. PICK sh \in Elements : sh = GF_MUL(s, hm)
        BY MulType
      <3>2. PICK xy \in Elements : xy = GF_ADD(xbv, ybv)
        BY AddType
      <3>3. GF_ADD(r, GF_ADD(sh, xy)) = GF_ADD(rsh, xy)
        BY <2>9, <3>1, AddAssociates
      <3>4. GF_ADD(GF_ADD(rsh, xy), ybv) = GF_ADD(rsh, GF_ADD(xy, ybv))
        BY AddAssociates
      <3>5. GF_ADD(xy, ybv) = xbv
        BY <3>2, AddTwice
      <3> QED
        BY <2>19, <3>1, <3>2, <3>3, <3>4, <3>5
    <2>21. Right(m + 1)
      <3>1. GF_MUL(b[m + 1 - 1], GF_MUL(y, v[m + 1 - 1])) = ybv
        <4>1. m + 1 - 1 = m
          OBVIOUS
        <4> QED
          BY <2>4, <2>5, <2>17, <4>1
      <3> QED
        BY <2>16, <2>20, <3>1
    <2> QED
      BY <2>21
  <1> HIDE DEF T
  <1>11. Order - 1 \in T
    <2>1. Order - 1 \in Nat
      BY <1>6
    <2>2. 0 .. Order - 1 \subseteq T
      BY <1>9, <1>10, <2>1, InductionUpTo
    <2> QED
      BY <2>1, <2>2
  <1>12. g[Order] = GF_ADD(GF_ADD(r, GF_MUL(s, h[Order])), GF_MUL(b[Order - 1], GF_MUL(y, v[Order - 1])))
    <2>1. Order - 1 + 1 = Order
      BY <1>6
    <2> QED
      BY <1>11, <2>1 DEF T
  <1>13. Dot(d, v) = g[Order] /\ Dot(b, v) = h[Order]
    BY <1>1, <1>2, <1>3, <1>4, <1>5, DotSigma, SigmaIs
  <1> QED
    BY <1>7, <1>8, <1>12, <1>13 DEF Divides

LEMMA NoZeroDivisors ==
  ASSUME NEW x \in Elements, NEW y \in Elements, x # 0, GF_MUL(x, y) = 0
  PROVE  y = 0
  <1>1. PICK i \in Elements : GF_MUL(i, x) = 1
    BY Inverses
  <1>2. GF_MUL(i, GF_MUL(x, y)) = GF_MUL(GF_MUL(i, x), y)
    BY MulAssociates
  <1> QED
    BY <1>1, <1>2, Constants

\* The rows of a Vandermonde matrix: the powers of different points.
Points(v, pts) == /\ v \in Matrices /\ pts \in [Lines -> Elements]
                  /\ \A l \in Lines : PowersOf(v[l], pts[l])
                  /\ \A l, m \in Lines : pts[l] = pts[m] => l = m

\* a has no coefficient of x^n or more, and the first n points are its roots.
RootsOf(a, v, n) == /\ a \in Vectors
                    /\ \A j \in Lines : j >= n => a[j] = 0
                    /\ \A l \in Lines : l < n => Dot(a, v[l]) = 0

LEMMA ZeroIs == ASSUME NEW a \in Vectors, \A j \in Lines : a[j] = 0 PROVE a = Zero
  BY DEF Vectors, Zero

\* The quotient by the last point has a root less, and a coefficient less.
LEMMA OneRootLess ==
  ASSUME NEW v, NEW pts, Points(v, pts), NEW n \in 1..Order, NEW a, RootsOf(a, v, n),
         NEW b, Divides(b, a, pts[n - 1], 0)
  PROVE  RootsOf(b, v, n - 1) /\ (b = Zero => a = Zero)
  <1>1. a \in Vectors /\ b \in Vectors
    BY DEF RootsOf, Divides
  <1>2. n - 1 \in Lines /\ 0 \in Lines /\ Order - 1 \in Lines /\ Order - 1 \in Nat
    BY OrderAssumption DEF Lines
  <1>3. PICK x \in Elements : x = pts[n - 1]
    BY <1>2 DEF Points
  <1>4. PICK r \in Elements : r = GF_ADD(a[0], GF_MUL(x, b[0]))
    <2>1. a[0] \in Elements /\ b[0] \in Elements
      BY <1>1, <1>2 DEF Vectors
    <2> QED
      BY <2>1, AddType, MulType
  <1>5. ASSUME NEW l \in Lines
        PROVE  /\ v[l] \in Vectors /\ pts[l] \in Elements /\ Dot(b, v[l]) \in Elements
               /\ Dot(a, v[l]) = GF_ADD(r, GF_MUL(GF_ADD(x, pts[l]), Dot(b, v[l])))
    <2>1. v[l] \in Vectors /\ pts[l] \in Elements /\ PowersOf(v[l], pts[l])
      BY DEF Points, PowersOf
    <2>2. Dot(b, v[l]) \in Elements
      BY <1>1, <2>1, DotSigma
    <2>3. PICK z \in Elements : z = GF_MUL(pts[l], v[l][Order - 1])
      <3>1. v[l][Order - 1] \in Elements
        BY <1>2, <2>1 DEF Vectors
      <3> QED
        BY <2>1, <3>1, MulType
    <2>4. Dot(a, v[l]) = GF_ADD(GF_ADD(r, GF_MUL(GF_ADD(x, pts[l]), Dot(b, v[l]))), GF_MUL(0, z))
      BY <1>1, <1>3, <1>4, <2>1, <2>3, DivisionValue, Constants
    <2>5. GF_MUL(GF_ADD(x, pts[l]), Dot(b, v[l])) \in Elements
      BY <2>1, <2>2, AddType, MulType
    <2> QED
      BY <2>1, <2>2, <2>4, <2>5, AddType, Constants
  <1>6. r = 0
    <2>1. Dot(a, v[n - 1]) = 0
      BY <1>2 DEF RootsOf
    <2>2. GF_ADD(x, pts[n - 1]) = 0
      BY <1>3, Constants
    <2> QED
      BY <1>2, <1>5, <2>1, <2>2, Constants
  <1>7. ASSUME NEW l \in Lines, l < n - 1 PROVE Dot(b, v[l]) = 0
    <2>1. Dot(a, v[l]) = 0
      BY <1>7 DEF RootsOf, Lines
    <2>2. PICK s \in Elements : s = GF_ADD(x, pts[l])
      BY <1>5, AddType
    <2>3. s # 0
      <3>1. x # pts[l]
        BY <1>2, <1>3, <1>7 DEF Points
      <3> QED
        BY <1>5, <2>2, <3>1, SumZeroOnlyOfEqual
    <2>4. GF_MUL(s, Dot(b, v[l])) \in Elements
      BY <1>5, MulType
    <2>5. GF_MUL(s, Dot(b, v[l])) = 0
      BY <1>5, <1>6, <2>1, <2>2, <2>4, Constants
    <2> QED
      BY <1>5, <2>3, <2>5, NoZeroDivisors
  <1>8. \A j \in Lines : j >= n - 1 => b[j] = 0
    <2> DEFINE T == {k \in 0 .. Order - 1 : Order - 1 - k >= n - 1 => b[Order - 1 - k] = 0}
    <2>1. 0 \in T
      BY <1>2 DEF Divides
    <2>2. ASSUME NEW k \in 1 .. Order - 1, k - 1 \in T PROVE k \in T
      <3> SUFFICES ASSUME Order - 1 - k >= n - 1 PROVE b[Order - 1 - k] = 0
        OBVIOUS
      <3>1. PICK j \in 1 .. Order - 1 : j = Order - k
        BY OrderAssumption
      <3>2. b[j - 1] = GF_ADD(a[j], GF_MUL(x, b[j]))
        BY <1>3 DEF Divides
      <3>3. b[j] = 0 /\ a[j] = 0
        BY <2>2, <3>1, OrderAssumption DEF RootsOf, Lines
      <3>4. b[j - 1] = 0
        BY <3>2, <3>3, Constants
      <3>5. j - 1 = Order - 1 - k
        BY <3>1, OrderAssumption
      <3> QED
        BY <3>4, <3>5
    <2> HIDE DEF T
    <2>3. 0 .. Order - 1 \subseteq T
      BY <1>2, <2>1, <2>2, InductionUpTo
    <2>4. ASSUME NEW j \in Lines, j >= n - 1 PROVE b[j] = 0
      <3>1. PICK k \in 0 .. Order - 1 : k = Order - 1 - j /\ Order - 1 - k = j
        BY <1>2 DEF Lines
      <3>2. k \in T
        BY <2>3
      <3> QED
        BY <2>4, <3>1, <3>2 DEF T
    <2> QED
      BY <2>4
  <1>9. ASSUME b = Zero PROVE a = Zero
    <2>1. \A j \in Lines : b[j] = 0
      BY <1>9 DEF Zero
    <2>2. ASSUME NEW j \in Lines PROVE a[j] = 0
      <3>1. PICK e \in Elements : e = a[j]
        BY <1>1 DEF Vectors
      <3>2. CASE j = 0
        BY <1>2, <1>4, <1>6, <2>1, <3>1, <3>2, Constants, ZenonT(40)
      <3>3. CASE j # 0
        <4>1. j \in 1 .. Order - 1 /\ j - 1 \in Lines
          BY <3>3, OrderAssumption DEF Lines
        <4>2. b[j - 1] = GF_ADD(a[j], GF_MUL(x, b[j]))
          BY <1>3, <4>1 DEF Divides
        <4> QED
          BY <2>1, <3>1, <4>1, <4>2, Constants
      <3> QED
        BY <3>2, <3>3
    <2> QED
      BY <1>1, <2>2, ZeroIs
  <1> QED
    BY <1>1, <1>7, <1>8, <1>9 DEF RootsOf

\* A polynomial with as many roots as coefficients is 0: no vector but Zero is taken to
\* Zero by the powers of different points.
LEMMA TooManyRoots ==
  ASSUME NEW v, NEW pts, Points(v, pts), NEW a \in Vectors, \A l \in Lines : Dot(a, v[l]) = 0
  PROVE  a = Zero
  <1> DEFINE T == {n \in 0..Order : \A c \in Vectors : RootsOf(c, v, n) => c = Zero}
  <1>1. 0 \in T
    <2>1. ASSUME NEW c \in Vectors, RootsOf(c, v, 0) PROVE c = Zero
      <3>1. \A j \in Lines : c[j] = 0
        BY <2>1 DEF RootsOf, Lines
      <3> QED
        BY <3>1, ZeroIs
    <2> QED
      BY <2>1, OrderAssumption
  <1>2. ASSUME NEW n \in 1..Order, n - 1 \in T PROVE n \in T
    <2>1. ASSUME NEW c \in Vectors, RootsOf(c, v, n) PROVE c = Zero
      <3>1. pts[n - 1] \in Elements
        BY OrderAssumption DEF Points, Lines
      <3>2. PICK o \in Elements : o = 0
        BY Constants
      <3>3. PICK b \in Vectors : Divides(b, c, pts[n - 1], o)
        BY <3>1, DivisionExists
      <3>4. RootsOf(b, v, n - 1) /\ (b = Zero => c = Zero)
        BY <2>1, <3>2, <3>3, OneRootLess
      <3>5. b = Zero
        BY <1>2, <3>4
      <3> QED
        BY <3>4, <3>5
    <2> QED
      BY <2>1
  <1> HIDE DEF T
  <1>3. 0..Order \subseteq T
    BY <1>1, <1>2, InductionUpTo, OrderAssumption
  <1>4. Order \in T
    BY <1>3, OrderAssumption
  <1>5. RootsOf(a, v, Order)
    <2>1. \A j \in Lines : ~(j >= Order)
      BY OrderAssumption DEF Lines
    <2> QED
      BY <2>1 DEF RootsOf
  <1> QED
    BY <1>4, <1>5 DEF T

-----------------------------------------------------------------------------
\* What comes after b[j] in the division of c by y from the top: b[j - 1], or after b[0]
\* the remainder.
Below(c, b, y, j) == GF_ADD(c[j], GF_MUL(y, b[j]))

LEMMA BelowType ==
  ASSUME NEW c \in Vectors, NEW b \in Vectors, NEW y \in Elements, NEW j \in Lines
  PROVE  Below(c, b, y, j) \in Elements
  <1>1. c[j] \in Elements /\ b[j] \in Elements
    BY DEF Vectors
  <1> QED
    BY <1>1, AddType, MulType DEF Below

\* TimesPoint, the coefficients above it all 0.
LEMMA TimesPointIs ==
  ASSUME NEW c \in Vectors, NEW p \in Elements, NEW i \in 1 .. Order - 1,
         \A j \in Lines : j < Order - i => c[j] = 0
  PROVE  /\ TimesPoint(c, p, i) \in Vectors
         /\ TimesPoint(c, p, i)[Order - 1] = GF_ADD(c[Order - 1], p)
         /\ \A j \in Lines : j < Order - 1 =>
              TimesPoint(c, p, i)[j] = GF_ADD(c[j], GF_MUL(p, c[j + 1]))
         /\ \A j \in Lines : j < Order - 1 - i => TimesPoint(c, p, i)[j] = 0
  <1>1. PICK d : d = TimesPoint(c, p, i)
    OBVIOUS
  <1>2. Order - 1 \in Lines
    BY OrderAssumption DEF Lines
  <1>3. d[Order - 1] = GF_ADD(c[Order - 1], p)
    <2>1. PICK last \in Lines : last = Order - 1
      BY <1>2
    <2>2. ~(last < Order - 1)
      BY <2>1, OrderAssumption
    <2>3. d[last] = GF_ADD(c[last], p)
      BY <1>1, <2>1, <2>2 DEF TimesPoint
    <2> QED
      BY <2>1, <2>3
  <1>4. ASSUME NEW j \in Lines, j < Order - 1
        PROVE  /\ d[j] = GF_ADD(c[j], GF_MUL(p, c[j + 1])) /\ j + 1 \in Lines
               /\ j < Order - 1 - i => d[j] = 0
    <2>1. j # Order - 1 /\ j + 1 \in Lines
      BY <1>4, OrderAssumption DEF Lines
    <2>2. CASE j >= Order - 1 - i
      <3>1. ~(j < Order - 1 - i)
        BY <2>2, OrderAssumption DEF Lines
      <3>2. d[j] = GF_ADD(c[j], GF_MUL(p, c[j + 1]))
        BY <1>1, <1>4, <2>1, <2>2 DEF TimesPoint
      <3> QED
        BY <2>1, <3>1, <3>2
    <2>3. CASE ~(j >= Order - 1 - i)
      <3>1. d[j] = c[j]
        BY <1>1, <2>1, <2>3 DEF TimesPoint
      <3>2. c[j] = 0 /\ c[j + 1] = 0
        BY <2>1, <2>3, OrderAssumption DEF Lines
      <3>3. GF_ADD(c[j], GF_MUL(p, c[j + 1])) = 0
        BY <3>2, Constants
      <3> QED
        BY <2>1, <3>1, <3>2, <3>3
    <2> QED
      BY <2>2, <2>3
  <1>5. ASSUME NEW j \in Lines PROVE d[j] \in Elements
    <2>1. CASE j = Order - 1
      <3>1. c[j] \in Elements
        BY DEF Vectors
      <3> QED
        BY <1>3, <2>1, <3>1, AddType
    <2>2. CASE j # Order - 1
      <3>1. j < Order - 1
        BY <2>2, OrderAssumption DEF Lines
      <3>2. d[j] = GF_ADD(c[j], GF_MUL(p, c[j + 1])) /\ j + 1 \in Lines
        BY <1>4, <3>1
      <3>3. c[j] \in Elements /\ c[j + 1] \in Elements
        BY <3>2 DEF Vectors
      <3> QED
        BY <3>2, <3>3, AddType, MulType
    <2> QED
      BY <2>1, <2>2
  <1>6. d = [j \in Lines |-> d[j]]
    BY <1>1 DEF TimesPoint
  <1>7. d \in Vectors
    BY <1>5, <1>6 DEF Vectors
  <1>8. \A j \in Lines : j < Order - 1 - i => j < Order - 1
    BY OrderAssumption DEF Lines
  <1> QED
    BY <1>1, <1>3, <1>4, <1>7, <1>8

\* The division of the product with one factor more.
LEMMA FactorDivides ==
  ASSUME NEW c \in Vectors, NEW p \in Elements, NEW i \in 1 .. Order - 1, NEW y \in Elements,
         \A j \in Lines : j < Order - i => c[j] = 0,
         NEW b, Divides(b, c, y, 1), NEW b2, Divides(b2, TimesPoint(c, p, i), y, 1)
  PROVE  Below(TimesPoint(c, p, i), b2, y, Order - 1 - i) = GF_MUL(GF_ADD(y, p), Below(c, b, y, Order - i))
  <1>1. PICK c2 \in Vectors :
          /\ c2 = TimesPoint(c, p, i)
          /\ c2[Order - 1] = GF_ADD(c[Order - 1], p)
          /\ \A j \in Lines : j < Order - 1 => c2[j] = GF_ADD(c[j], GF_MUL(p, c[j + 1]))
    BY TimesPointIs
  <1>2. b \in Vectors /\ b2 \in Vectors /\ b[Order - 1] = 1 /\ b2[Order - 1] = 1
    BY DEF Divides
  <1>3. \A j \in 1 .. Order - 1 : b[j - 1] = Below(c, b, y, j) /\ b2[j - 1] = Below(c2, b2, y, j)
    BY <1>1 DEF Divides, Below
  <1> DEFINE Same(j) == Below(c2, b2, y, j) = GF_ADD(Below(c, b, y, j), GF_MUL(p, b[j]))
             T == {k \in 0 .. Order - 1 : Same(Order - 1 - k)}
  <1>4. 0 \in T
    <2>1. Order - 1 \in Lines /\ Order - 1 - 0 = Order - 1 /\ 0 \in 0 .. Order - 1
      BY OrderAssumption DEF Lines
    <2>2. PICK e \in Elements : e = c[Order - 1]
      BY <2>1 DEF Vectors
    <2>3. Below(c2, b2, y, Order - 1) = GF_ADD(GF_ADD(e, p), y)
      BY <1>1, <1>2, <2>2, Constants DEF Below
    <2>4. GF_ADD(Below(c, b, y, Order - 1), GF_MUL(p, b[Order - 1])) = GF_ADD(GF_ADD(e, y), p)
      BY <1>2, <2>2, Constants DEF Below
    <2>5. GF_ADD(GF_ADD(e, p), y) = GF_ADD(GF_ADD(e, y), p)
      <3>1. GF_ADD(GF_ADD(e, p), y) = GF_ADD(e, GF_ADD(p, y))
        BY AddAssociates
      <3>2. GF_ADD(GF_ADD(e, y), p) = GF_ADD(e, GF_ADD(y, p))
        BY AddAssociates
      <3> QED
        BY <3>1, <3>2, AddCommutes
    <2>6. Same(Order - 1 - 0)
      BY <2>1, <2>3, <2>4, <2>5
    <2> QED
      BY <2>1, <2>6
  <1>5. ASSUME NEW k \in 1 .. Order - 1, k - 1 \in T PROVE k \in T
    <2>1. PICK j \in Lines : /\ j = Order - 1 - k /\ j < Order - 1
                             /\ j + 1 \in Lines /\ j + 1 \in 1 .. Order - 1
                             /\ Order - 1 - (k - 1) = j + 1 /\ j + 1 - 1 = j
      BY OrderAssumption DEF Lines
    <2>2. Below(c2, b2, y, j + 1) = GF_ADD(Below(c, b, y, j + 1), GF_MUL(p, b[j + 1]))
      BY <1>5, <2>1
    <2>3. PICK u \in Elements : u = c[j]
      BY DEF Vectors
    <2>4. PICK w \in Elements : w = c[j + 1]
      BY <2>1 DEF Vectors
    <2>5. PICK z \in Elements : z = b[j + 1]
      BY <1>2, <2>1 DEF Vectors
    <2>6. PICK x \in Elements : x = b[j] /\ x = GF_ADD(w, GF_MUL(y, z))
      <3>1. b[j] \in Elements
        BY <1>2 DEF Vectors
      <3>2. b[j] = Below(c, b, y, j + 1)
        BY <1>3, <2>1
      <3> QED
        BY <2>4, <2>5, <3>1, <3>2 DEF Below
    <2>7. b2[j] = GF_ADD(x, GF_MUL(p, z))
      <3>1. b2[j] = Below(c2, b2, y, j + 1) /\ b[j] = Below(c, b, y, j + 1)
        BY <1>3, <2>1
      <3> QED
        BY <2>2, <2>5, <2>6, <3>1
    <2>8. PICK pw \in Elements : pw = GF_MUL(p, w)
      BY MulType
    <2>9. PICK yx \in Elements : yx = GF_MUL(y, x)
      BY MulType
    <2>10. PICK ypz \in Elements : ypz = GF_MUL(y, GF_MUL(p, z)) /\ ypz = GF_MUL(p, GF_MUL(y, z))
      <3>1. GF_MUL(y, GF_MUL(p, z)) = GF_MUL(GF_MUL(y, p), z)
        BY MulAssociates
      <3>2. GF_MUL(p, GF_MUL(y, z)) = GF_MUL(GF_MUL(p, y), z)
        BY MulAssociates
      <3>3. GF_MUL(y, GF_MUL(p, z)) \in Elements
        BY MulType
      <3> QED
        BY <3>1, <3>2, <3>3, MulCommutes
    <2>11. Below(c2, b2, y, j) = GF_ADD(GF_ADD(u, pw), GF_ADD(yx, ypz))
      <3>1. c2[j] = GF_ADD(u, pw)
        BY <1>1, <2>1, <2>3, <2>4, <2>8
      <3>2. GF_MUL(y, GF_ADD(x, GF_MUL(p, z))) = GF_ADD(yx, ypz)
        <4>1. PICK pz \in Elements : pz = GF_MUL(p, z)
          BY MulType
        <4>2. GF_MUL(y, GF_ADD(x, pz)) = GF_ADD(GF_MUL(y, x), GF_MUL(y, pz))
          BY Distributes
        <4> QED
          BY <2>9, <2>10, <4>1, <4>2
      <3> QED
        BY <2>7, <3>1, <3>2 DEF Below
    <2>12. GF_ADD(Below(c, b, y, j), GF_MUL(p, b[j])) = GF_ADD(GF_ADD(u, yx), GF_ADD(pw, ypz))
      <3>1. Below(c, b, y, j) = GF_ADD(u, yx)
        BY <2>3, <2>6, <2>9 DEF Below
      <3>2. GF_MUL(p, x) = GF_ADD(pw, ypz)
        <4>1. PICK yz \in Elements : yz = GF_MUL(y, z)
          BY MulType
        <4>2. GF_MUL(p, GF_ADD(w, yz)) = GF_ADD(GF_MUL(p, w), GF_MUL(p, yz))
          BY Distributes
        <4> QED
          BY <2>6, <2>8, <2>10, <4>1, <4>2
      <3> QED
        BY <2>6, <3>1, <3>2
    <2>13. GF_ADD(GF_ADD(u, pw), GF_ADD(yx, ypz)) = GF_ADD(GF_ADD(u, yx), GF_ADD(pw, ypz))
      BY AddPairs
    <2>14. Same(j)
      BY <2>11, <2>12, <2>13
    <2> QED
      BY <2>1, <2>14
  <1> HIDE DEF T
  <1>6. 0 .. Order - 1 \subseteq T
    <2>1. Order - 1 \in Nat
      BY OrderAssumption
    <2> QED
      BY <1>4, <1>5, <2>1, InductionUpTo
  <1>7. PICK j \in Lines : /\ j = Order - 1 - i /\ j + 1 = Order - i
                           /\ j + 1 \in 1 .. Order - 1 /\ j + 1 - 1 = j /\ j < Order - i
    BY OrderAssumption DEF Lines
  <1>8. Same(j)
    <2>1. i \in T
      BY <1>6, OrderAssumption
    <2> QED
      BY <1>7, <2>1 DEF T
  <1>9. PICK x \in Elements : x = b[j]
    BY <1>2 DEF Vectors
  <1>10. Below(c, b, y, j) = GF_MUL(y, x)
    <2>1. c[j] = 0
      BY <1>7
    <2>2. GF_MUL(y, x) \in Elements
      BY MulType
    <2> QED
      BY <1>9, <2>1, <2>2, Constants DEF Below
  <1>11. GF_ADD(GF_MUL(y, x), GF_MUL(p, x)) = GF_MUL(GF_ADD(y, p), x)
    <2>1. GF_MUL(x, GF_ADD(y, p)) = GF_ADD(GF_MUL(x, y), GF_MUL(x, p))
      BY Distributes
    <2>2. GF_ADD(y, p) \in Elements
      BY AddType
    <2> QED
      BY <2>1, <2>2, MulCommutes
  <1>12. x = Below(c, b, y, Order - i)
    BY <1>3, <1>7, <1>9
  <1> QED
    BY <1>1, <1>7, <1>8, <1>9, <1>10, <1>11, <1>12

LEMMA TimesPointType ==
  ASSUME NEW c \in Vectors, NEW p \in Elements, NEW i \in 1 .. Order - 1
  PROVE  TimesPoint(c, p, i) \in Vectors
  <1>1. PICK d : d = TimesPoint(c, p, i)
    OBVIOUS
  <1>2. ASSUME NEW j \in Lines PROVE d[j] \in Elements
    <2>1. PICK e \in Elements : e = c[j]
      BY DEF Vectors
    <2>2. CASE j = Order - 1
      <3>1. ~(j < Order - 1)
        BY <2>2, OrderAssumption
      <3>2. d[j] = GF_ADD(e, p)
        BY <1>1, <2>1, <2>2, <3>1 DEF TimesPoint
      <3> QED
        BY <3>2, AddType
    <2>3. CASE j # Order - 1 /\ j >= Order - 1 - i
      <3>1. j < Order - 1 /\ j + 1 \in Lines
        BY <2>3, OrderAssumption DEF Lines
      <3>2. PICK f \in Elements : f = c[j + 1]
        BY <3>1 DEF Vectors
      <3>3. d[j] = GF_ADD(e, GF_MUL(p, f))
        BY <1>1, <2>1, <2>3, <3>1, <3>2 DEF TimesPoint
      <3> QED
        BY <3>3, AddType, MulType
    <2>4. CASE j # Order - 1 /\ ~(j >= Order - 1 - i)
      BY <1>1, <2>1, <2>4 DEF TimesPoint
    <2> QED
      BY <2>2, <2>3, <2>4
  <1>3. d = [j \in Lines |-> d[j]]
    BY <1>1 DEF TimesPoint
  <1>4. d \in Vectors
    BY <1>2, <1>3 DEF Vectors
  <1> QED
    BY <1>1, <1>4

\* The products that Coefficients goes through.
Builds(h, p) == /\ h[0] = [Zero EXCEPT ![Order - 1] = p[0]]
                /\ \A i \in 1 .. Order - 1 : h[i] = TimesPoint(h[i - 1], p[i], i)

LEMMA CoefficientsBuilt ==
  ASSUME NEW p \in [Lines -> Elements]
  PROVE  \E h : Builds(h, p) /\ Coefficients(p) = h[Order - 1]
  <1> DEFINE C[i \in Lines] == IF i = 0 THEN [Zero EXCEPT ![Order - 1] = p[0]]
                               ELSE TimesPoint(C[i - 1], p[i], i)
             Body(f) == [i \in Lines |-> IF i = 0 THEN [Zero EXCEPT ![Order - 1] = p[0]]
                                         ELSE TimesPoint(f[i - 1], p[i], i)]
  <1>1. PICK M \in Nat : M = Order - 1
    BY OrderAssumption
  <1>2. PICK x0 \in Vectors : x0 = [Zero EXCEPT ![Order - 1] = p[0]]
    <2>1. p[0] \in Elements
      BY OrderAssumption DEF Lines
    <2> QED
      BY <2>1, UnitIs DEF Vectors
  <1>3. PICK step : step = [n \in 0 .. M - 1 |-> [e \in Vectors |-> TimesPoint(e, p[n + 1], n + 1)]]
    OBVIOUS
  <1>4. step \in [0 .. M - 1 -> [Vectors -> Vectors]]
    <2>1. ASSUME NEW n \in 0 .. M - 1, NEW e \in Vectors
          PROVE  TimesPoint(e, p[n + 1], n + 1) \in Vectors
      <3>1. n + 1 \in 1 .. Order - 1 /\ n + 1 \in Lines
        BY <1>1 DEF Lines
      <3>2. p[n + 1] \in Elements
        BY <3>1
      <3> QED
        BY <3>1, <3>2, TimesPointType
    <2> QED
      BY <1>3, <2>1
  <1>5. PICK g \in [0..M -> Vectors] : Steps(g, x0, step, M)
    BY <1>4, StepsExist
  <1>6. ASSUME NEW i \in 1 .. Order - 1 PROVE g[i] = TimesPoint(g[i - 1], p[i], i)
    <2>1. i \in 1..M /\ i - 1 \in 0 .. M - 1 /\ i - 1 \in 0..M /\ i - 1 + 1 = i
      BY <1>1
    <2>2. g[i - 1] \in Vectors
      BY <2>1
    <2>3. step[i - 1][g[i - 1]] = TimesPoint(g[i - 1], p[i - 1 + 1], i - 1 + 1)
      BY <1>3, <2>1, <2>2
    <2> QED
      BY <1>5, <2>1, <2>3 DEF Steps
  <1>7. g[0] = x0
    BY <1>5 DEF Steps
  <1>8. g = Body(g)
    <2>1. ASSUME NEW i \in Lines
          PROVE  g[i] = IF i = 0 THEN x0 ELSE TimesPoint(g[i - 1], p[i], i)
      <3>1. CASE i = 0
        BY <1>7, <3>1
      <3>2. CASE i # 0
        <4>1. i \in 1 .. Order - 1
          BY <3>2, OrderAssumption DEF Lines
        <4> QED
          BY <1>6, <3>2, <4>1
      <3> QED
        BY <3>1, <3>2
    <2>2. g = [i \in Lines |-> g[i]]
      BY <1>1 DEF Lines
    <2> QED
      BY <1>2, <2>1, <2>2
  <1>9. C = CHOOSE f : f = Body(f)
    BY DEF C
  <1>10. C = Body(C)
    BY <1>8, <1>9
  <1>11. PICK h : h = C
    OBVIOUS
  <1>12. \A i \in Lines : h[i] = IF i = 0 THEN x0 ELSE TimesPoint(h[i - 1], p[i], i)
    BY <1>2, <1>10, <1>11
  <1>13. Builds(h, p)
    <2>1. 0 \in Lines /\ \A i \in 1 .. Order - 1 : i \in Lines /\ i # 0
      BY OrderAssumption DEF Lines
    <2>2. h[0] = x0
      BY <1>12, <2>1
    <2>3. \A i \in 1 .. Order - 1 : h[i] = TimesPoint(h[i - 1], p[i], i)
      BY <1>12, <2>1
    <2> QED
      BY <1>2, <2>2, <2>3 DEF Builds
  <1>14. Coefficients(p) = h[Order - 1]
    BY <1>11 DEF Coefficients, C
  <1> QED
    BY <1>13, <1>14

\* The points are the roots of the product.
LEMMA CoefficientsRoots ==
  ASSUME NEW p \in [Lines -> Elements]
  PROVE  /\ Coefficients(p) \in Vectors
         /\ \A l \in Lines : \A b : Divides(b, Coefficients(p), p[l], 1) =>
              Below(Coefficients(p), b, p[l], 0) = 0
  <1>1. PICK h : Builds(h, p) /\ Coefficients(p) = h[Order - 1]
    BY CoefficientsBuilt
  <1> DEFINE Rooted(i) ==
               /\ h[i] \in Vectors
               /\ \A j \in Lines : j < Order - 1 - i => h[i][j] = 0
               /\ \A l \in 0..i : \A b : Divides(b, h[i], p[l], 1) =>
                    Below(h[i], b, p[l], Order - 1 - i) = 0
             T == {i \in 0 .. Order - 1 : Rooted(i)}
  <1>2. 0 \in T
    <2>1. PICK last \in Lines : last = Order - 1 /\ last = Order - 1 - 0
      BY OrderAssumption DEF Lines
    <2>2. PICK e \in Elements : e = p[0]
      BY OrderAssumption DEF Lines
    <2>3. h[0] = [Zero EXCEPT ![last] = e]
      BY <1>1, <2>1, <2>2 DEF Builds
    <2>4. h[0] \in Vectors /\ h[0][last] = e /\ \A j \in Lines : j # last => h[0][j] = 0
      BY <2>3, UnitIs DEF Vectors
    <2>5. \A j \in Lines : j < last => j # last
      BY <2>1, OrderAssumption
    <2>6. ASSUME NEW b, Divides(b, h[0], e, 1) PROVE Below(h[0], b, e, last) = 0
      <3>1. b[last] = 1
        BY <2>1, <2>6 DEF Divides
      <3> QED
        BY <2>4, <3>1, Constants DEF Below
    <2>7. \A l \in 0..0 : l = 0
      OBVIOUS
    <2>8. Rooted(0)
      BY <2>1, <2>2, <2>4, <2>5, <2>6, <2>7
    <2>9. 0 \in 0 .. Order - 1
      BY OrderAssumption
    <2> QED
      BY <2>8, <2>9
  <1>3. ASSUME NEW i \in 1 .. Order - 1, i - 1 \in T PROVE i \in T
    <2>1. Order - 1 - (i - 1) = Order - i /\ i \in Lines /\ i - 1 \in 0 .. Order - 1
      BY OrderAssumption DEF Lines
    <2>2. PICK c \in Vectors : c = h[i - 1]
      BY <1>3
    <2>3. PICK y \in Elements : y = p[i]
      BY <2>1
    <2>4. h[i] = TimesPoint(c, y, i)
      BY <1>1, <2>2, <2>3 DEF Builds
    <2>5. \A j \in Lines : j < Order - i => c[j] = 0
      BY <1>3, <2>1, <2>2
    <2>6. h[i] \in Vectors /\ \A j \in Lines : j < Order - 1 - i => h[i][j] = 0
      BY <2>4, <2>5, TimesPointIs
    <2>7. ASSUME NEW l \in 0..i, NEW b2, Divides(b2, h[i], p[l], 1)
          PROVE  Below(h[i], b2, p[l], Order - 1 - i) = 0
      <3>1. l \in Lines
        BY <2>7, OrderAssumption DEF Lines
      <3>2. PICK x \in Elements : x = p[l]
        BY <3>1
      <3>3. PICK o \in Elements : o = 1
        BY Constants
      <3>4. PICK b \in Vectors : Divides(b, c, x, o)
        BY DivisionExists
      <3>5. Below(h[i], b2, x, Order - 1 - i) = GF_MUL(GF_ADD(x, y), Below(c, b, x, Order - i))
        BY <2>4, <2>5, <2>7, <3>2, <3>3, <3>4, FactorDivides
      <3>6. PICK f \in Elements : f = Below(c, b, x, Order - i)
        <4>1. Order - i \in Lines
          BY OrderAssumption DEF Lines
        <4> QED
          BY <3>4, <4>1, BelowType
      <3>7. CASE l = i
        <4>1. GF_ADD(x, y) = 0
          BY <2>3, <3>2, <3>7, Constants
        <4> QED
          BY <3>2, <3>5, <3>6, <4>1, Constants
      <3>8. CASE l # i
        <4>1. l \in 0 .. i - 1
          BY <3>8
        <4>2. f = 0
          BY <1>3, <2>1, <2>2, <3>2, <3>3, <3>4, <3>6, <4>1
        <4>3. PICK s \in Elements : s = GF_ADD(x, y)
          BY AddType
        <4>4. GF_MUL(s, 0) = 0
          BY Constants
        <4> QED
          BY <3>2, <3>5, <3>6, <4>2, <4>3, <4>4
      <3> QED
        BY <3>7, <3>8
    <2>8. i \in 0 .. Order - 1
      OBVIOUS
    <2> QED
      BY <2>6, <2>7, <2>8
  <1> HIDE DEF T
  <1>4. 0 .. Order - 1 \subseteq T
    <2>1. Order - 1 \in Nat
      BY OrderAssumption
    <2> QED
      BY <1>2, <1>3, <2>1, InductionUpTo
  <1>5. Rooted(Order - 1)
    <2>1. Order - 1 \in T
      BY <1>4, OrderAssumption
    <2> QED
      BY <2>1 DEF T
  <1>6. Order - 1 - (Order - 1) = 0 /\ 0 .. Order - 1 = Lines
    BY OrderAssumption DEF Lines
  <1> QED
    BY <1>1, <1>5, <1>6, ZenonT(40)

\* What is computed from the top down is the same when each step makes the same of it.
LEMMA DownwardSame ==
  ASSUME NEW f, NEW g, f[Order - 1] = g[Order - 1],
         \A j \in 1 .. Order - 1 : f[j] = g[j] => f[j - 1] = g[j - 1]
  PROVE  \A j \in Lines : f[j] = g[j]
  <1> DEFINE T == {k \in 0 .. Order - 1 : f[Order - 1 - k] = g[Order - 1 - k]}
  <1>1. 0 \in T
    BY OrderAssumption
  <1>2. ASSUME NEW k \in 1 .. Order - 1, k - 1 \in T PROVE k \in T
    <2>1. PICK j \in 1 .. Order - 1 : j = Order - 1 - (k - 1) /\ j - 1 = Order - 1 - k
      BY OrderAssumption
    <2>2. f[j] = g[j]
      BY <1>2, <2>1
    <2> QED
      BY <2>1, <2>2
  <1> HIDE DEF T
  <1>3. 0 .. Order - 1 \subseteq T
    <2>1. Order - 1 \in Nat
      BY OrderAssumption
    <2> QED
      BY <1>1, <1>2, <2>1, InductionUpTo
  <1>4. ASSUME NEW j \in Lines PROVE f[j] = g[j]
    <2>1. PICK k \in 0 .. Order - 1 : Order - 1 - k = j
      <3>1. Order - 1 - j \in 0 .. Order - 1 /\ Order - 1 - (Order - 1 - j) = j
        BY OrderAssumption DEF Lines
      <3> QED
        BY <3>1
    <2>2. k \in T
      BY <1>3
    <2> QED
      BY <2>1, <2>2 DEF T
  <1> QED
    BY <1>4

\* What the second loop makes of the quotient b: its value at the point.
Evaluates(w, b, x) ==
  /\ w \in Vectors /\ w[Order - 1] = 1
  /\ \A j \in 1 .. Order - 1 : w[j - 1] = GF_ADD(GF_MUL(x, w[j]), b[j - 1])

LEMMA EvaluationExists ==
  ASSUME NEW b \in Vectors, NEW x \in Elements
  PROVE  \E w \in Vectors : Evaluates(w, b, x)
  <1>1. PICK d \in Vectors : d = [j \in Lines |-> IF j = 0 THEN 0 ELSE b[j - 1]]
    <2>1. \A j \in Lines : j # 0 => j - 1 \in Lines
      BY OrderAssumption DEF Lines
    <2> QED
      BY <2>1, Constants DEF Vectors
  <1>2. PICK o \in Elements : o = 1
    BY Constants
  <1>3. PICK w \in Vectors : Divides(w, d, x, o)
    BY DivisionExists
  <1>4. ASSUME NEW j \in 1 .. Order - 1 PROVE w[j - 1] = GF_ADD(GF_MUL(x, w[j]), b[j - 1])
    <2>1. j \in Lines /\ j # 0 /\ j - 1 \in Lines
      BY OrderAssumption DEF Lines
    <2>2. d[j] = b[j - 1] /\ b[j - 1] \in Elements /\ w[j] \in Elements
      BY <1>1, <2>1 DEF Vectors
    <2>3. w[j - 1] = GF_ADD(b[j - 1], GF_MUL(x, w[j]))
      BY <1>3, <2>2 DEF Divides
    <2> QED
      BY <2>2, <2>3, AddCommutes, MulType
  <1> QED
    BY <1>2, <1>3, <1>4 DEF Divides, Evaluates

LEMMA EvaluationValue ==
  ASSUME NEW b \in Vectors, b[Order - 1] = 1, NEW x \in Elements, NEW w, Evaluates(w, b, x),
         NEW v, PowersOf(v, x)
  PROVE  w[0] = Dot(b, v)
  <1>1. w \in Vectors /\ 0 \in Lines /\ Order - 1 \in Lines
    BY OrderAssumption DEF Evaluates, Lines
  <1>2. PICK q \in Vectors : q = [j \in Lines |-> IF j = Order - 1 THEN 0 ELSE w[j + 1]]
    <2>1. \A j \in Lines : j # Order - 1 => j + 1 \in Lines
      BY OrderAssumption DEF Lines
    <2> QED
      BY <1>1, <2>1, Constants DEF Vectors
  <1>3. PICK o \in Elements : o = 0
    BY Constants
  <1>4. q[Order - 1] = o
    BY <1>1, <1>2, <1>3
  <1>5. ASSUME NEW j \in Lines PROVE w[j] = GF_ADD(b[j], GF_MUL(x, q[j]))
    <2>1. b[j] \in Elements /\ q[j] \in Elements
      BY DEF Vectors
    <2>2. CASE j = Order - 1
      <3>1. q[j] = 0
        BY <1>2, <2>2
      <3>2. w[j] = 1 /\ b[j] = 1
        BY <2>2 DEF Evaluates
      <3> QED
        BY <3>1, <3>2, Constants
    <2>3. CASE j # Order - 1
      <3>1. PICK k \in 1 .. Order - 1 : k = j + 1 /\ k - 1 = j
        BY <2>3, OrderAssumption DEF Lines
      <3>2. w[j] = GF_ADD(GF_MUL(x, w[k]), b[j])
        BY <3>1 DEF Evaluates
      <3>3. q[j] = w[k]
        BY <1>2, <2>3, <3>1
      <3> QED
        BY <2>1, <3>2, <3>3, AddCommutes, MulType
    <2> QED
      BY <2>2, <2>3
  <1>6. ASSUME NEW j \in 1 .. Order - 1 PROVE q[j - 1] = GF_ADD(b[j], GF_MUL(x, q[j]))
    <2>1. j \in Lines /\ j - 1 \in Lines /\ j - 1 # Order - 1 /\ j - 1 + 1 = j
      BY OrderAssumption DEF Lines
    <2>2. q[j - 1] = w[j]
      BY <1>2, <2>1
    <2> QED
      BY <1>5, <2>1, <2>2
  <1>7. Divides(q, b, x, o)
    BY <1>4, <1>6 DEF Divides
  <1>8. Dot(b, v) = GF_ADD(GF_ADD(GF_ADD(b[0], GF_MUL(x, q[0])),
                                  GF_MUL(GF_ADD(x, x), Dot(q, v))),
                           GF_MUL(o, GF_MUL(x, v[Order - 1])))
    BY <1>7, DivisionValue
  <1>9. PICK s \in Elements : s = Dot(q, v)
    BY DotSigma DEF PowersOf
  <1>10. PICK t \in Elements : t = GF_MUL(x, v[Order - 1])
    <2>1. v[Order - 1] \in Elements
      BY <1>1 DEF PowersOf, Vectors
    <2> QED
      BY <2>1, MulType
  <1>11. GF_MUL(GF_ADD(x, x), s) = 0 /\ GF_MUL(o, t) = 0
    BY <1>3, Constants
  <1>12. PICK u \in Elements : u = w[0]
    BY <1>1 DEF Vectors
  <1>13. u = GF_ADD(b[0], GF_MUL(x, q[0]))
    BY <1>1, <1>5, <1>12
  <1>14. Dot(b, v) = GF_ADD(GF_ADD(u, 0), 0)
    BY <1>8, <1>9, <1>10, <1>11, <1>13
  <1> QED
    BY <1>12, <1>14, Constants

\* Quotient is the quotient by x, divided by its value there.
LEMMA QuotientIs ==
  ASSUME NEW c \in Vectors, NEW x \in Elements, NEW v, PowersOf(v, x)
  PROVE  \E b \in Vectors : /\ Divides(b, c, x, 1)
                            /\ Quotient(c, x) = [j \in Lines |-> GF_MUL(GF_INV(Dot(b, v)), b[j])]
  <1> DEFINE B[j \in Lines] == IF j = Order - 1 THEN 1 ELSE GF_ADD(c[j + 1], GF_MUL(x, B[j + 1]))
             BodyB(f) == [j \in Lines |-> IF j = Order - 1 THEN 1
                                          ELSE GF_ADD(c[j + 1], GF_MUL(x, f[j + 1]))]
             T[j \in Lines] == IF j = Order - 1 THEN 1 ELSE GF_ADD(GF_MUL(x, T[j + 1]), B[j])
  <1>1. PICK o \in Elements : o = 1
    BY Constants
  <1>2. PICK b \in Vectors : Divides(b, c, x, o)
    BY <1>1, DivisionExists
  <1>3. \A j \in Lines : j # Order - 1 => j + 1 \in 1 .. Order - 1 /\ j + 1 - 1 = j /\ j + 1 \in Lines
    BY OrderAssumption DEF Lines
  <1>4. \A j \in 1 .. Order - 1 : j \in Lines /\ j - 1 \in Lines /\ j - 1 # Order - 1 /\ j - 1 + 1 = j
    BY OrderAssumption DEF Lines
  <1>5. Order - 1 \in Lines /\ 0 \in Lines
    BY OrderAssumption DEF Lines
  <1>6. \A j \in Lines : b[j] = IF j = Order - 1 THEN 1 ELSE GF_ADD(c[j + 1], GF_MUL(x, b[j + 1]))
    <2>1. ASSUME NEW j \in Lines, j # Order - 1 PROVE b[j] = GF_ADD(c[j + 1], GF_MUL(x, b[j + 1]))
      <3>1. PICK k \in 1 .. Order - 1 : k = j + 1 /\ k - 1 = j
        BY <2>1, OrderAssumption DEF Lines
      <3>2. b[k - 1] = GF_ADD(c[k], GF_MUL(x, b[k]))
        BY <1>2 DEF Divides
      <3> QED
        BY <3>1, <3>2
    <2> QED
      BY <1>1, <1>2, <2>1 DEF Divides
  <1>7. b = BodyB(b)
    <2>1. b = [j \in Lines |-> b[j]]
      BY DEF Vectors
    <2> QED
      BY <1>6, <2>1
  <1>8. B = CHOOSE f : f = BodyB(f)
    BY DEF B
  <1>9. B = BodyB(B)
    BY <1>7, <1>8
  <1>10. PICK h : h = B
    OBVIOUS
  <1>11. /\ \A j \in Lines : h[j] = IF j = Order - 1 THEN 1 ELSE GF_ADD(c[j + 1], GF_MUL(x, h[j + 1]))
         /\ h = [j \in Lines |-> h[j]]
    BY <1>9, <1>10
  <1>12. h = b
    <2>1. h[Order - 1] = b[Order - 1]
      BY <1>5, <1>6, <1>11
    <2>2. ASSUME NEW j \in 1 .. Order - 1, h[j] = b[j] PROVE h[j - 1] = b[j - 1]
      BY <1>4, <1>6, <1>11, <2>2
    <2>3. \A j \in Lines : h[j] = b[j]
      BY <2>1, <2>2, DownwardSame
    <2>4. b = [j \in Lines |-> b[j]]
      BY DEF Vectors
    <2> QED
      BY <1>11, <2>3, <2>4
  <1> HIDE DEF B
  <1> DEFINE BodyT(f) == [j \in Lines |-> IF j = Order - 1 THEN 1
                                          ELSE GF_ADD(GF_MUL(x, f[j + 1]), B[j])]
  <1>13. PICK w \in Vectors : Evaluates(w, b, x)
    BY EvaluationExists
  <1>14. \A j \in Lines : w[j] = IF j = Order - 1 THEN 1 ELSE GF_ADD(GF_MUL(x, w[j + 1]), b[j])
    <2>1. ASSUME NEW j \in Lines, j # Order - 1 PROVE w[j] = GF_ADD(GF_MUL(x, w[j + 1]), b[j])
      <3>1. PICK k \in 1 .. Order - 1 : k = j + 1 /\ k - 1 = j
        BY <2>1, OrderAssumption DEF Lines
      <3>2. w[k - 1] = GF_ADD(GF_MUL(x, w[k]), b[k - 1])
        BY <1>13 DEF Evaluates
      <3> QED
        BY <3>1, <3>2
    <2> QED
      BY <1>13, <2>1 DEF Evaluates
  <1>15. w = BodyT(w)
    <2>1. w = [j \in Lines |-> w[j]]
      BY DEF Vectors
    <2> QED
      BY <1>10, <1>12, <1>14, <2>1
  <1>16. T = CHOOSE f : f = BodyT(f)
    BY DEF T
  <1>17. T = BodyT(T)
    BY <1>15, <1>16
  <1>18. PICK g : g = T
    OBVIOUS
  <1>19. \A j \in Lines : g[j] = IF j = Order - 1 THEN 1 ELSE GF_ADD(GF_MUL(x, g[j + 1]), b[j])
    BY <1>10, <1>12, <1>17, <1>18
  <1>20. g[0] = w[0]
    <2>1. g[Order - 1] = w[Order - 1]
      BY <1>5, <1>14, <1>19
    <2>2. ASSUME NEW j \in 1 .. Order - 1, g[j] = w[j] PROVE g[j - 1] = w[j - 1]
      BY <1>4, <1>14, <1>19, <2>2
    <2>3. \A j \in Lines : g[j] = w[j]
      BY <2>1, <2>2, DownwardSame
    <2> QED
      BY <1>5, <2>3
  <1>21. w[0] = Dot(b, v)
    <2>1. b[Order - 1] = 1
      BY <1>1, <1>2 DEF Divides
    <2> QED
      BY <1>13, <2>1, EvaluationValue
  <1>22. Quotient(c, x) = [j \in Lines |-> GF_MUL(GF_INV(T[0]), B[j])]
    BY DEF Quotient, B, T
  <1> HIDE DEF T
  <1>23. Quotient(c, x) = [j \in Lines |-> GF_MUL(GF_INV(g[0]), b[j])]
    BY <1>10, <1>12, <1>18, <1>22
  <1> QED
    BY <1>1, <1>2, <1>20, <1>21, <1>23

-----------------------------------------------------------------------------
LEMMA DotCommutes == ASSUME NEW a \in Vectors, NEW b \in Vectors PROVE Dot(a, b) = Dot(b, a)
  <1>1. \A j \in Lines : GF_MUL(a[j], b[j]) = GF_MUL(b[j], a[j])
    BY MulCommutes DEF Vectors
  <1>2. Products(a, b) = Products(b, a)
    BY <1>1 DEF Products
  <1> QED
    BY <1>2, DotSigma

LEMMA DotScale ==
  ASSUME NEW a \in Vectors, NEW b \in Vectors, NEW t \in Elements
  PROVE  /\ [j \in Lines |-> GF_MUL(t, b[j])] \in Vectors
         /\ Dot(a, [j \in Lines |-> GF_MUL(t, b[j])]) = GF_MUL(t, Dot(a, b))
  <1>1. PICK s \in Vectors : s = [j \in Lines |-> GF_MUL(t, b[j])]
    BY MulType DEF Vectors
  <1>2. PICK p \in Vectors : p = Products(a, b)
    BY DotSigma
  <1>3. Products(a, s) = [j \in Lines |-> GF_MUL(t, p[j])]
    <2>1. ASSUME NEW j \in Lines PROVE GF_MUL(a[j], s[j]) = GF_MUL(t, p[j])
      <3>1. PICK e \in Elements : e = a[j]
        BY DEF Vectors
      <3>2. PICK f \in Elements : f = b[j]
        BY DEF Vectors
      <3>3. GF_MUL(GF_MUL(e, t), f) = GF_MUL(e, GF_MUL(t, f)) /\ GF_MUL(GF_MUL(t, e), f) = GF_MUL(t, GF_MUL(e, f))
        BY MulAssociates
      <3>4. GF_MUL(e, t) = GF_MUL(t, e)
        BY MulCommutes
      <3>5. s[j] = GF_MUL(t, f) /\ p[j] = GF_MUL(e, f)
        BY <1>1, <1>2, <3>1, <3>2 DEF Products
      <3> QED
        BY <3>1, <3>3, <3>4, <3>5
    <2> QED
      BY <2>1 DEF Products
  <1>4. Dot(a, s) = GF_MUL(t, Sigma(p))
    BY <1>3, SigmaMul, DotSigma
  <1> QED
    BY <1>1, <1>2, <1>4, DotSigma

\* The value of the product of all x - p[i] at a point is 0: what the other factors are
\* there times the point's own.
LEMMA FactorsValue ==
  ASSUME NEW v, NEW pts, Points(v, pts), NEW l \in Lines, NEW r \in Lines,
         NEW b, Divides(b, Coefficients(pts), pts[l], 1)
  PROVE  GF_MUL(GF_ADD(pts[l], pts[r]), Dot(b, v[r])) = 0
  <1>1. PICK c \in Vectors : c = Coefficients(pts)
    BY CoefficientsRoots DEF Points
  <1>2. PICK x \in Elements : x = pts[l]
    BY DEF Points
  <1>3. PICK y \in Elements : y = pts[r]
    BY DEF Points
  <1>4. PICK o \in Elements : o = 1
    BY Constants
  <1>5. PICK z \in Elements : z = 0
    BY Constants
  <1>6. PICK u \in Vectors : u = v[r] /\ PowersOf(u, y)
    BY <1>3 DEF Points, PowersOf
  <1>7. Divides(b, c, x, o) /\ b \in Vectors
    BY <1>1, <1>2, <1>4 DEF Divides
  <1>8. PICK d \in Vectors : Divides(d, c, y, o)
    BY DivisionExists
  <1>9. Below(c, b, x, 0) = z /\ Below(c, d, y, 0) = z
    BY <1>1, <1>2, <1>3, <1>4, <1>5, <1>7, <1>8, CoefficientsRoots DEF Points
  <1>10. PICK q \in Elements : q = GF_MUL(o, GF_MUL(y, u[Order - 1]))
    <2>1. Order - 1 \in Lines
      BY OrderAssumption DEF Lines
    <2>2. u[Order - 1] \in Elements
      BY <2>1 DEF Vectors
    <2> QED
      BY <2>2, MulType
  <1>11. PICK s \in Elements : s = Dot(b, u)
    BY <1>7, DotSigma
  <1>12. PICK t \in Elements : t = Dot(d, u)
    BY DotSigma
  <1>13. Dot(c, u) = GF_ADD(GF_ADD(z, GF_MUL(GF_ADD(x, y), s)), q)
    <2>1. Dot(c, u) = GF_ADD(GF_ADD(GF_ADD(c[0], GF_MUL(x, b[0])), GF_MUL(GF_ADD(x, y), Dot(b, u))),
                             GF_MUL(o, GF_MUL(y, u[Order - 1])))
      BY <1>6, <1>7, DivisionValue
    <2> QED
      BY <1>9, <1>10, <1>11, <2>1 DEF Below
  <1>14. Dot(c, u) = GF_ADD(GF_ADD(z, GF_MUL(GF_ADD(y, y), t)), q)
    <2>1. Dot(c, u) = GF_ADD(GF_ADD(GF_ADD(c[0], GF_MUL(y, d[0])), GF_MUL(GF_ADD(y, y), Dot(d, u))),
                             GF_MUL(o, GF_MUL(y, u[Order - 1])))
      BY <1>6, <1>8, DivisionValue
    <2> QED
      BY <1>9, <1>10, <1>12, <2>1 DEF Below
  <1>15. PICK e \in Elements : e = GF_MUL(GF_ADD(x, y), s)
    BY AddType, MulType
  <1>16. GF_MUL(GF_ADD(y, y), t) = z
    BY <1>5, Constants
  <1>17. GF_ADD(e, q) = GF_ADD(z, q)
    <2>1. GF_ADD(z, e) = e /\ GF_ADD(z, z) = z
      BY <1>5, Constants
    <2> QED
      BY <1>13, <1>14, <1>15, <1>16, <2>1
  <1>18. e = z
    BY <1>17, AddCancels
  <1> QED
    BY <1>2, <1>3, <1>5, <1>6, <1>11, <1>15, <1>18

\* The quotient by a point, divided by its value there, is 1 at that point and 0 at the
\* others.
LEMMA Lagrange ==
  ASSUME NEW v, NEW pts, Points(v, pts), NEW l \in Lines
  PROVE  /\ Quotient(Coefficients(pts), pts[l]) \in Vectors
         /\ \A r \in Lines : Dot(v[r], Quotient(Coefficients(pts), pts[l])) = IF l = r THEN 1 ELSE 0
  <1>1. PICK c \in Vectors : c = Coefficients(pts)
    BY CoefficientsRoots DEF Points
  <1>2. PICK x \in Elements : x = pts[l]
    BY DEF Points
  <1>3. PowersOf(v[l], x)
    BY <1>2 DEF Points
  <1>4. PICK b \in Vectors : /\ Divides(b, c, x, 1)
                             /\ Quotient(c, x) = [j \in Lines |-> GF_MUL(GF_INV(Dot(b, v[l])), b[j])]
    BY <1>3, QuotientIs
  <1>5. \A r \in Lines : v[r] \in Vectors
    BY DEF Points, PowersOf
  <1>6. ASSUME NEW r \in Lines, r # l PROVE Dot(b, v[r]) = 0
    <2>1. PICK y \in Elements : y = pts[r]
      BY DEF Points
    <2>2. x # y
      BY <1>2, <1>6, <2>1 DEF Points
    <2>3. PICK e \in Elements : e = GF_ADD(x, y)
      BY AddType
    <2>4. e # 0
      BY <2>2, <2>3, SumZeroOnlyOfEqual
    <2>5. PICK s \in Elements : s = Dot(b, v[r])
      BY <1>5, DotSigma
    <2>6. GF_MUL(e, s) = 0
      BY <1>1, <1>2, <1>4, <2>1, <2>3, <2>5, FactorsValue
    <2> QED
      BY <2>4, <2>5, <2>6, NoZeroDivisors
  <1>7. PICK t \in Elements : t = Dot(b, v[l])
    BY <1>5, DotSigma
  <1>8. t # 0
    <2>1. SUFFICES ASSUME t = 0 PROVE FALSE
      OBVIOUS
    <2>2. \A r \in Lines : Dot(b, v[r]) = 0
      BY <1>6, <1>7, <2>1
    <2>3. b = Zero
      BY <2>2, TooManyRoots
    <2>4. b[Order - 1] = 1 /\ Order - 1 \in Lines
      BY <1>4, OrderAssumption DEF Divides, Lines
    <2> QED
      BY <2>3, <2>4 DEF Zero
  <1>9. PICK i \in Elements : i = GF_INV(t) /\ GF_MUL(i, t) = 1
    BY <1>8, Inverses
  <1>10. PICK q : q = [j \in Lines |-> GF_MUL(i, b[j])] /\ q = Quotient(c, x)
    BY <1>4, <1>7, <1>9
  <1>11. q \in Vectors
    BY <1>10, DotScale
  <1>12. ASSUME NEW r \in Lines PROVE Dot(v[r], q) = IF l = r THEN 1 ELSE 0
    <2>1. Dot(v[r], q) = GF_MUL(i, Dot(v[r], b))
      BY <1>5, <1>10, DotScale
    <2>2. Dot(v[r], b) = Dot(b, v[r])
      BY <1>5, DotCommutes
    <2>3. CASE r = l
      BY <1>7, <1>9, <2>1, <2>2, <2>3
    <2>4. CASE r # l
      BY <1>6, <2>1, <2>2, <2>4, Constants
    <2> QED
      BY <2>3, <2>4
  <1> QED
    BY <1>1, <1>2, <1>10, <1>11, <1>12

\* matrix_inv_vandermonde: a row of the powers of different points, times what it makes
\* of the points, is a row of the identity.
LEMMA VandermondeInverts ==
  ASSUME NEW v, NEW pts, Points(v, pts), NEW p, Order > 1 => p = pts
  PROVE  /\ VandermondeInverse(p) \in Matrices
         /\ \A r \in Lines : RowTimes(v[r], VandermondeInverse(p)) = Unit(r)
  <1>1. \A r \in Lines : v[r] \in Vectors
    BY DEF Points, PowersOf
  <1>2. CASE Order = 1
    <2>1. Lines = {0}
      BY <1>2 DEF Lines
    <2>2. PICK m : m = VandermondeInverse(p) /\ m = [r \in Lines |-> [n \in Lines |-> 1]]
      BY <1>2 DEF VandermondeInverse
    <2>3. m \in Matrices
      BY <2>2, Constants DEF Matrices
    <2>4. ASSUME NEW r \in Lines PROVE RowTimes(v[r], m) = Unit(r)
      <3>1. r = 0
        BY <2>1
      <3>2. [line \in Lines |-> m[line][0]] = Unit(0)
        <4>1. Unit(0) = [line \in Lines |-> 1]
          BY <2>1 DEF Unit, Zero
        <4> QED
          BY <2>1, <2>2, <4>1
      <3>3. Dot(v[r], Unit(0)) = 1
        <4>1. Dot(v[r], Unit(0)) = v[r][0]
          BY <1>1, <2>1, DotUnit
        <4>2. v[r][0] = 1
          BY DEF Points, PowersOf
        <4> QED
          BY <4>1, <4>2
      <3>4. Unit(0) = [col \in Lines |-> 1]
        BY <2>1 DEF Unit, Zero
      <3> QED
        BY <2>1, <3>1, <3>2, <3>3, <3>4 DEF RowTimes
    <2> QED
      BY <2>2, <2>3, <2>4
  <1>3. CASE Order # 1
    <2>1. p = pts
      BY <1>3, OrderAssumption
    <2>2. PICK q : q = [row \in Lines |-> Quotient(Coefficients(pts), pts[row])]
      OBVIOUS
    <2>3. \A l \in Lines : /\ q[l] \in Vectors
                           /\ \A r \in Lines : Dot(v[r], q[l]) = IF l = r THEN 1 ELSE 0
      BY <2>2, Lagrange
    <2>4. PICK m : m = VandermondeInverse(p) /\ m = [col \in Lines |-> [row \in Lines |-> q[row][col]]]
      BY <1>3, <2>1, <2>2 DEF VandermondeInverse
    <2>5. m \in Matrices
      BY <2>3, <2>4 DEF Matrices, Vectors
    <2>6. ASSUME NEW r \in Lines PROVE RowTimes(v[r], m) = Unit(r)
      <3>1. ASSUME NEW col \in Lines PROVE Dot(v[r], [line \in Lines |-> m[line][col]]) = Unit(r)[col]
        <4>1. [line \in Lines |-> m[line][col]] = q[col]
          <5>1. \A line \in Lines : m[line][col] = q[col][line]
            BY <2>4
          <5>2. q[col] = [line \in Lines |-> q[col][line]]
            BY <2>3 DEF Vectors
          <5> QED
            BY <5>1, <5>2
        <4>2. Dot(v[r], q[col]) = IF col = r THEN 1 ELSE 0
          BY <2>3
        <4>3. Unit(r)[col] = IF col = r THEN 1 ELSE 0
          BY UnitIs
        <4> QED
          BY <4>1, <4>2, <4>3
      <3>2. Unit(r) = [col \in Lines |-> Unit(r)[col]]
        BY UnitIs DEF Vectors
      <3> QED
        BY <3>1, <3>2 DEF RowTimes
    <2> QED
      BY <2>4, <2>5, <2>6
  <1> QED
    BY <1>2, <1>3

-----------------------------------------------------------------------------
\* Products are linear in the row.
LEMMA DotAdd ==
  ASSUME NEW a \in Vectors, NEW b \in Vectors, NEW c \in Vectors, NEW x \in Vectors, NEW t \in Elements,
         \A j \in Lines : c[j] = GF_ADD(a[j], GF_MUL(t, b[j]))
  PROVE  Dot(c, x) = GF_ADD(Dot(a, x), GF_MUL(t, Dot(b, x)))
  <1>1. PICK p \in Vectors : p = Products(a, x) /\ Dot(a, x) = Sigma(p)
    BY DotSigma
  <1>2. PICK q \in Vectors : q = Products(b, x) /\ Dot(b, x) = Sigma(q)
    BY DotSigma
  <1>3. PICK tq \in Vectors : tq = [j \in Lines |-> GF_MUL(t, q[j])]
    BY MulType DEF Vectors
  <1>4. Products(c, x) = [j \in Lines |-> GF_ADD(p[j], tq[j])]
    <2>1. ASSUME NEW j \in Lines PROVE GF_MUL(c[j], x[j]) = GF_ADD(p[j], tq[j])
      <3>1. PICK e \in Elements : e = a[j]
        BY DEF Vectors
      <3>2. PICK f \in Elements : f = b[j]
        BY DEF Vectors
      <3>3. PICK y \in Elements : y = x[j]
        BY DEF Vectors
      <3>4. PICK tf \in Elements : tf = GF_MUL(t, f)
        BY MulType
      <3>5. GF_MUL(y, GF_ADD(e, tf)) = GF_ADD(GF_MUL(y, e), GF_MUL(y, tf))
        BY Distributes
      <3>6. PICK s \in Elements : s = GF_ADD(e, tf)
        BY AddType
      <3>7. GF_MUL(s, y) = GF_ADD(GF_MUL(e, y), GF_MUL(tf, y))
        BY <3>5, <3>6, MulCommutes
      <3>8. GF_MUL(tf, y) = GF_MUL(t, GF_MUL(f, y))
        BY <3>4, MulAssociates
      <3>9. c[j] = s
        BY <3>1, <3>2, <3>4, <3>6
      <3>10. p[j] = GF_MUL(e, y) /\ tq[j] = GF_MUL(t, GF_MUL(f, y))
        BY <1>1, <1>2, <1>3, <3>1, <3>2, <3>3 DEF Products
      <3> QED
        BY <3>3, <3>7, <3>8, <3>9, <3>10
    <2> QED
      BY <2>1 DEF Products
  <1>5. Dot(c, x) = GF_ADD(Sigma(p), Sigma(tq))
    BY <1>4, SigmaAdd, DotSigma
  <1>6. Sigma(tq) = GF_MUL(t, Sigma(q))
    BY <1>3, SigmaMul
  <1> QED
    BY <1>1, <1>2, <1>5, <1>6

LEMMA DotZero == ASSUME NEW x \in Vectors PROVE Dot(Zero, x) = 0
  <1>1. \A j \in Lines : GF_MUL(Zero[j], x[j]) = 0
    BY UnitIs, Constants DEF Vectors
  <1>2. Products(Zero, x) = Zero
    BY <1>1 DEF Products, Zero
  <1> QED
    BY <1>2, UnitIs, DotSigma, SigmaZero

\* The product without one of its terms.
LEMMA DotBut ==
  ASSUME NEW u \in Vectors, NEW w \in Vectors, NEW l \in Lines,
         \A j \in Lines : w[j] = IF j = l THEN 0 ELSE u[j], NEW z \in Vectors
  PROVE  Dot(u, z) = GF_ADD(Dot(w, z), GF_MUL(u[l], z[l]))
  <1>1. PICK e \in Elements : e = u[l]
    BY DEF Vectors
  <1>2. PICK v \in Vectors : v = Unit(l) /\ \A j \in Lines : v[j] = IF j = l THEN 1 ELSE 0
    BY UnitIs
  <1>3. \A j \in Lines : u[j] = GF_ADD(w[j], GF_MUL(e, v[j]))
    BY <1>1, <1>2, Constants DEF Vectors
  <1>4. Dot(u, z) = GF_ADD(Dot(w, z), GF_MUL(e, Dot(v, z)))
    BY <1>3, DotAdd
  <1>5. Dot(v, z) = z[l]
    BY <1>2, DotUnit, DotCommutes
  <1> QED
    BY <1>1, <1>4, <1>5

LEMMA ColumnType ==
  ASSUME NEW m \in Matrices, NEW c \in Lines
  PROVE  [line \in Lines |-> m[line][c]] \in Vectors
  BY DEF Matrices, Vectors

LEMMA RowTimesIs ==
  ASSUME NEW u \in Vectors, NEW m \in Matrices
  PROVE  /\ RowTimes(u, m) \in Vectors
         /\ \A c \in Lines : RowTimes(u, m)[c] = Dot(u, [line \in Lines |-> m[line][c]])
  <1>1. \A c \in Lines : [line \in Lines |-> m[line][c]] \in Vectors
    BY ColumnType
  <1>2. \A c \in Lines : Dot(u, [line \in Lines |-> m[line][c]]) \in Elements
    BY <1>1, DotSigma
  <1> QED
    BY <1>1, <1>2 DEF RowTimes, Vectors

\* A matrix times a vector
LEMMA TimesType ==
  ASSUME NEW m \in Matrices, NEW x \in Vectors
  PROVE  [l \in Lines |-> Dot(m[l], x)] \in Vectors
  <1>1. \A l \in Lines : m[l] \in Vectors
    BY DEF Matrices, Vectors
  <1>2. \A l \in Lines : Dot(m[l], x) \in Elements
    BY <1>1, DotSigma
  <1> QED
    BY <1>2 DEF Vectors

\* and a row times that.
LEMMA DotTimes ==
  ASSUME NEW u \in Vectors, NEW m \in Matrices, NEW x \in Vectors
  PROVE  Dot(RowTimes(u, m), x) = Dot(u, [l \in Lines |-> Dot(m[l], x)])
  <1>1. \A l \in Lines : m[l] \in Vectors
    BY DEF Matrices, Vectors
  <1>2. PICK z \in Vectors : z = [l \in Lines |-> Dot(m[l], x)]
    BY TimesType
  <1> DEFINE T == {n \in 0..Order : \A a \in Vectors : (\A j \in Lines : j >= n => a[j] = 0)
                                       => Dot(RowTimes(a, m), x) = Dot(a, z)}
  <1>3. 0 \in T
    <2>1. ASSUME NEW a \in Vectors, \A j \in Lines : j >= 0 => a[j] = 0
          PROVE  Dot(RowTimes(a, m), x) = Dot(a, z)
      <3>1. a = Zero
        <4>1. \A j \in Lines : a[j] = 0
          BY <2>1 DEF Lines
        <4> QED
          BY <4>1, ZeroIs
      <3>2. RowTimes(a, m) = Zero
        <4>1. ASSUME NEW c \in Lines PROVE RowTimes(a, m)[c] = 0
          <5>1. PICK k \in Vectors : k = [line \in Lines |-> m[line][c]]
            BY ColumnType
          <5>2. RowTimes(a, m)[c] = Dot(a, k)
            BY <5>1, RowTimesIs
          <5> QED
            BY <3>1, <5>2, DotZero
        <4> QED
          BY <4>1, RowTimesIs, ZeroIs
      <3> QED
        BY <3>1, <3>2, DotZero
    <2>2. 0 \in 0..Order
      BY OrderAssumption
    <2> QED
      BY <2>1, <2>2
  <1>4. ASSUME NEW n \in 1..Order, n - 1 \in T PROVE n \in T
    <2>1. ASSUME NEW a \in Vectors, \A j \in Lines : j >= n => a[j] = 0
          PROVE  Dot(RowTimes(a, m), x) = Dot(a, z)
      <3>1. PICK l \in Lines : l = n - 1
        BY OrderAssumption DEF Lines
      <3>2. PICK w \in Vectors : \A j \in Lines : w[j] = IF j = l THEN 0 ELSE a[j]
        <4>1. PICK w : w = [j \in Lines |-> IF j = l THEN 0 ELSE a[j]]
          OBVIOUS
        <4>2. w \in Vectors
          BY <4>1, Constants DEF Vectors
        <4> QED
          BY <4>1, <4>2
      <3>3. ASSUME NEW j \in Lines, j >= n - 1 PROVE w[j] = 0
        <4>1. j = l \/ j >= n
          BY <3>1, <3>3 DEF Lines
        <4>2. w[l] = 0 /\ (j # l => w[j] = a[j])
          BY <3>2 DEF Vectors
        <4> QED
          BY <2>1, <4>1, <4>2
      <3>4. Dot(RowTimes(w, m), x) = Dot(w, z)
        BY <1>4, <3>3
      <3>5. PICK e \in Elements : e = a[l]
        BY DEF Vectors
      <3>6. Dot(a, z) = GF_ADD(Dot(w, z), GF_MUL(e, z[l]))
        BY <3>2, <3>5, DotBut
      <3>7. ASSUME NEW c \in Lines
            PROVE  RowTimes(a, m)[c] = GF_ADD(RowTimes(w, m)[c], GF_MUL(e, m[l][c]))
        <4>1. PICK k \in Vectors : k = [line \in Lines |-> m[line][c]]
          BY ColumnType
        <4>2. Dot(a, k) = GF_ADD(Dot(w, k), GF_MUL(e, k[l]))
          BY <3>2, <3>5, DotBut
        <4>3. RowTimes(a, m)[c] = Dot(a, k) /\ RowTimes(w, m)[c] = Dot(w, k) /\ k[l] = m[l][c]
          BY <4>1, RowTimesIs
        <4> QED
          BY <4>2, <4>3
      <3>8. PICK p \in Vectors : p = RowTimes(a, m)
        BY RowTimesIs
      <3>9. PICK q \in Vectors : q = RowTimes(w, m)
        BY RowTimesIs
      <3>10. PICK b \in Vectors : b = m[l]
        BY <1>1
      <3>11. \A j \in Lines : p[j] = GF_ADD(q[j], GF_MUL(e, b[j]))
        BY <3>7, <3>8, <3>9, <3>10
      <3>12. Dot(p, x) = GF_ADD(Dot(q, x), GF_MUL(e, Dot(b, x)))
        BY <3>11, DotAdd
      <3>13. z[l] = Dot(b, x)
        BY <1>2, <3>10
      <3> QED
        BY <3>4, <3>6, <3>8, <3>9, <3>12, <3>13
    <2> QED
      BY <2>1
  <1> HIDE DEF T
  <1>5. 0..Order \subseteq T
    BY <1>3, <1>4, InductionUpTo, OrderAssumption
  <1>6. Order \in T
    BY <1>5, OrderAssumption
  <1>7. \A j \in Lines : j >= Order => u[j] = 0
    BY OrderAssumption DEF Lines
  <1> QED
    BY <1>2, <1>6, <1>7 DEF T
=============================================================================
