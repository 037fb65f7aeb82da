--------------------------- MODULE FecCodecProofs ----------------------------
(***************************************************************************)
(* Proofs about FecDecode and FecCodec, for every K and N and every field. *)
(*                                                                         *)
(* The invariant of fec_decode follows the permutation: fec_shuffle names  *)
(* the same packets from beginning to end, rows below i are in place, and  *)
(* once all are, a row to be rebuilt is named by no index, so that         *)
(* clearing it loses nothing.                                              *)
(*                                                                         *)
(* Then the arithmetic: the rows of K different packets can be inverted,   *)
(* and a row summed up by the inverse of their matrix is what was encoded. *)
(***************************************************************************)
EXTENDS FecCodec, FecMatrixProofs

\* Every packet that is named is still whole.
Whole == \A r \in Rows : pkts[idxs[r]] = idxs[r]

\* Rows the first loop has passed.
Passed == \A r \in Rows : r < i => InPlace(r)

\* The second loop runs on K different packets, and is right up to row.
Rebuilding == pc \in {"rebuild", "decoded"} =>
                 /\ i = K
                 /\ Different(idxs)
                 /\ \A r \in Rows : r < row => pkts[r] = r

\* The second loop starts at row 0 and ends at row K.
Ends == /\ pc = "shuffle" => row = 0
        /\ pc = "decoded" => row = K

DecodeInv == /\ TypeOK
             /\ Different(idxs) <=> Different(given)
             /\ Whole
             /\ Passed
             /\ Rebuilding
             /\ Ends
             /\ FailsOnlyOnRepeat

-----------------------------------------------------------------------------
Renamed(f, r) == [f EXCEPT ![r] = f[f[r]], ![f[r]] = f[r]]

\* The swap of fec_shuffle puts packet c at index c and c's old packet at r; it
\* names a packet twice exactly when the array did before.
LEMMA SwapKeeps ==
  ASSUME NEW f \in [Rows -> Slots], NEW r \in Rows, f[r] < K, f[f[r]] # f[r]
  PROVE  /\ Renamed(f, r) \in [Rows -> Slots]
         /\ \A q \in Rows : \E p \in Rows : Renamed(f, r)[q] = f[p]
         /\ Different(Renamed(f, r)) <=> Different(f)
<1> DEFINE c == f[r]
           g == Renamed(f, r)
<1>1. c \in Rows /\ c # r
  BY CodeAssumption DEF Rows, Slots
<1>2. /\ g \in [Rows -> Slots]
      /\ g[r] = f[c] /\ g[c] = f[r]
      /\ \A q \in Rows : q # r /\ q # c => g[q] = f[q]
  BY <1>1 DEF Renamed
<1>3. \A q \in Rows : \E p \in Rows : g[q] = f[p]
  BY <1>1, <1>2
<1>4. ASSUME Different(f) PROVE Different(g)
  BY <1>1, <1>2, <1>4 DEF Different
<1>5. ASSUME Different(g) PROVE Different(f)
  BY <1>1, <1>2, <1>5 DEF Different
<1>6. QED
  BY <1>2, <1>3, <1>4, <1>5

LEMMA InitDecode == Init => DecodeInv
  BY CodeAssumption DEF Init, DecodeInv, TypeOK, Whole, Passed, Rebuilding, Ends, FailsOnlyOnRepeat, Rows, Slots, Named

LEMMA NextDecode == DecodeInv /\ [Next]_vars => DecodeInv'
<1> SUFFICES ASSUME DecodeInv, [Next]_vars PROVE DecodeInv'
  OBVIOUS
<1> USE CodeAssumption, NoPacketAssumption DEF DecodeInv
<1>1. CASE ShuffleNext
  <2>1. Passed'
    BY <1>1 DEF ShuffleNext, Passed, InPlace, TypeOK, Rows
  <2>2. QED
    BY <1>1, <2>1 DEF ShuffleNext, TypeOK, Whole, Rebuilding, Ends, FailsOnlyOnRepeat, Different
<1>2. CASE ShuffleSwap
  <2>1. /\ i \in Rows /\ idxs \in [Rows -> Slots] /\ idxs[i] < K /\ idxs[i] # i
        /\ idxs[idxs[i]] # idxs[i]
    BY <1>2 DEF ShuffleSwap, TypeOK, InPlace, Rows, Slots
  <2>2. /\ idxs' = [idxs EXCEPT ![i] = idxs[idxs[i]], ![idxs[i]] = idxs[i]]
        /\ UNCHANGED <<i, row, pkts, pc, given>>
    BY <1>2 DEF ShuffleSwap
  <2>3. /\ idxs' \in [Rows -> Slots]
        /\ \A q \in Rows : \E p \in Rows : idxs'[q] = idxs[p]
        /\ Different(idxs') <=> Different(idxs)
    <3>1. idxs' = Renamed(idxs, i)
      BY <2>2 DEF Renamed
    <3>2. /\ Renamed(idxs, i) \in [Rows -> Slots]
          /\ \A q \in Rows : \E p \in Rows : Renamed(idxs, i)[q] = idxs[p]
          /\ Different(Renamed(idxs, i)) <=> Different(idxs)
      BY <2>1, SwapKeeps
    <3>3. QED
      BY <3>1, <3>2
  <2>4. Whole'
    BY <2>2, <2>3 DEF Whole
  <2>5. Passed'
    <3>1. idxs[i] \in Rows
      BY <2>1 DEF Rows, Slots
    <3>2. \A r \in Rows : r # i => idxs'[r] = IF r = idxs[i] THEN r ELSE idxs[r]
      BY <2>1, <2>2, <3>1
    <3>3. ASSUME NEW r \in Rows, r < i PROVE InPlace(r)'
      <4>1. InPlace(r) /\ r # i
        BY <3>3 DEF Passed, TypeOK, Rows
      <4>2. QED
        BY <3>2, <4>1 DEF InPlace
    <3>4. QED
      BY <2>2, <3>3 DEF Passed
  <2>6. QED
    BY <1>2, <2>2, <2>3, <2>4, <2>5 DEF ShuffleSwap, TypeOK, Rebuilding, Ends, FailsOnlyOnRepeat
<1>3. CASE ShuffleConflict
  <2>1. ~Different(idxs)
    <3>1. i \in Rows /\ idxs[i] \in Rows /\ idxs[i] # i /\ idxs[idxs[i]] = idxs[i]
      BY <1>3 DEF ShuffleConflict, TypeOK, InPlace, Rows, Slots
    <3>2. QED
      BY <3>1 DEF Different
  <2>2. QED
    BY <1>3, <2>1 DEF ShuffleConflict, TypeOK, Whole, Passed, InPlace, Rebuilding, Ends, FailsOnlyOnRepeat
<1>4. CASE BuildMatrix
  <2>1. /\ i = K /\ UNCHANGED <<idxs, i, row, pkts, given>>
        /\ pc' \in {"rebuild", "failed"}
        /\ pc' = "failed" => ~Different(idxs)
        /\ pc' = "rebuild" => Different(idxs)
    BY <1>4 DEF BuildMatrix
  <2>2. TypeOK' /\ Whole' /\ Passed' /\ Ends'
    BY <2>1 DEF TypeOK, Whole, Passed, InPlace, Ends
  <2>3. (Different(idxs) <=> Different(given))' /\ FailsOnlyOnRepeat'
    BY <2>1 DEF FailsOnlyOnRepeat
  <2>4. QED
    BY <1>4, <2>1, <2>2, <2>3 DEF BuildMatrix, Rebuilding, Ends, TypeOK, Rows
<1>5. CASE RebuildRow
  <2>1. /\ row \in Rows /\ row \in Slots /\ idxs[row] >= K /\ i = K /\ Different(idxs)
        /\ pc = "rebuild" /\ \A r \in Rows : InPlace(r)
    BY <1>5 DEF RebuildRow, TypeOK, Rebuilding, Passed, Rows, Slots
  <2>2. \A col \in Rows : idxs[col] # row
    BY <2>1, SMTT(20) DEF InPlace, TypeOK, Rows, Slots
  <2>3. \A col \in Rows : Cleared[idxs[col]] = idxs[col]
    BY <2>1, <2>2 DEF Cleared, Whole, TypeOK
  <2>4. /\ pkts' = [pkts EXCEPT ![row] = row] /\ row' = row + 1
        /\ UNCHANGED <<idxs, i, pc, given>>
    BY <1>5, <2>3 DEF RebuildRow
  <2>5. Whole'
    BY <2>1, <2>2, <2>4 DEF Whole, TypeOK
  <2>6. pkts' \in [Slots -> Slots \union {NoPacket}] /\ row' \in 0 .. K
    BY <2>1, <2>4 DEF TypeOK, Rows
  <2>7. \A r \in Rows : r < row' => pkts'[r] = r
    BY <2>1, <2>4 DEF Rebuilding, TypeOK, Rows, Slots
  <2>8. QED
    BY <2>1, <2>4, <2>5, <2>6, <2>7 DEF TypeOK, Passed, InPlace, Rebuilding, Ends, FailsOnlyOnRepeat
<1>6. CASE KeepRow
  <2>1. /\ row \in Rows /\ idxs[row] = row /\ i = K
    BY <1>6 DEF KeepRow, TypeOK, Rebuilding, Passed, InPlace, Rows, Slots
  <2>2. pkts[row] = row
    BY <2>1 DEF Whole
  <2>3. \A r \in Rows : r < row' => pkts[r] = r
    BY <1>6, <2>1, <2>2 DEF KeepRow, Rebuilding, TypeOK, Rows
  <2>4. QED
    BY <1>6, <2>1, <2>3 DEF KeepRow, TypeOK, Whole, Passed, InPlace, Rebuilding, Ends, FailsOnlyOnRepeat, Rows
<1>7. CASE Return
  BY <1>7 DEF Return, TypeOK, Whole, Passed, InPlace, Rebuilding, Ends, FailsOnlyOnRepeat
<1>8. CASE UNCHANGED vars
  BY <1>8 DEF vars, TypeOK, Whole, Passed, InPlace, Rebuilding, Ends, FailsOnlyOnRepeat
<1>9. QED
  BY <1>1, <1>2, <1>3, <1>4, <1>5, <1>6, <1>7, <1>8 DEF Next

\* For every K and N: indices stay in range and every access of fec_decode is to a
\* slot of the buffer.
THEOREM DecodeTypeCorrect == Spec => []TypeOK
<1>1. DecodeInv => TypeOK
  BY DEF DecodeInv
<1>2. QED
  BY InitDecode, NextDecode, <1>1, PTL DEF Spec

\* For every K and N: when fec_decode returns 1 the K data packets are back, each in
\* its slot.
THEOREM DecodeIsRight == Spec => []DecodesRight
<1>1. DecodeInv => DecodesRight
  BY CodeAssumption DEF DecodeInv, Rebuilding, Ends, DecodesRight, TypeOK, Rows
<1>2. QED
  BY InitDecode, NextDecode, <1>1, PTL DEF Spec

\* For every K and N: fec_decode returns 0 only if a packet was named twice.
THEOREM DecodeFailsOnlyOnRepeat == Spec => []FailsOnlyOnRepeat
<1>1. DecodeInv => FailsOnlyOnRepeat
  BY DEF DecodeInv
<1>2. QED
  BY InitDecode, NextDecode, <1>1, PTL DEF Spec

-----------------------------------------------------------------------------
\* The generator

LEMMA RowsAreLines == Rows = Lines
  BY GeneratorAssumption DEF Rows, Lines

\* A quotient and a remainder are the only ones.
LEMMA DivisionUnique ==
  ASSUME NEW n \in Nat \ {0}, NEW q1 \in Nat, NEW q2 \in Nat,
         NEW r1 \in 0 .. n - 1, NEW r2 \in 0 .. n - 1,
         q1 * n + r1 = q2 * n + r2
  PROVE  q1 = q2 /\ r1 = r2
  <1>1. (q1 - q2) * n = r2 - r1
    OBVIOUS
  <1>2. q1 - q2 > 0 => (q1 - q2) * n >= n
    OBVIOUS
  <1>3. q1 - q2 < 0 => (q1 - q2) * n <= -n
    OBVIOUS
  <1>4. q1 = q2
    BY <1>1, <1>2, <1>3
  <1> QED
    BY <1>1, <1>4

LEMMA RemainderIs ==
  ASSUME NEW n \in Nat \ {0}, NEW q \in Nat
  PROVE  \E a \in Nat : \E b \in 0 .. n - 1 : b = q % n /\ q = a * n + b
  OBVIOUS

LEMMA RemainderAdds ==
  ASSUME NEW n \in Nat \ {0}, NEW m \in Nat, NEW q \in Nat
  PROVE  (m + (q % n)) % n = (m + q) % n
  <1>1. PICK a \in Nat : \E b \in 0 .. n - 1 : b = q % n /\ q = a * n + b
    BY RemainderIs
  <1>2. PICK b \in 0 .. n - 1 : b = q % n /\ q = a * n + b
    BY <1>1
  <1>3. PICK mb \in Nat : mb = m + b
    OBVIOUS
  <1>4. PICK c \in Nat : \E d \in 0 .. n - 1 : d = mb % n /\ mb = c * n + d
    BY RemainderIs
  <1>5. PICK d \in 0 .. n - 1 : d = mb % n /\ mb = c * n + d
    BY <1>4
  <1>6. PICK mq \in Nat : mq = m + q
    OBVIOUS
  <1>7. PICK e \in Nat : \E f \in 0 .. n - 1 : f = mq % n /\ mq = e * n + f
    BY RemainderIs
  <1>8. PICK f \in 0 .. n - 1 : f = mq % n /\ mq = e * n + f
    BY <1>7
  <1>9. PICK g \in Nat : g = a + c
    OBVIOUS
  <1>10. g * n = a * n + c * n
    BY <1>9
  <1>11. e * n + f = g * n + d
    BY <1>2, <1>3, <1>5, <1>6, <1>8, <1>10
  <1>12. f = d
    BY <1>11, DivisionUnique
  <1> QED
    BY <1>2, <1>3, <1>5, <1>6, <1>8, <1>12

\* The point whose powers a row of fec_new's matrix has
PointOf(s) == IF s = 0 THEN 0 ELSE gf_polys(s - 1)

LEMMA VandermondeIs ==
  ASSUME NEW s \in Slots
  PROVE  PointOf(s) \in Elements /\ PowersOf(Vandermonde(s), PointOf(s))
  <1>1. \A r \in 1 .. Order - 1 : r \in Lines /\ r # 0 /\ r - 1 \in Lines
    BY OrderAssumption DEF Lines
  <1>2. 0 \in Lines
    BY OrderAssumption DEF Lines
  <1>3. CASE s = 0
    <2>1. PICK o \in Elements : o = 0
      BY Constants
    <2>2. PICK v \in Vectors : v = Unit(0) /\ v[0] = 1 /\ \A j \in Lines : j # 0 => v[j] = 0
      BY <1>2, UnitIs
    <2>3. ASSUME NEW j \in 1 .. Order - 1 PROVE v[j] = GF_MUL(o, v[j - 1])
      <3>1. v[j] = 0
        BY <1>1, <2>2
      <3>2. v[j - 1] \in Elements
        BY <1>1 DEF Vectors
      <3> QED
        BY <2>1, <3>1, <3>2, Constants
    <2>4. Vandermonde(s) = v /\ PointOf(s) = o
      BY <1>3, <2>1, <2>2 DEF Vandermonde, PointOf
    <2> QED
      BY <2>2, <2>3, <2>4 DEF PowersOf
  <1>4. CASE s # 0
    <2>1. PICK n \in Nat \ {0} : n = Group
      BY PowersAssumption
    <2>2. PICK m \in 0 .. n - 1 : m = s - 1
      BY <1>4, <2>1, CodeAssumption, GeneratorAssumption DEF Slots
    <2>3. PICK y \in Elements : y = gf_polys(m)
      BY <2>1, <2>2, PowersAssumption
    <2>4. PICK v : v = Vandermonde(s) /\ v = [col \in Lines |-> gf_polys((m * col) % n)]
      BY <1>4, <2>1, <2>2, RowsAreLines DEF Vandermonde
    <2>5. \A col \in Lines : col \in Nat
      BY DEF Lines
    <2>6. ASSUME NEW col \in Nat PROVE m * col \in Nat /\ (m * col) % n \in 0 .. n - 1
      <3>1. PICK q \in Nat : q = m * col
        OBVIOUS
      <3> QED
        BY <3>1
    <2>7. ASSUME NEW col \in Lines PROVE v[col] \in Elements
      <3>1. PICK q \in 0 .. n - 1 : q = (m * col) % n
        BY <2>5, <2>6
      <3> QED
        BY <2>1, <2>4, <3>1, PowersAssumption
    <2>8. v \in Vectors
      BY <2>4, <2>7 DEF Vectors
    <2>9. v[0] = 1
      <3>1. (m * 0) % n = 0
        OBVIOUS
      <3> QED
        BY <1>2, <2>4, <3>1, PowersAssumption
    <2>10. ASSUME NEW j \in 1 .. Order - 1 PROVE v[j] = GF_MUL(y, v[j - 1])
      <3>1. PICK k \in Nat : k = j - 1 /\ j = k + 1 /\ k \in Lines /\ j \in Lines
        BY <1>1, <2>5
      <3>2. PICK q \in Nat : q = m * k
        BY <2>6, <3>1
      <3>3. m * j = m + q
        BY <3>1, <3>2
      <3>4. PICK p \in 0 .. n - 1 : p = q % n
        OBVIOUS
      <3>5. (m + p) % n = (m * j) % n
        <4>1. m \in Nat
          OBVIOUS
        <4>2. (m + (q % n)) % n = (m + q) % n
          BY <4>1, RemainderAdds
        <4> QED
          BY <3>3, <3>4, <4>2
      <3>6. gf_polys((m + p) % n) = GF_MUL(gf_polys(m), gf_polys(p))
        BY <2>1, PowersAssumption
      <3>7. v[j] = gf_polys((m * j) % n) /\ v[k] = gf_polys(p)
        BY <2>4, <3>1, <3>2, <3>4
      <3> QED
        BY <2>3, <3>1, <3>5, <3>6, <3>7
    <2> QED
      BY <1>4, <2>2, <2>3, <2>4, <2>8, <2>9, <2>10 DEF PowersOf, PointOf
  <1> QED
    BY <1>3, <1>4

\* No two rows have the same: beyond 256 they would.
LEMMA PointsDiffer ==
  ASSUME NEW s \in Slots, NEW t \in Slots, PointOf(s) = PointOf(t)
  PROVE  s = t
  <1>1. \A r \in Slots : r # 0 => r - 1 \in 0 .. Group - 1
    BY CodeAssumption, GeneratorAssumption, PowersAssumption DEF Slots
  <1>2. \A r \in Slots : r # 0 => gf_polys(r - 1) # 0
    BY <1>1, PowersAssumption
  <1>3. CASE s # 0 /\ t # 0
    <2>1. gf_polys(s - 1) = gf_polys(t - 1)
      BY <1>3 DEF PointOf
    <2>2. PICK m \in 0 .. Group - 1 : m = s - 1
      BY <1>1, <1>3
    <2>3. PICK n \in 0 .. Group - 1 : n = t - 1
      BY <1>1, <1>3
    <2>4. m = n
      BY <2>1, <2>2, <2>3, PowersAssumption
    <2> QED
      BY <2>2, <2>3, <2>4 DEF Slots
  <1> QED
    BY <1>2, <1>3 DEF PointOf

\* The rows of K different packets.
LEMMA RowsOfPoints ==
  ASSUME NEW f \in [Rows -> Slots], Different(f)
  PROVE  Points([r \in Lines |-> Vandermonde(f[r])], [r \in Lines |-> PointOf(f[r])])
  <1>1. PICK v : v = [r \in Lines |-> Vandermonde(f[r])]
    OBVIOUS
  <1>2. PICK pts : pts = [r \in Lines |-> PointOf(f[r])]
    OBVIOUS
  <1>3. \A r \in Lines : f[r] \in Slots
    BY RowsAreLines
  <1>4. \A r \in Lines : pts[r] \in Elements /\ PowersOf(v[r], pts[r])
    BY <1>1, <1>2, <1>3, VandermondeIs
  <1>5. v \in Matrices
    BY <1>1, <1>4 DEF PowersOf, Vectors, Matrices
  <1>6. ASSUME NEW l \in Lines, NEW m \in Lines, pts[l] = pts[m] PROVE l = m
    <2>1. f[l] = f[m]
      BY <1>2, <1>3, <1>6, PointsDiffer
    <2> QED
      BY <2>1, RowsAreLines DEF Different
  <1>7. pts \in [Lines -> Elements]
    BY <1>2, <1>4
  <1> QED
    BY <1>1, <1>2, <1>4, <1>5, <1>6, <1>7 DEF Points

\* Every row of the generator, the identity's too, is a row of powers times the inverse
\* of the first rows of powers.
LEMMA GeneratorIs ==
  \E w \in Matrices :
    /\ \A s \in Slots : Generator[s] = RowTimes(Vandermonde(s), w)
    /\ \A r \in Lines : RowTimes(Vandermonde(r), w) = Unit(r)
  <1>1. PICK f \in [Rows -> Slots] : f = [r \in Rows |-> r]
    <2>1. \A r \in Rows : r \in Slots
      BY CodeAssumption DEF Rows, Slots
    <2> QED
      BY <2>1
  <1>2. Different(f)
    BY <1>1 DEF Different
  <1>3. PICK v : v = [r \in Lines |-> Vandermonde(f[r])]
    OBVIOUS
  <1>4. PICK pts : pts = [r \in Lines |-> PointOf(f[r])]
    OBVIOUS
  <1>5. Points(v, pts)
    BY <1>2, <1>3, <1>4, RowsOfPoints
  <1>6. PICK p : p = [r \in Rows |-> IF K = 1 THEN 1 ELSE Point(r)]
    OBVIOUS
  <1>7. Order > 1 => p = pts
    <2>1. ASSUME Order > 1, NEW r \in Lines PROVE Point(r) = PointOf(r)
      <3>1. 1 \in Lines /\ 0 \in Lines
        BY <2>1, OrderAssumption DEF Lines
      <3>2. CASE r = 0
        BY <3>1, <3>2, UnitIs DEF Point, Vandermonde, PointOf
      <3>3. CASE r # 0
        <4>1. PICK m \in 0 .. Group - 1 : m = r - 1
          BY <3>3, CodeAssumption, GeneratorAssumption, PowersAssumption DEF Lines
        <4>2. (m * 1) % Group = m
          <5>1. PICK n \in Nat \ {0} : n = Group
            BY PowersAssumption
          <5>2. m * 1 = m /\ m % n = m
            BY <5>1
          <5> QED
            BY <5>1, <5>2
        <4> QED
          BY <3>1, <3>3, <4>1, <4>2, RowsAreLines DEF Point, Vandermonde, PointOf
      <3> QED
        BY <3>2, <3>3
    <2>2. ASSUME Order > 1 PROVE p = pts
      <3>1. K # 1
        BY <2>2, GeneratorAssumption
      <3> QED
        BY <1>1, <1>4, <1>6, <2>1, <2>2, <3>1, RowsAreLines
    <2> QED
      BY <2>2
  <1>8. PICK w \in Matrices : /\ w = VandermondeInverse(p)
                              /\ \A r \in Lines : RowTimes(v[r], w) = Unit(r)
    BY <1>5, <1>7, VandermondeInverts
  <1>9. ASSUME NEW r \in Lines PROVE RowTimes(Vandermonde(r), w) = Unit(r)
    BY <1>1, <1>3, <1>8, RowsAreLines
  <1>10. ASSUME NEW s \in Slots PROVE Generator[s] = RowTimes(Vandermonde(s), w)
    <2>1. Generator[s] = IF s < K THEN Unit(s) ELSE RowTimes(Vandermonde(s), w)
      BY <1>6, <1>8 DEF Generator
    <2>2. s < K => s \in Lines
      BY CodeAssumption, GeneratorAssumption DEF Slots, Lines
    <2> QED
      BY <1>9, <2>1, <2>2
  <1> QED
    BY <1>9, <1>10

LEMMA GeneratorType == \A s \in Slots : Generator[s] \in Vectors
  <1>1. PICK w \in Matrices : \A s \in Slots : Generator[s] = RowTimes(Vandermonde(s), w)
    BY GeneratorIs
  <1>2. \A s \in Slots : Vandermonde(s) \in Vectors
    BY VandermondeIs DEF PowersOf
  <1> QED
    BY <1>1, <1>2, RowTimesIs

\* The matrix fec_decode_matrix takes
Taking(f) == [r \in Lines |-> Generator[f[r]]]

LEMMA TakingType == ASSUME NEW f \in [Rows -> Slots] PROVE Taking(f) \in Matrices
  BY GeneratorType, RowsAreLines DEF Taking, Matrices, Vectors

\* The rows of K different packets can be inverted,
LEMMA DifferentNotSingular ==
  ASSUME NEW f \in [Rows -> Slots], Different(f)
  PROVE  ~Singular(Taking(f))
  <1> SUFFICES ASSUME NEW x \in Vectors, x # Zero, \A r \in Lines : Dot(Taking(f)[r], x) = 0
               PROVE  FALSE
    BY DEF Singular, Vectors
  <1>1. PICK w \in Matrices :
          /\ \A s \in Slots : Generator[s] = RowTimes(Vandermonde(s), w)
          /\ \A r \in Lines : RowTimes(Vandermonde(r), w) = Unit(r)
    BY GeneratorIs
  <1>2. PICK z \in Vectors : z = [l \in Lines |-> Dot(w[l], x)]
    BY TimesType
  <1>3. \A u \in Vectors : Dot(RowTimes(u, w), x) = Dot(u, z)
    BY <1>2, DotTimes
  <1>4. PICK v : v = [r \in Lines |-> Vandermonde(f[r])]
    OBVIOUS
  <1>5. PICK pts : Points(v, pts)
    BY <1>4, RowsOfPoints
  <1>6. ASSUME NEW r \in Lines PROVE Dot(z, v[r]) = 0
    <2>1. f[r] \in Slots
      BY RowsAreLines
    <2>2. PICK u \in Vectors : u = v[r] /\ u = Vandermonde(f[r])
      BY <1>4, <2>1, VandermondeIs DEF PowersOf
    <2>3. Taking(f)[r] = RowTimes(u, w)
      BY <1>1, <2>1, <2>2 DEF Taking
    <2>4. Dot(u, z) = 0
      BY <1>3, <2>3
    <2> QED
      BY <2>2, <2>4, DotCommutes
  <1>7. z = Zero
    BY <1>5, <1>6, TooManyRoots
  <1>8. ASSUME NEW r \in Lines PROVE x[r] = 0
    <2>1. r \in Slots
      BY CodeAssumption, GeneratorAssumption DEF Lines, Slots
    <2>2. PICK u \in Vectors : u = Vandermonde(r)
      BY <2>1, VandermondeIs DEF PowersOf
    <2>3. Dot(Unit(r), x) = Dot(u, z)
      BY <1>1, <1>3, <2>2
    <2>4. Dot(u, z) = 0
      BY <1>7, UnitIs, DotZero, DotCommutes
    <2>5. Dot(Unit(r), x) = x[r]
      BY UnitIs, DotUnit, DotCommutes
    <2> QED
      BY <2>3, <2>4, <2>5
  <1> QED
    BY <1>8, ZeroIs

\* and those of a packet named twice cannot.
LEMMA InvertedDifferent ==
  ASSUME NEW f \in [Rows -> Slots], NEW m \in Matrices, Inverts(Taking(f), m)
  PROVE  Different(f)
  <1> SUFFICES ASSUME NEW r \in Lines, NEW q \in Lines, f[r] = f[q], r # q PROVE FALSE
    BY RowsAreLines DEF Different
  <1>1. PICK y \in Vectors : y = Unit(r) /\ y[r] = 1 /\ y[q] = 0
    BY UnitIs
  <1>2. PICK x \in Vectors : x = [c \in Lines |-> Dot(m[c], y)]
    BY TimesType
  <1>3. Image(m, y, x)
    BY <1>2 DEF Image
  <1>4. Image(Taking(f), x, y)
    BY <1>3 DEF Inverts
  <1>5. y[r] = Dot(Taking(f)[r], x) /\ y[q] = Dot(Taking(f)[q], x)
    BY <1>4 DEF Image
  <1>6. Taking(f)[r] = Taking(f)[q]
    BY DEF Taking
  <1> QED
    BY <1>1, <1>5, <1>6

-----------------------------------------------------------------------------
\* The packets

Contents == [Symbols -> Elements]

\* One symbol of K packets
Across(packets, n) == [l \in Lines |-> packets[l][n]]

LEMMA AcrossType ==
  ASSUME NEW packets \in [Rows -> Contents], NEW n \in Symbols
  PROVE  Across(packets, n) \in Vectors
  BY RowsAreLines DEF Across, Vectors, Contents

LEMMA AddMulIs ==
  ASSUME NEW a \in Contents, NEW b \in Contents, NEW c \in Elements
  PROVE  /\ AddMul(a, b, c) \in Contents
         /\ \A n \in Symbols : AddMul(a, b, c)[n] = GF_ADD(a[n], GF_MUL(c, b[n]))
  <1>1. AddMul(a, b, c) = [n \in Symbols |-> GF_ADD(a[n], GF_MUL(c, b[n]))]
    BY DEF AddMul, Contents
  <1>2. \A n \in Symbols : a[n] \in Elements /\ b[n] \in Elements
    BY DEF Contents
  <1>3. \A n \in Symbols : GF_ADD(a[n], GF_MUL(c, b[n])) \in Elements
    BY <1>2, AddType, MulType
  <1> QED
    BY <1>1, <1>3 DEF Contents

\* What is summed up so far of K packets, each times a coefficient
Sums(g, coefs, packets) ==
  /\ g[0] = Blank
  /\ \A n \in 1..K : g[n] = AddMul(g[n - 1], packets[n - 1], coefs[n - 1])

LEMMA SumsExist ==
  ASSUME NEW coefs \in Vectors, NEW packets \in [Rows -> Contents]
  PROVE  \E g \in [0..K -> Contents] : Sums(g, coefs, packets)
  <1>1. Blank \in Contents /\ K \in Nat
    BY Constants, CodeAssumption DEF Blank, Contents
  <1>2. PICK step : step = [n \in 0 .. K - 1 |-> [e \in Contents |-> AddMul(e, packets[n], coefs[n])]]
    OBVIOUS
  <1>3. \A n \in 0 .. K - 1 : packets[n] \in Contents /\ coefs[n] \in Elements
    BY RowsAreLines DEF Rows, Vectors
  <1>4. step \in [0 .. K - 1 -> [Contents -> Contents]]
    BY <1>2, <1>3, AddMulIs
  <1>5. PICK g \in [0..K -> Contents] : Steps(g, Blank, step, K)
    BY <1>1, <1>4, StepsExist
  <1>6. ASSUME NEW n \in 1..K PROVE g[n] = AddMul(g[n - 1], packets[n - 1], coefs[n - 1])
    <2>1. n - 1 \in 0 .. K - 1 /\ n - 1 \in 0..K
      BY <1>1
    <2>2. g[n - 1] \in Contents
      BY <2>1
    <2>3. step[n - 1][g[n - 1]] = AddMul(g[n - 1], packets[n - 1], coefs[n - 1])
      BY <1>2, <2>1, <2>2
    <2> QED
      BY <1>5, <2>3 DEF Steps
  <1> QED
    BY <1>5, <1>6 DEF Steps, Sums

\* is in the end, at every symbol, the product of the coefficients and that symbol.
LEMMA SumsAre ==
  ASSUME NEW coefs \in Vectors, NEW packets \in [Rows -> Contents],
         NEW g \in [0..K -> Contents], Sums(g, coefs, packets), NEW n \in Symbols
  PROVE  g[K][n] = Dot(coefs, Across(packets, n))
  <1>1. PICK x \in Vectors : x = Across(packets, n)
    BY AcrossType
  <1>2. PICK p \in Vectors : p = Products(coefs, x) /\ Dot(coefs, x) = Sigma(p)
    BY DotSigma
  <1>3. PICK h : h = [k \in 0..Order |-> g[k][n]]
    OBVIOUS
  <1>4. h \in [0..Order -> Elements]
    BY <1>3, GeneratorAssumption DEF Contents
  <1>5. h[0] = 0
    BY <1>3, OrderAssumption DEF Sums, Blank
  <1>6. ASSUME NEW k \in 1..Order PROVE h[k] = GF_ADD(h[k - 1], p[k - 1])
    <2>1. k - 1 \in Lines /\ k - 1 \in 0..Order /\ k \in 0..Order /\ k \in 1..K
      BY OrderAssumption, GeneratorAssumption DEF Lines
    <2>2. PICK a \in Contents : a = g[k - 1]
      BY <2>1, GeneratorAssumption
    <2>3. PICK b \in Contents : b = packets[k - 1]
      BY <2>1, RowsAreLines
    <2>4. PICK c \in Elements : c = coefs[k - 1]
      BY <2>1 DEF Vectors
    <2>5. g[k] = AddMul(a, b, c)
      BY <2>1, <2>2, <2>3, <2>4 DEF Sums
    <2>6. g[k][n] = GF_ADD(a[n], GF_MUL(c, b[n]))
      BY <2>5, AddMulIs
    <2>7. p[k - 1] = GF_MUL(c, b[n])
      BY <1>1, <1>2, <2>1, <2>3, <2>4 DEF Products, Across
    <2> QED
      BY <1>3, <2>1, <2>2, <2>6, <2>7
  <1>7. Partial(h, p, Order)
    BY <1>4, <1>5, <1>6 DEF Partial
  <1>8. Sigma(p) = h[Order]
    BY <1>7, SigmaIs
  <1>9. h[Order] = g[K][n]
    BY <1>3, OrderAssumption, GeneratorAssumption
  <1> QED
    BY <1>1, <1>2, <1>8, <1>9

LEMMA CombinedIs ==
  ASSUME NEW coefs \in Vectors, NEW packets \in [Rows -> Contents]
  PROVE  /\ Combined(coefs, packets) \in Contents
         /\ \A n \in Symbols : Combined(coefs, packets)[n] = Dot(coefs, Across(packets, n))
  <1> DEFINE Sum[n \in 0..K] ==
               IF n = 0 THEN Blank ELSE AddMul(Sum[n - 1], packets[n - 1], coefs[n - 1])
             Body(f) == [n \in 0..K |->
                           IF n = 0 THEN Blank ELSE AddMul(f[n - 1], packets[n - 1], coefs[n - 1])]
  <1>1. PICK g \in [0..K -> Contents] : Sums(g, coefs, packets)
    BY SumsExist
  <1>2. \A n \in 0..K : g[n] = IF n = 0 THEN Blank ELSE AddMul(g[n - 1], packets[n - 1], coefs[n - 1])
    BY <1>1, CodeAssumption DEF Sums
  <1>3. g = Body(g)
    <2>1. g = [n \in 0..K |-> g[n]]
      OBVIOUS
    <2> QED
      BY <1>2, <2>1
  <1>4. Sum = CHOOSE f : f = Body(f)
    BY DEF Sum
  <1>5. Sum = Body(Sum)
    BY <1>3, <1>4
  <1>6. PICK h : h = Sum
    OBVIOUS
  <1>7. \A n \in 0..K : h[n] = IF n = 0 THEN Blank ELSE AddMul(h[n - 1], packets[n - 1], coefs[n - 1])
    BY <1>5, <1>6
  <1> HIDE DEF Sum
  <1> DEFINE T == {n \in 0..K : h[n] = g[n]}
  <1>8. 0 \in T
    BY <1>2, <1>7, CodeAssumption
  <1>9. ASSUME NEW n \in 1..K, n - 1 \in T PROVE n \in T
    <2>1. n \in 0..K /\ n # 0 /\ h[n - 1] = g[n - 1]
      BY <1>9
    <2> QED
      BY <1>2, <1>7, <2>1
  <1> HIDE DEF T
  <1>10. 0..K \subseteq T
    BY <1>8, <1>9, CodeAssumption, InductionUpTo
  <1>11. h[K] = g[K]
    <2>1. K \in T
      BY <1>10, CodeAssumption
    <2> QED
      BY <2>1 DEF T
  <1>12. Combined(coefs, packets) = g[K]
    BY <1>6, <1>11 DEF Combined, Sum
  <1>13. g[K] \in Contents
    BY CodeAssumption
  <1>14. \A n \in Symbols : g[K][n] = Dot(coefs, Across(packets, n))
    BY <1>1, SumsAre
  <1> QED
    BY <1>12, <1>13, <1>14

\* Every packet, one of data too, is at every symbol the product of its row and the data.
LEMMA EncodedIs ==
  ASSUME NEW s \in Slots
  PROVE  /\ Encoded[s] \in Contents
         /\ \A n \in Symbols : Encoded[s][n] = Dot(Generator[s], Across(Data, n))
         /\ s \in Rows => Encoded[s] = Data[s]
  <1>1. Data \in [Rows -> Contents]
    BY DataAssumption DEF Contents
  <1>2. s \in Rows <=> s < K
    BY CodeAssumption DEF Rows, Slots
  <1>3. Encoded[s] = IF s < K THEN Data[s] ELSE Combined(Generator[s], Data)
    BY DEF Encoded
  <1>4. CASE s < K
    <2>1. Encoded[s] = Data[s] /\ s \in Rows /\ s \in Lines
      BY <1>2, <1>3, <1>4, RowsAreLines
    <2>2. Generator[s] = Unit(s)
      BY <1>4 DEF Generator
    <2>3. ASSUME NEW n \in Symbols PROVE Data[s][n] = Dot(Unit(s), Across(Data, n))
      <3>1. PICK x \in Vectors : x = Across(Data, n)
        BY <1>1, AcrossType
      <3>2. Dot(Unit(s), x) = x[s]
        BY <2>1, UnitIs, DotUnit, DotCommutes
      <3>3. x[s] = Data[s][n]
        BY <2>1, <3>1 DEF Across
      <3> QED
        BY <3>1, <3>2, <3>3
    <2> QED
      BY <1>1, <2>1, <2>2, <2>3
  <1>5. CASE ~(s < K)
    <2>1. PICK v \in Vectors : v = Generator[s]
      BY GeneratorType
    <2>2. Encoded[s] = Combined(v, Data)
      BY <1>3, <1>5, <2>1
    <2> QED
      BY <1>1, <1>2, <1>5, <2>1, <2>2, CombinedIs
  <1> QED
    BY <1>4, <1>5

\* The row of the inverse gives the row's packet of data back from K packets that are
\* right.
LEMMA RowComesBack ==
  ASSUME NEW f \in [Rows -> Slots], NEW m \in Matrices, Inverts(Taking(f), m),
         NEW packets \in [Rows -> Contents], \A r \in Rows : packets[r] = Encoded[f[r]],
         NEW r \in Rows, NEW g \in [0..K -> Contents], Sums(g, m[r], packets)
  PROVE  g[K] = Encoded[r]
  <1>1. r \in Lines /\ r \in Slots /\ Data \in [Rows -> Contents]
    BY RowsAreLines, CodeAssumption, DataAssumption DEF Rows, Slots, Contents
  <1>2. PICK u \in Vectors : u = m[r]
    BY <1>1 DEF Matrices, Vectors
  <1>3. ASSUME NEW n \in Symbols PROVE g[K][n] = Encoded[r][n]
    <2>1. PICK x \in Vectors : x = Across(Data, n)
      BY <1>1, AcrossType
    <2>2. PICK y \in Vectors : y = Across(packets, n)
      BY AcrossType
    <2>3. ASSUME NEW l \in Lines PROVE y[l] = Dot(Taking(f)[l], x)
      <3>1. l \in Rows /\ f[l] \in Slots
        BY RowsAreLines
      <3>2. y[l] = Encoded[f[l]][n]
        BY <2>2, <3>1 DEF Across
      <3>3. Encoded[f[l]][n] = Dot(Generator[f[l]], x)
        BY <2>1, <3>1, EncodedIs
      <3> QED
        BY <3>2, <3>3 DEF Taking
    <2>4. Image(m, y, x)
      <3>1. Image(Taking(f), x, y)
        BY <2>3 DEF Image
      <3> QED
        BY <3>1 DEF Inverts
    <2>5. x[r] = Dot(u, y)
      BY <1>1, <1>2, <2>4 DEF Image
    <2>6. g[K][n] = Dot(u, y)
      BY <1>2, <2>2, SumsAre
    <2>7. x[r] = Encoded[r][n]
      BY <1>1, <2>1, EncodedIs DEF Across
    <2> QED
      BY <2>5, <2>6, <2>7
  <1>4. g[K] \in Contents /\ Encoded[r] \in Contents
    BY <1>1, EncodedIs, CodeAssumption
  <1> QED
    BY <1>3, <1>4 DEF Contents

\* Rebuild sums up in the buffer what it reads there, as long as it does not read the
\* row that it writes.
LEMMA RebuildSums ==
  ASSUME Rebuild, row \in Slots, content \in [Slots -> Contents], matrix[row] \in Vectors,
         idxs \in [Rows -> Slots], \A col \in Rows : idxs[col] # row,
         NEW packets \in [Rows -> Contents], \A col \in Rows : packets[col] = content[idxs[col]]
  PROVE  \E g \in [0..K -> Contents] : /\ Sums(g, matrix[row], packets)
                                       /\ content' = [content EXCEPT ![row] = g[K]]
  <1> DEFINE Upto[n \in 0..K] ==
               IF n = 0 THEN Emptied(content)
               ELSE LET c == Upto[n - 1]
                    IN  [c EXCEPT ![row] = AddMul(@, c[idxs[n - 1]], matrix[row][n - 1])]
             Body(f) == [n \in 0..K |->
               IF n = 0 THEN Emptied(content)
               ELSE [f[n - 1] EXCEPT ![row] = AddMul(f[n - 1][row], f[n - 1][idxs[n - 1]], matrix[row][n - 1])]]
  <1>1. PICK coefs \in Vectors : coefs = matrix[row]
    OBVIOUS
  <1>2. PICK g \in [0..K -> Contents] : Sums(g, coefs, packets)
    BY SumsExist
  <1>3. PICK u : u = [n \in 0..K |-> [content EXCEPT ![row] = g[n]]]
    OBVIOUS
  <1>4. u[0] = Emptied(content)
    <2>1. 0 \in 0..K
      BY CodeAssumption
    <2>2. u[0] = [content EXCEPT ![row] = g[0]] /\ g[0] = Blank
      BY <1>2, <1>3, <2>1 DEF Sums
    <2> QED
      BY <2>2 DEF Emptied
  <1>5. ASSUME NEW n \in 1..K, NEW c, c = u[n - 1]
        PROVE  u[n] = [c EXCEPT ![row] = AddMul(c[row], c[idxs[n - 1]], coefs[n - 1])]
    <2>1. n - 1 \in 0..K /\ n \in 0..K /\ n - 1 \in Rows
      BY CodeAssumption DEF Rows
    <2>2. PICK q \in Slots : q = idxs[n - 1] /\ q # row
      BY <2>1
    <2>3. c = [content EXCEPT ![row] = g[n - 1]] /\ u[n] = [content EXCEPT ![row] = g[n]]
      BY <1>3, <1>5, <2>1
    <2>4. c[row] = g[n - 1] /\ c[q] = content[q]
      BY <2>2, <2>3
    <2>5. packets[n - 1] = content[q]
      BY <2>1, <2>2
    <2>6. g[n] = AddMul(c[row], c[q], coefs[n - 1])
      BY <1>2, <2>4, <2>5 DEF Sums
    <2>7. [c EXCEPT ![row] = g[n]] = [content EXCEPT ![row] = g[n]]
      BY <2>3
    <2> QED
      BY <2>2, <2>3, <2>6, <2>7
  <1>6. u = Body(u)
    <2>1. ASSUME NEW n \in 0..K
          PROVE  u[n] = IF n = 0 THEN Emptied(content)
                        ELSE [u[n - 1] EXCEPT ![row] = AddMul(u[n - 1][row], u[n - 1][idxs[n - 1]], matrix[row][n - 1])]
      <3>1. CASE n = 0
        BY <1>4, <3>1
      <3>2. CASE n # 0
        <4>1. n \in 1..K
          BY <3>2
        <4> QED
          BY <1>1, <1>5, <3>2, <4>1
      <3> QED
        BY <3>1, <3>2
    <2>2. u = [n \in 0..K |-> u[n]]
      BY <1>3
    <2> QED
      BY <2>1, <2>2
  <1>7. Upto = CHOOSE f : f = Body(f)
    BY DEF Upto
  <1>8. Upto = Body(Upto)
    BY <1>6, <1>7
  <1>9. PICK h : h = Upto
    OBVIOUS
  <1>10. content' = h[K]
    BY <1>9 DEF Rebuild, Upto
  <1>11. \A n \in 0..K : h[n] = Body(h)[n]
    BY <1>8, <1>9
  <1> HIDE DEF Upto
  <1> DEFINE T == {n \in 0..K : h[n] = u[n]}
  <1>12. 0 \in T
    <2>1. 0 \in 0..K
      BY CodeAssumption
    <2>2. h[0] = Emptied(content)
      BY <1>11, <2>1
    <2> QED
      BY <1>4, <2>1, <2>2
  <1>13. ASSUME NEW n \in 1..K, n - 1 \in T PROVE n \in T
    <2>1. n \in 0..K /\ n # 0 /\ h[n - 1] = u[n - 1]
      BY <1>13
    <2>2. h[n] = Body(h)[n] /\ u[n] = Body(u)[n]
      BY <1>6, <1>11, <2>1
    <2>3. Body(h)[n] = Body(u)[n]
      BY <2>1
    <2> QED
      BY <2>1, <2>2, <2>3
  <1> HIDE DEF T
  <1>14. 0..K \subseteq T
    BY <1>12, <1>13, CodeAssumption, InductionUpTo
  <1>15. h[K] = u[K]
    <2>1. K \in T
      BY <1>14, CodeAssumption
    <2> QED
      BY <2>1 DEF T
  <1>16. u[K] = [content EXCEPT ![row] = g[K]]
    BY <1>3, CodeAssumption
  <1> QED
    BY <1>1, <1>2, <1>10, <1>15, <1>16

-----------------------------------------------------------------------------
\* Every slot that is taken to hold its packet does.
HoldsWhatIsRight == \A s \in Slots : pkts[s] = s => content[s] = Encoded[s]

\* fec_decode has not called matrix_inv yet, or it has with the rows of the packets named,
\* and rebuilds only with what it returned.
InvertsWhatIsNamed ==
  /\ mpc = "idle" => /\ used = {} /\ swaps = <<>>
                     /\ caller = "fec_decode" /\ pc \in {"shuffle", "failed"}
  /\ mpc # "idle" => MatrixInv
  /\ caller = "fec_decode" /\ mpc # "idle" => original = Taking(idxs) /\ i = K
  /\ caller = "fec_decode" /\ pc \in {"rebuild", "decoded"} => mpc = "inverted"
  /\ caller = "test" => pc = "decoded"

CodecInv == /\ DecodeInv
            /\ caller \in {"fec_decode", "test"}
            /\ content \in [Slots -> Contents]
            /\ HoldsWhatIsRight
            /\ InvertsWhatIsNamed

LEMMA InitCodec == CodecInit => CodecInv
  <1>1. ASSUME DecodeInit PROVE CodecInv
    <2>1. Init /\ DecodeInv
      BY <1>1, InitDecode DEF DecodeInit
    <2>2. Blank \in Contents
      BY Constants DEF Blank, Contents
    <2>3. content = [s \in Slots |-> IF pkts[s] = s THEN Encoded[s] ELSE Blank]
      BY <1>1 DEF DecodeInit
    <2>4. content \in [Slots -> Contents] /\ HoldsWhatIsRight
      BY <2>2, <2>3, EncodedIs DEF HoldsWhatIsRight
    <2>5. InvertsWhatIsNamed
      BY <1>1, <2>1 DEF DecodeInit, Init, InvertsWhatIsNamed
    <2> QED
      BY <1>1, <2>1, <2>4, <2>5 DEF DecodeInit, CodecInv
  <1>2. ASSUME TestInit PROVE CodecInv
    <2>1. DecodeInv
      <3>1. \A r \in Rows : r \in Slots
        BY CodeAssumption DEF Rows, Slots
      <3>2. /\ idxs = [r \in Rows |-> r] /\ given = idxs
            /\ pkts = [s \in Slots |-> s] /\ i = K /\ row = K /\ pc = "decoded"
        BY <1>2 DEF TestInit
      <3>3. TypeOK
        BY <3>1, <3>2, CodeAssumption DEF TypeOK
      <3>4. Different(idxs)
        BY <3>2 DEF Different
      <3> QED
        BY <3>1, <3>2, <3>3, <3>4
        DEF DecodeInv, Whole, Passed, InPlace, Rebuilding, Ends, FailsOnlyOnRepeat
    <2>2. content \in [Slots -> Contents] /\ HoldsWhatIsRight
      <3>1. content = [s \in Slots |-> Encoded[s]]
        BY <1>2 DEF TestInit, Encoded
      <3> QED
        BY <3>1, EncodedIs DEF HoldsWhatIsRight
    <2>3. MatrixInv /\ mpc = "pivot"
      <3>1. PICK m \in [Lines -> [Lines -> Entries]] : MatrixInit(m)
        BY <1>2 DEF TestInit
      <3>2. m \in Matrices
        BY DataAssumption DEF Matrices
      <3> QED
        BY <3>1, <3>2, MatrixInitInv DEF MatrixInit
    <2>4. caller = "test" /\ pc = "decoded"
      BY <1>2 DEF TestInit
    <2> QED
      BY <2>1, <2>2, <2>3, <2>4 DEF CodecInv, InvertsWhatIsNamed
  <1> QED
    BY <1>1, <1>2 DEF CodecInit

LEMMA ShuffleCodec == ASSUME CodecInv, Shuffle PROVE [Next]_vars /\ CodecInv'
  <1>1. Next /\ UNCHANGED <<matrix, used, swaps, mpc, original, content, caller>>
    BY DEF Shuffle, Next, matrixVars
  <1>2. DecodeInv'
    BY <1>1, NextDecode DEF CodecInv
  <1>3. UNCHANGED pkts /\ pc = "shuffle" /\ pc' \in {"shuffle", "failed"} /\ i < K /\ caller = "fec_decode"
    BY DEF Shuffle, ShuffleNext, ShuffleSwap, ShuffleConflict, CodecInv, InvertsWhatIsNamed
  <1>4. mpc = "idle"
    BY <1>3, CodeAssumption DEF CodecInv, InvertsWhatIsNamed
  <1>5. HoldsWhatIsRight'
    BY <1>1, <1>3 DEF CodecInv, HoldsWhatIsRight
  <1>6. InvertsWhatIsNamed'
    BY <1>1, <1>3, <1>4 DEF CodecInv, InvertsWhatIsNamed
  <1> QED
    BY <1>1, <1>2, <1>5, <1>6 DEF CodecInv

LEMMA TakeRowsCodec == ASSUME CodecInv, TakeRows PROVE [Next]_vars /\ CodecInv'
  <1>1. /\ pc = "shuffle" /\ i = K /\ mpc = "idle" /\ mpc' = "pivot"
        /\ matrix' = Taking(idxs) /\ original' = matrix'
        /\ used' = {} /\ swaps' = <<>> /\ caller' = "fec_decode"
        /\ UNCHANGED <<idxs, i, row, pkts, pc, given, content, caller>>
    BY RowsAreLines DEF TakeRows, Taking, vars, CodecInv, InvertsWhatIsNamed
  <1>2. UNCHANGED vars
    BY <1>1 DEF vars
  <1>3. DecodeInv'
    BY <1>2, NextDecode DEF CodecInv
  <1>4. Taking(idxs) \in Matrices
    BY TakingType DEF CodecInv, DecodeInv, TypeOK
  <1>5. MatrixInv'
    <2>1. MatrixTypeOK'
      BY <1>1, <1>4 DEF MatrixTypeOK
    <2>2. Cardinality(used') = Len(swaps')
      BY <1>1, FS_EmptySet
    <2>3. ExchangedSoFar'
      BY <1>1, <1>4, NothingExchanged DEF ExchangedSoFar
    <2> QED
      BY <1>1, <2>1, <2>2, <2>3 DEF MatrixInv
  <1>6. InvertsWhatIsNamed'
    BY <1>1, <1>5 DEF InvertsWhatIsNamed
  <1>7. HoldsWhatIsRight'
    BY <1>1 DEF CodecInv, HoldsWhatIsRight
  <1> QED
    BY <1>1, <1>2, <1>3, <1>6, <1>7 DEF CodecInv

LEMMA InvertCodec == ASSUME CodecInv, Invert PROVE [Next]_vars /\ CodecInv'
  <1>1. MatrixNext /\ UNCHANGED <<idxs, i, row, pkts, pc, given, content, caller>> /\ UNCHANGED vars
    BY DEF Invert, vars
  <1>2. DecodeInv'
    BY <1>1, NextDecode DEF CodecInv
  <1>3. mpc # "idle" /\ mpc # "inverted" /\ mpc' # "idle" /\ original' = original
    BY <1>1 DEF MatrixNext, PivotOnDiagonal, PivotFound, PivotNotFound, PivotsDone, Descramble,
                Descrambled, Eliminate
  <1>4. MatrixInv'
    BY <1>1, <1>3, MatrixStepInv DEF CodecInv, InvertsWhatIsNamed
  <1>5. InvertsWhatIsNamed'
    BY <1>1, <1>3, <1>4 DEF CodecInv, InvertsWhatIsNamed
  <1>6. HoldsWhatIsRight'
    BY <1>1 DEF CodecInv, HoldsWhatIsRight
  <1> QED
    BY <1>1, <1>2, <1>5, <1>6 DEF CodecInv

LEMMA InvertedCodec == ASSUME CodecInv, Inverted PROVE [Next]_vars /\ CodecInv'
  <1>1. /\ pc = "shuffle" /\ mpc = "inverted" /\ pc' = "rebuild" /\ caller = "fec_decode"
        /\ UNCHANGED <<idxs, i, row, pkts, given, content, caller>>
        /\ UNCHANGED <<matrix, used, swaps, mpc, original>>
    BY DEF Inverted, matrixVars, CodecInv, InvertsWhatIsNamed
  <1>2. i = K /\ original = Taking(idxs) /\ MatrixInv
    BY <1>1 DEF CodecInv, InvertsWhatIsNamed
  <1>3. Different(idxs)
    <2>1. matrix \in Matrices /\ Inverts(original, matrix)
      BY <1>1, <1>2 DEF MatrixInv, MatrixTypeOK
    <2> QED
      BY <1>2, <2>1, InvertedDifferent DEF CodecInv, DecodeInv, TypeOK
  <1>4. Next
    BY <1>1, <1>2, <1>3 DEF Next, BuildMatrix
  <1>5. DecodeInv'
    BY <1>4, NextDecode DEF CodecInv
  <1>6. MatrixInv'
    BY <1>1, <1>2
    DEF MatrixInv, MatrixTypeOK, ExchangedSoFar
  <1>7. InvertsWhatIsNamed' /\ HoldsWhatIsRight'
    BY <1>1, <1>2, <1>6 DEF CodecInv, InvertsWhatIsNamed, HoldsWhatIsRight
  <1> QED
    BY <1>1, <1>4, <1>5, <1>7 DEF CodecInv

LEMMA NotInvertedCodec == ASSUME CodecInv, NotInverted PROVE [Next]_vars /\ CodecInv'
  <1>1. /\ pc = "shuffle" /\ mpc = "singular" /\ pc' = "failed" /\ caller = "fec_decode"
        /\ UNCHANGED <<idxs, i, row, pkts, given, content, caller>>
        /\ UNCHANGED <<matrix, used, swaps, mpc, original>>
    BY DEF NotInverted, matrixVars, CodecInv, InvertsWhatIsNamed
  <1>2. i = K /\ original = Taking(idxs) /\ MatrixInv
    BY <1>1 DEF CodecInv, InvertsWhatIsNamed
  <1>3. ~Different(idxs)
    <2>1. Singular(original)
      BY <1>1, <1>2 DEF MatrixInv
    <2> QED
      BY <1>2, <2>1, DifferentNotSingular DEF CodecInv, DecodeInv, TypeOK
  <1>4. Next
    BY <1>1, <1>2, <1>3 DEF Next, BuildMatrix
  <1>5. DecodeInv'
    BY <1>4, NextDecode DEF CodecInv
  <1>6. MatrixInv'
    BY <1>1, <1>2
    DEF MatrixInv, MatrixTypeOK, ExchangedSoFar
  <1>7. InvertsWhatIsNamed' /\ HoldsWhatIsRight'
    BY <1>1, <1>2, <1>6 DEF CodecInv, InvertsWhatIsNamed, HoldsWhatIsRight
  <1> QED
    BY <1>1, <1>4, <1>5, <1>7 DEF CodecInv

LEMMA RebuildCodec == ASSUME CodecInv, Rebuild PROVE [Next]_vars /\ CodecInv'
  <1>1. /\ pc = "rebuild" /\ row < K /\ idxs[row] >= K /\ row' = row + 1
        /\ UNCHANGED <<idxs, i, pc, given, caller>>
        /\ UNCHANGED <<matrix, used, swaps, mpc, original>>
        /\ pkts' = [pkts EXCEPT ![row] = IF content'[row] = Encoded[row] THEN row ELSE NoPacket]
    BY DEF Rebuild, matrixVars
  <1>2. /\ caller = "fec_decode" /\ mpc = "inverted" /\ i = K
        /\ original = Taking(idxs) /\ MatrixInv
    BY <1>1 DEF CodecInv, InvertsWhatIsNamed
  <1>3. /\ idxs \in [Rows -> Slots] /\ pkts \in [Slots -> Slots \union {NoPacket}]
        /\ content \in [Slots -> Contents]
    BY DEF CodecInv, DecodeInv, TypeOK
  <1>4. /\ row \in Rows /\ row \in Slots /\ row \in Lines
    BY <1>1, CodeAssumption, RowsAreLines DEF CodecInv, DecodeInv, TypeOK, Rows, Slots
  <1>5. \A col \in Rows : idxs[col] # row
    <2>1. \A col \in Rows : InPlace(col)
      BY <1>2, CodeAssumption DEF CodecInv, DecodeInv, Passed, Rows
    <2>2. ASSUME NEW col \in Rows, idxs[col] = row PROVE FALSE
      <3>1. idxs[col] < K
        BY <1>1, <2>2
      <3>2. idxs[col] = col
        BY <1>3, <2>1, <3>1, CodeAssumption DEF InPlace, Slots
      <3> QED
        BY <1>1, <1>4, <2>2, <3>2, CodeAssumption DEF Rows
    <2> QED
      BY <2>2
  <1>6. PICK packets \in [Rows -> Contents] : packets = [col \in Rows |-> content[idxs[col]]]
    BY <1>3
  <1>7. \A col \in Rows : packets[col] = Encoded[idxs[col]]
    BY <1>3, <1>6 DEF CodecInv, HoldsWhatIsRight, DecodeInv, Whole
  <1>8. matrix \in Matrices /\ Inverts(Taking(idxs), matrix)
    BY <1>2 DEF MatrixInv, MatrixTypeOK
  <1>9. matrix[row] \in Vectors
    BY <1>4, <1>8 DEF Matrices, Vectors
  <1>10. PICK g \in [0..K -> Contents] : /\ Sums(g, matrix[row], packets)
                                         /\ content' = [content EXCEPT ![row] = g[K]]
    BY <1>3, <1>4, <1>5, <1>6, <1>9, RebuildSums
  <1>11. g[K] = Encoded[row]
    BY <1>3, <1>4, <1>7, <1>8, <1>10, RowComesBack, ZenonT(40)
  <1>12. content' = [content EXCEPT ![row] = Encoded[row]]
    BY <1>10, <1>11
  <1>13. pkts' = [pkts EXCEPT ![row] = row]
    <2>1. content'[row] = Encoded[row]
      BY <1>3, <1>4, <1>12
    <2> QED
      BY <1>1, <2>1
  <1>14. \A col \in Rows : Cleared[idxs[col]] = idxs[col]
    BY <1>3, <1>4, <1>5 DEF Cleared, CodecInv, DecodeInv, Whole
  <1>15. Next
    BY <1>1, <1>13, <1>14 DEF Next, RebuildRow
  <1>16. DecodeInv'
    BY <1>15, NextDecode DEF CodecInv
  <1>17. content' \in [Slots -> Contents]
    BY <1>3, <1>4, <1>12, EncodedIs
  <1>18. HoldsWhatIsRight'
    <2>1. ASSUME NEW s \in Slots, pkts'[s] = s PROVE content'[s] = Encoded[s]
      <3>1. CASE s = row
        BY <1>3, <1>12, <3>1
      <3>2. CASE s # row
        BY <1>3, <1>12, <1>13, <2>1, <3>2 DEF CodecInv, HoldsWhatIsRight
      <3> QED
        BY <3>1, <3>2
    <2> QED
      BY <2>1 DEF HoldsWhatIsRight
  <1>19. MatrixInv'
    BY <1>1, <1>2
    DEF MatrixInv, MatrixTypeOK, ExchangedSoFar
  <1>20. InvertsWhatIsNamed'
    BY <1>1, <1>2, <1>19 DEF CodecInv, InvertsWhatIsNamed
  <1> QED
    BY <1>1, <1>15, <1>16, <1>17, <1>18, <1>20 DEF CodecInv

LEMMA KeepCodec == ASSUME CodecInv, Keep \/ Finish PROVE [Next]_vars /\ CodecInv'
  <1>1. Next /\ UNCHANGED <<matrix, used, swaps, mpc, original, content, caller>>
    BY DEF Keep, Finish, Next, matrixVars
  <1>2. pc = "rebuild" /\ pc' \in {"rebuild", "decoded"} /\ UNCHANGED <<idxs, i, pkts>>
    BY DEF Keep, Finish, KeepRow, Return
  <1>3. caller = "fec_decode" /\ mpc = "inverted" /\ MatrixInv
    BY <1>2 DEF CodecInv, InvertsWhatIsNamed
  <1>4. DecodeInv'
    BY <1>1, NextDecode DEF CodecInv
  <1>5. MatrixInv'
    BY <1>1, <1>3 DEF MatrixInv, MatrixTypeOK, ExchangedSoFar
  <1>6. InvertsWhatIsNamed' /\ HoldsWhatIsRight'
    BY <1>1, <1>2, <1>3, <1>5 DEF CodecInv, InvertsWhatIsNamed, HoldsWhatIsRight
  <1> QED
    BY <1>1, <1>4, <1>6 DEF CodecInv

\* Every step of the code with its arithmetic is a step of fec_decode or none.
LEMMA NextCodec == CodecInv /\ [CodecNext]_codecVars => [Next]_vars /\ CodecInv'
  <1>1. CASE UNCHANGED codecVars
    <2>1. /\ UNCHANGED vars /\ UNCHANGED <<idxs, pkts, pc, i, content, caller>>
          /\ UNCHANGED <<matrix, used, swaps, mpc, original>>
      BY <1>1 DEF codecVars, vars, matrixVars
    <2>2. ASSUME CodecInv PROVE CodecInv'
      <3>1. DecodeInv'
        BY <2>1, <2>2, NextDecode DEF CodecInv
      <3>2. MatrixInv => MatrixInv'
        BY <2>1 DEF MatrixInv, MatrixTypeOK, ExchangedSoFar
      <3> QED
        BY <2>1, <2>2, <3>1, <3>2 DEF CodecInv, InvertsWhatIsNamed, HoldsWhatIsRight
    <2> QED
      BY <2>1, <2>2
  <1> QED
    BY <1>1, ShuffleCodec, TakeRowsCodec, InvertCodec, InvertedCodec, NotInvertedCodec,
       RebuildCodec, KeepCodec DEF CodecNext

LEMMA CodecInvariant == Codec => []CodecInv
  BY InitCodec, NextCodec, PTL DEF Codec

\* For every K, every N, every length and every packets of data, over every field: fec_new's
\* generator, matrix_inv and the sums of fec_decode do what FecDecode takes as given.
\* The rows of K different packets are inverted, those of a packet named twice are not,
\* and a row is rebuilt right, in the buffer it is rebuilt from.
THEOREM CodecImplementsDecode == Codec => ImplementsDecode
  <1>1. CodecInit => (caller = "fec_decode" => Init)
    BY DEF CodecInit, DecodeInit, TestInit
  <1>2. Codec => (caller = "fec_decode" => Init) /\ [][Next]_vars
    BY <1>1, InitCodec, NextCodec, PTL DEF Codec
  <1> QED
    BY <1>2 DEF ImplementsDecode

\* For every K and N: what fec_decode returns 1 for is the K packets of data.
THEOREM CodecDecodesRight == Codec => []DecodesRight
  <1>1. CodecInv => DecodesRight
    BY CodeAssumption DEF CodecInv, DecodeInv, Rebuilding, Ends, DecodesRight, TypeOK, Rows
  <1> QED
    BY <1>1, CodecInvariant, PTL

\* For every K and N: no matrix of K different packets is given up as singular.
THEOREM CodecFailsOnlyOnRepeat == Codec => []FailsOnlyOnRepeat
  <1>1. CodecInv => FailsOnlyOnRepeat
    BY DEF CodecInv, DecodeInv
  <1> QED
    BY <1>1, CodecInvariant, PTL

\* For every K and N: what matrix_inv returns to either caller is right.
THEOREM CodecInverseRight == Codec => []InverseRight
  <1>1. CodecInv => InverseRight
    BY InvIsRight DEF CodecInv, InvertsWhatIsNamed, InverseRight
  <1> QED
    BY <1>1, CodecInvariant, PTL
=============================================================================
