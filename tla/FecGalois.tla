----------------------------- MODULE FecGalois ------------------------------
(***************************************************************************)
(* The arithmetic of src/rtp/fec/fec_galois.c: the field of 2^Bits         *)
(* elements whose tables gf_init fills from a primitive polynomial.  An    *)
(* element is an unsigned char, a number whose bits are coefficients.      *)
(***************************************************************************)
EXTENDS Integers, Sequences
LOCAL INSTANCE Bitwise

CONSTANTS Bits,  \* the degree of the polynomial: 8
          Prim   \* gf_prim_poly below that degree: the powers marked "1"

GF == 0 .. 2^Bits - 1

\* The order of the group the powers make: 255
GroupOrder == 2^Bits - 1

\* The sums
Add == [x \in GF |-> [y \in GF |-> x ^^ y]]

\* What alpha^Bits is: the first loop sums up the marked powers.
Reduction == LET Sum[n \in 0..Bits] == IF n = 0 THEN 0
                                       ELSE Sum[n - 1] + (IF n - 1 \in Prim THEN 2^(n - 1) ELSE 0)
             IN  Sum[Bits]

\* a^n of a^(n-1), shifted in a gf
TimesAlpha(g) == IF g >= 2^(Bits - 1) THEN Add[Reduction][(2 * g) % 2^Bits] ELSE 2 * g

\* 2^k powers from g on, each of them alpha times the one before
From[k \in 0..Bits, g \in GF] ==
  IF k = 0 THEN <<g>>
  ELSE LET half == From[k - 1, g] IN half \o From[k - 1, TimesAlpha(half[2^(k - 1)])]

\* gf_polys: alpha^0 up to alpha^(GroupOrder - 1)
Powers == From[Bits, 1]
Poly(n) == Powers[n + 1]

\* gf_logs of an element that is not 0
Logs == [x \in GF |-> IF x = 0 THEN GroupOrder ELSE CHOOSE n \in 0 .. GroupOrder - 1 : Poly(n) = x]

\* gf_mul and gf_inv
Mul == [x \in GF |-> [y \in GF |-> IF x = 0 \/ y = 0 THEN 0
                                   ELSE Poly((Logs[x] + Logs[y]) % GroupOrder)]]
Inv == [x \in GF |-> IF x \in {0, 1} THEN x ELSE Poly(GroupOrder - Logs[x])]

\* GF_ADD, GF_MUL and GF_INV
Plus(x, y) == Add[x][y]
Times(x, y) == Mul[x][y]
Reciprocal(x) == Inv[x]
=============================================================================
