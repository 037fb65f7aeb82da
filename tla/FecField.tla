------------------------------ MODULE FecField ------------------------------
(***************************************************************************)
(* What the rest of src/rtp/fec asks of fec_galois.h: a field in which the *)
(* sum of two equal elements is 0, and the powers of one element, which    *)
(* are all the others but 0.  FecGalois has the tables.                    *)
(***************************************************************************)
EXTENDS Integers

CONSTANTS Elements,                                \* the values of a gf
          GF_ADD(_, _), GF_MUL(_, _), GF_INV(_),
          Group,                                   \* powers before they repeat: 255
          gf_polys(_)                              \* the powers

\* The laws of one and two elements
OfTwo ==
  /\ {0, 1} \subseteq Elements
  /\ \A x, y \in Elements : /\ GF_ADD(x, y) \in Elements /\ GF_ADD(x, y) = GF_ADD(y, x)
                            /\ GF_MUL(x, y) \in Elements /\ GF_MUL(x, y) = GF_MUL(y, x)
  /\ \A x \in Elements : /\ GF_ADD(x, 0) = x /\ GF_ADD(x, x) = 0
                         /\ GF_MUL(x, 1) = x /\ GF_MUL(x, 0) = 0
                         /\ x # 0 => GF_INV(x) \in Elements /\ GF_MUL(x, GF_INV(x)) = 1

\* The laws of three, one of them among some
OfThree(some) ==
  \A x \in some : \A y, z \in Elements :
    /\ GF_ADD(GF_ADD(x, y), z) = GF_ADD(x, GF_ADD(y, z))
    /\ GF_MUL(GF_MUL(x, y), z) = GF_MUL(x, GF_MUL(y, z))
    /\ GF_MUL(x, GF_ADD(y, z)) = GF_ADD(GF_MUL(x, y), GF_MUL(x, z))

ASSUME FieldAssumption == OfTwo /\ OfThree(Elements)

ASSUME PowersAssumption ==
  /\ Group \in Nat \ {0}
  /\ gf_polys(0) = 1
  /\ \A m, n \in 0 .. Group - 1 :
       /\ gf_polys(m) \in Elements \ {0}
       /\ gf_polys((m + n) % Group) = GF_MUL(gf_polys(m), gf_polys(n))
       /\ gf_polys(m) = gf_polys(n) => m = n
=============================================================================
