----------------------------- MODULE MCFecCodec -----------------------------
(***************************************************************************)
(* FecCodec for TLC, with the tables that gf_init builds. The code is run  *)
(* over the field of 16 elements that lies within the 256, those whose     *)
(* powers repeat after 15, because there are too many triples of all 256   *)
(* to evaluate FieldAssumption. TablesAssumption evaluates what it comes   *)
(* to for all of them.                                                     *)
(***************************************************************************)
EXTENDS FecCodec, FecGalois

InnerPoly(n) == Poly(17 * n)
InnerField == {0} \union {InnerPoly(n) : n \in 0..14}

SomeEntries == {0, 1, InnerPoly(1)}

\* Packets whose every symbol a decoder has to tell apart, and one symbol that they share.
Units == [r \in Rows |-> [n \in 0..K |-> CASE n = r -> 1 [] n = K -> InnerPoly(r + 1)
                                           [] OTHER -> 0]]

Code == INSTANCE FecField
          WITH Elements <- GF, GF_ADD <- Plus, GF_MUL <- Times, GF_INV <- Reciprocal,
               Group <- GroupOrder, gf_polys <- Poly

\* What the proofs take the tables of the code for, they are.  The laws of three hold of
\* all elements when they hold of the single bits: every element is a sum of these, and
\* every one but 0 is a power of alpha, which is one of them.
ASSUME TablesAssumption == /\ Code!OfTwo
                           /\ Code!OfThree({2^b : b \in 0 .. Bits - 1})
                           /\ Code!PowersAssumption
                           /\ GF = {0} \union {Poly(n) : n \in 0 .. GroupOrder - 1}
=============================================================================
