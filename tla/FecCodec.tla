------------------------------ MODULE FecCodec ------------------------------
(***************************************************************************)
(* The code of src/rtp/fec/fec.c with its arithmetic: fec_new's generator, *)
(* fec_encode's packets, and fec_decode on what the packets hold.          *)
(* FecDecode takes it that the rows of K different packets can be inverted *)
(* and that a row rebuilt from right packets is right; here the generator  *)
(* is computed, the matrix is inverted step by step by FecMatrix, and the  *)
(* rows are summed up in the buffer.  pkts is a history variable: which    *)
(* slots hold what was encoded.                                            *)
(*                                                                         *)
(* matrix_inv has another caller, the test of fec_matrix.c: it may give it *)
(* any matrix, where fec_decode_matrix has rows of the generator only.     *)
(***************************************************************************)
EXTENDS FecDecode, FecMatrix

CONSTANTS Symbols,  \* positions in a packet: below len
          Data,     \* the K packets of data
          Entries   \* elements of the matrices that the test gives

ASSUME GeneratorAssumption == Order = K /\ N <= Group + 1
ASSUME DataAssumption == Data \in [Rows -> [Symbols -> Elements]] /\ Entries \subseteq Elements

VARIABLES content,  \* what the slots hold
          caller    \* of matrix_inv

codecVars == <<vars, matrixVars, content, caller>>

Blank == [n \in Symbols |-> 0]

-----------------------------------------------------------------------------
\* fec_new: the powers of 0, and of the elements in the order of gf_polys
Vandermonde(r) == IF r = 0 THEN Unit(0) ELSE [col \in Rows |-> gf_polys(((r - 1) * col) % Group)]

\* matrix_inv_vandermonde finds the points in the second column.
Point(r) == Vandermonde(r)[1]

\* The generator: the identity above, below it the powers times the inverse of the
\* powers above.
Generator ==
  LET inverse == VandermondeInverse([r \in Rows |-> IF K = 1 THEN 1 ELSE Point(r)])
  IN  [s \in Slots |-> IF s < K THEN Unit(s) ELSE RowTimes(Vandermonde(s), inverse)]

\* The sum of K packets, each times a coefficient.
Combined(coefs, packets) ==
  LET Sum[n \in 0..K] ==
        IF n = 0 THEN Blank ELSE AddMul(Sum[n - 1], packets[n - 1], coefs[n - 1])
  IN  Sum[K]

\* fec_encode
Encoded == [s \in Slots |-> IF s < K THEN Data[s] ELSE Combined(Generator[s], Data)]

-----------------------------------------------------------------------------
DecodeInit == /\ caller = "fec_decode"
              /\ Init
              /\ content = [s \in Slots |-> IF pkts[s] = s THEN Encoded[s] ELSE Blank]
              /\ matrix = Identity /\ original = Identity
              /\ used = {} /\ swaps = <<>> /\ mpc = "idle"

TestInit == /\ caller = "test"
            /\ \E m \in [Lines -> [Lines -> Entries]] : MatrixInit(m)
            /\ content = Encoded
            /\ idxs = [r \in Rows |-> r] /\ given = idxs
            /\ pkts = [s \in Slots |-> s] /\ i = K /\ row = K /\ pc = "decoded"

CodecInit == DecodeInit \/ TestInit

Shuffle == /\ ShuffleNext \/ ShuffleSwap \/ ShuffleConflict
           /\ UNCHANGED <<matrixVars, content, caller>>

\* fec_decode_matrix: the rows of the packets there are
TakeRows == /\ pc = "shuffle" /\ i = K /\ mpc = "idle"
            /\ matrix' = [r \in Rows |-> Generator[idxs[r]]]
            /\ original' = matrix'
            /\ mpc' = "pivot"
            /\ UNCHANGED <<vars, used, swaps, content, caller>>

Invert == MatrixNext /\ UNCHANGED <<vars, content, caller>>

Inverted == /\ pc = "shuffle" /\ mpc = "inverted"
            /\ pc' = "rebuild"
            /\ UNCHANGED <<idxs, i, row, pkts, given, matrixVars, content, caller>>

NotInverted == /\ pc = "shuffle" /\ mpc = "singular"
               /\ pc' = "failed"
               /\ UNCHANGED <<idxs, i, row, pkts, given, matrixVars, content, caller>>

\* Mutant: the row is summed up over what the slot held.
EmptiedNot(c) == c

Emptied(c) == [c EXCEPT ![row] = Blank]

\* bzero, and gf_add_mul for each column, in the buffer the columns are read from
Rebuild ==
  /\ pc = "rebuild" /\ row < K /\ idxs[row] >= K
  /\ LET Upto[n \in 0..K] ==
           IF n = 0 THEN Emptied(content)
           ELSE LET c == Upto[n - 1]
                IN  [c EXCEPT ![row] = AddMul(@, c[idxs[n - 1]], matrix[row][n - 1])]
     IN  content' = Upto[K]
  /\ pkts' = [pkts EXCEPT ![row] = IF content'[row] = Encoded[row] THEN row ELSE NoPacket]
  /\ row' = row + 1
  /\ UNCHANGED <<idxs, i, pc, given, matrixVars, caller>>

Keep == KeepRow /\ UNCHANGED <<matrixVars, content, caller>>

Finish == Return /\ UNCHANGED <<matrixVars, content, caller>>

CodecNext == Shuffle \/ TakeRows \/ Invert \/ Inverted \/ NotInverted \/ Rebuild \/ Keep \/ Finish

\* As in FecDecode: a call runs until it returns.
Codec == CodecInit /\ [][CodecNext]_codecVars /\ WF_codecVars(CodecNext)

-----------------------------------------------------------------------------
\* What FecDecode takes as given: fec_decode's matrix of rows can be inverted if and
\* only if no packet was named twice, and a row is rebuilt right from packets that are
\* right, and from no others.
ImplementsDecode == (caller = "fec_decode" => Init) /\ [][Next]_vars
=============================================================================
