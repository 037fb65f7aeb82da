------------------------------ MODULE FecDecode ------------------------------
(***************************************************************************)
(* fec_decode of src/rtp/fec/fec.c, loop by loop: K packets out of N are   *)
(* enough to have the K data packets back, in place, in the buffer they    *)
(* were received into.                                                     *)
(*                                                                         *)
(* Packet s belongs in slot s of the buffer; slots 0 .. K - 1 are the data *)
(* packets.  idxs names K slots that were received.  fec_shuffle permutes  *)
(* idxs so that every data packet received is at its own index; the rows   *)
(* that are left are rebuilt in place from the packets idxs names.  What a *)
(* slot holds is abstracted to the packet it holds right, or NoPacket; the *)
(* arithmetic of one row is abstracted to the fact that it gives the row's *)
(* packet when it reads K different packets, each of them right.           *)
(***************************************************************************)
EXTENDS Integers

CONSTANTS K,          \* fec->k: packets of data
          N,          \* fec->n: packets of data and parity
          NoPacket    \* what a slot holds that holds no packet right

\* What fec_new's assertions mean to demand of k and n; beyond 256 rows of the
\* generator matrix repeat.
ASSUME CodeAssumption == K \in Nat /\ N \in Nat /\ 0 < K /\ K <= N /\ N <= 256
ASSUME NoPacketAssumption == NoPacket \notin Nat

VARIABLES idxs,       \* the array of the caller, permuted in place
          i,          \* index of fec_shuffle's loop
          row,        \* row of the loop that rebuilds
          pkts,       \* the packet buffer
          pc,         \* which loop fec_decode is in, and what it returned
          given       \* history: idxs as the caller passed it

vars == <<idxs, i, row, pkts, pc, given>>

Rows  == 0 .. K - 1
Slots == 0 .. N - 1

Different(f) == \A r, s \in Rows : f[r] = f[s] => r = s
Named(f) == {f[r] : r \in Rows}

-----------------------------------------------------------------------------
\* Every slot idxs names holds its packet; others hold theirs, or nothing right.
Init == /\ idxs \in [Rows -> Slots]
        /\ pkts \in [Slots -> Slots \union {NoPacket}]
        /\ \A s \in Slots : pkts[s] = s \/ (pkts[s] = NoPacket /\ s \notin Named(idxs))
        /\ i = 0 /\ row = 0
        /\ pc = "shuffle"
        /\ given = idxs

\* Mutant: a packet of a lower slot is taken to be in place.
InPlaceBelow(r) == idxs[r] >= K \/ idxs[r] <= r

InPlace(r) == idxs[r] >= K \/ idxs[r] = r

\* fec_shuffle
ShuffleNext == /\ pc = "shuffle" /\ i < K /\ InPlace(i)
               /\ i' = i + 1
               /\ UNCHANGED <<idxs, row, pkts, pc, given>>

\* Mutant: only half of the swap.
ShuffleSwapHalf == /\ pc = "shuffle" /\ i < K /\ ~InPlace(i)
                   /\ idxs[idxs[i]] # idxs[i]
                   /\ idxs' = [idxs EXCEPT ![i] = idxs[idxs[i]]]
                   /\ UNCHANGED <<i, row, pkts, pc, given>>

ShuffleSwap == /\ pc = "shuffle" /\ i < K /\ ~InPlace(i)
               /\ idxs[idxs[i]] # idxs[i]
               /\ idxs' = [idxs EXCEPT ![i] = idxs[idxs[i]], ![idxs[i]] = idxs[i]]
               /\ UNCHANGED <<i, row, pkts, pc, given>>

\* Mutant: no test for a conflict: the swap that changes nothing is made for ever.
ShuffleConflictMissed == /\ pc = "shuffle" /\ i < K /\ ~InPlace(i)
                         /\ idxs[idxs[i]] = idxs[i]
                         /\ UNCHANGED vars

ShuffleConflict == /\ pc = "shuffle" /\ i < K /\ ~InPlace(i)
                   /\ idxs[idxs[i]] = idxs[i]
                   /\ pc' = "failed"
                   /\ UNCHANGED <<idxs, i, row, pkts, given>>

\* fec_decode_matrix: the rows of K different packets can be inverted, two equal
\* rows cannot.
BuildMatrix == /\ pc = "shuffle" /\ i = K
               /\ pc' = IF Different(idxs) THEN "rebuild" ELSE "failed"
               /\ UNCHANGED <<idxs, i, row, pkts, given>>

\* One row: cleared, then summed up from the packets idxs names.
Cleared == [pkts EXCEPT ![row] = NoPacket]
RebuildRow ==
  /\ pc = "rebuild" /\ row < K /\ idxs[row] >= K
  /\ pkts' = [pkts EXCEPT ![row] =
                IF \A col \in Rows : Cleared[idxs[col]] = idxs[col] THEN row ELSE NoPacket]
  /\ row' = row + 1
  /\ UNCHANGED <<idxs, i, pc, given>>

KeepRow == /\ pc = "rebuild" /\ row < K /\ idxs[row] < K
           /\ row' = row + 1
           /\ UNCHANGED <<idxs, i, pkts, pc, given>>

Return == /\ pc = "rebuild" /\ row = K
          /\ pc' = "decoded"
          /\ UNCHANGED <<idxs, i, row, pkts, given>>

Next == \/ ShuffleNext \/ ShuffleSwap \/ ShuffleConflict \/ BuildMatrix
        \/ RebuildRow \/ KeepRow \/ Return

\* fec_decode is a function call: it runs until it returns.
Spec == Init /\ [][Next]_vars /\ WF_vars(Next)

-----------------------------------------------------------------------------
\* Type invariant.
TypeOK == /\ idxs \in [Rows -> Slots]
          /\ given \in [Rows -> Slots]
          /\ pkts \in [Slots -> Slots \union {NoPacket}]
          /\ i \in 0..K /\ row \in 0..K
          /\ pc \in {"shuffle", "rebuild", "decoded", "failed"}

\* When fec_decode returns 1, all K data packets are right and in place: no row is
\* rebuilt from a slot that was overwritten before it was read, none is left out.
DecodesRight == pc = "decoded" => \A r \in Rows : pkts[r] = r

\* It returns 0 only when the caller named a packet twice.
FailsOnlyOnRepeat == pc = "failed" => ~Different(given)

\* Both loops end, although the one of fec_shuffle does not advance when it swaps.
Terminates == <>(pc \in {"decoded", "failed"})
=============================================================================
