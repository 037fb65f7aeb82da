----------------------------- MODULE ErasureGroup -----------------------------
(***************************************************************************)
(* What a FEC group promises: it can be decoded from any K different       *)
(* packets of its N, whatever their order and however often each arrives.  *)
(***************************************************************************)
EXTENDS Integers, FiniteSets

CONSTANTS K, N

VARIABLES got,      \* the packets of the group received so far
          done,     \* the group was decoded
          answer    \* what the last call answered, -1 for a call without answer

gvars == <<got, done, answer>>

Start == got = {} /\ done = FALSE /\ answer = -1

Receive == /\ \E p \in 0 .. N - 1 : got' = got \union {p}
           /\ answer' = -1
           /\ UNCHANGED done

\* Decoding answers 1 from the first time that K packets are there.
Decode == /\ done' = (done \/ Cardinality(got) >= K)
          /\ answer' = IF done' THEN 1 ELSE 0
          /\ UNCHANGED got

\* The structure is used again, for the next group.
Renew == got' = {} /\ done' = FALSE /\ answer' = -1

Spec == Start /\ [][Receive \/ Decode \/ Renew]_gvars
=============================================================================
