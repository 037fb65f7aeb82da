------------------------------- MODULE FecGroup -------------------------------
(***************************************************************************)
(* The FEC group of src/rtp/fec/fec_group.c: the receiver's buffer for the *)
(* packets of one group, filled from a network that loses, repeats and     *)
(* reorders them, decoded when there are enough, and used again for the    *)
(* next group.                                                             *)
(*                                                                         *)
(* A packet's payload is abstracted to its length and to the packet itself:*)
(* a slot of buf holds its packet right, padding included, or Junk.  What  *)
(* fec_decode does with the slots it is given is FecDecode's matter; here  *)
(* it is one step with the outcome shown there.                            *)
(***************************************************************************)
EXTENDS Integers, FiniteSets

CONSTANTS K, N,       \* fec_k, fec_n
          FecLen,     \* fec_len: bytes of a slot
          CountMod,   \* rcvd_pkts counts modulo this: 256 for unsigned char
          Junk        \* a slot that does not hold its packet

ASSUME GroupAssumption == /\ K \in Nat /\ N \in Nat /\ 0 < K /\ K <= N
                          /\ FecLen \in Nat /\ 0 < FecLen
                          /\ CountMod \in Nat /\ N < CountMod   \* fec_n is an unsigned char
                          /\ Junk \notin Nat

VARIABLES buf, lengths, rcvd_pkts, decoded,   \* the fields of fec_group_t
          live,       \* buf and lengths are allocated: initialised, and not destroyed since
          sent,       \* the length of each packet of the group, as its sender made it
          answer,     \* what the last call returned, -1 for a call that returns nothing
          aborted     \* the assertion of fec_group_decode failed

vars == <<buf, lengths, rcvd_pkts, decoded, live, sent, answer, aborted>>

Rows  == 0 .. K - 1
Slots == 0 .. N - 1

-----------------------------------------------------------------------------
\* Data packets may be shorter than fec_len, even empty; parity packets are
\* fec_encode's and are not.
Sendable == {len \in [Slots -> 0 .. FecLen] : \A p \in Slots \ Rows : len[p] = FecLen}

\* fec_group_init
GroupInit == /\ buf = [s \in Slots |-> Junk]
             /\ lengths = [s \in Slots |-> 0]
             /\ rcvd_pkts = 0 /\ decoded = FALSE /\ live = TRUE
             /\ sent \in Sendable
             /\ answer = -1 /\ aborted = FALSE

\* fec_group_destroy, and fec_group_clear, which does not free the arrays it forgets:
\* what a group says of decoding stays. After it, only fec_group_init is called.
Destroy == /\ ~aborted /\ live
           /\ buf' = [s \in Slots |-> Junk]
           /\ lengths' = [s \in Slots |-> 0]
           /\ rcvd_pkts' = 0 /\ live' = FALSE
           /\ answer' = -1
           /\ UNCHANGED <<decoded, sent, aborted>>

\* Mutant: the group structure is renewed without its flag.
RenewDecoded == /\ ~aborted /\ ~live /\ live' = TRUE
                /\ buf' = [s \in Slots |-> Junk]
                /\ lengths' = [s \in Slots |-> 0]
                /\ rcvd_pkts' = 0
                /\ sent' \in Sendable
                /\ UNCHANGED <<decoded, answer, aborted>>

\* fec_group_init of a group destroyed, for the packets of the next group
Renew == /\ ~aborted /\ ~live /\ live' = TRUE
         /\ buf' = [s \in Slots |-> Junk]
         /\ lengths' = [s \in Slots |-> 0]
         /\ rcvd_pkts' = 0 /\ decoded' = FALSE
         /\ sent' \in Sendable
         /\ UNCHANGED <<answer, aborted>>

\* rcvd_pkts++
CountUp == IF rcvd_pkts + 1 = CountMod THEN 0 ELSE rcvd_pkts + 1

\* Mutant: a packet that was received before is counted again.
InsertCounted(p) ==
  /\ buf' = [buf EXCEPT ![p] = p]
  /\ lengths' = [lengths EXCEPT ![p] = sent[p]]
  /\ rcvd_pkts' = CountUp

\* Mutant: the slot is not padded, so its end is what malloc returned.
InsertUnpadded(p) ==
  IF lengths[p] = 0
  THEN /\ buf' = [buf EXCEPT ![p] = IF sent[p] = FecLen THEN p ELSE Junk]
       /\ lengths' = [lengths EXCEPT ![p] = sent[p]]
       /\ rcvd_pkts' = CountUp
  ELSE UNCHANGED <<buf, lengths, rcvd_pkts>>

\* fec_group_insert_pkt: payload and zeroes to the end of the slot, once per packet
\* as far as its length tells.
Insert(p) ==
  IF lengths[p] = 0
  THEN /\ buf' = [buf EXCEPT ![p] = p]
       /\ lengths' = [lengths EXCEPT ![p] = sent[p]]
       /\ rcvd_pkts' = CountUp
  ELSE UNCHANGED <<buf, lengths, rcvd_pkts>>

\* The network hands over any packet of the group, again and in any order.
InsertPkt == /\ ~aborted /\ live
             /\ \E p \in Slots : Insert(p)
             /\ answer' = -1
             /\ UNCHANGED <<decoded, live, sent, aborted>>

\* The first fec_k slots with a length, and the data rows fec_decode rebuilds from them.
Marked == {s \in Slots : lengths[s] > 0}
Chosen == {s \in Marked : Cardinality({t \in Marked : t < s}) < K}
Rebuilt == [s \in Slots |->
              IF s \in Rows \ Chosen
              THEN IF \A t \in Chosen : buf[t] = t THEN s ELSE Junk
              ELSE buf[s]]

\* fec_group_decode: of a group decoded before; too early; when the count says there
\* are enough packets and there are; and when there are not.
DecodeAgain == /\ ~aborted /\ live /\ decoded
               /\ answer' = 1
               /\ UNCHANGED <<buf, lengths, rcvd_pkts, decoded, live, sent, aborted>>

DecodeTooEarly == /\ ~aborted /\ live /\ ~decoded /\ rcvd_pkts < K
                  /\ answer' = 0
                  /\ UNCHANGED <<buf, lengths, rcvd_pkts, decoded, live, sent, aborted>>

Decode == /\ ~aborted /\ live /\ ~decoded /\ rcvd_pkts >= K /\ Cardinality(Marked) >= K
          /\ buf' = Rebuilt
          /\ decoded' = TRUE
          /\ answer' = 1
          /\ UNCHANGED <<lengths, rcvd_pkts, live, sent, aborted>>

DecodeAborts == /\ ~aborted /\ live /\ ~decoded /\ rcvd_pkts >= K /\ Cardinality(Marked) < K
                /\ aborted' = TRUE
                /\ UNCHANGED <<buf, lengths, rcvd_pkts, decoded, live, sent, answer>>

Next == InsertPkt \/ DecodeAgain \/ DecodeTooEarly \/ Decode \/ DecodeAborts
        \/ Destroy \/ Renew

Spec == GroupInit /\ [][Next]_vars

-----------------------------------------------------------------------------
\* Type invariant.
GroupTypeOK == /\ buf \in [Slots -> Slots \union {Junk}]
               /\ lengths \in [Slots -> 0 .. FecLen]
               /\ rcvd_pkts \in 0 .. CountMod - 1
               /\ decoded \in BOOLEAN /\ live \in BOOLEAN
               /\ sent \in Sendable
               /\ answer \in -1 .. 1
               /\ aborted \in BOOLEAN

\* fec_group_decode's assert(j == group->fec_k).
NeverAborts == ~aborted

\* It fails only if a packet of the group was empty: else the count and the lengths
\* agree, whatever the network repeats.
HasEmpty == \E p \in Slots : sent[p] = 0
AbortsOnlyOnEmpty == aborted => HasEmpty

\* A group that says it is decoded holds every data packet, also when some of them
\* arrive after they were rebuilt, and when some are empty, until it is destroyed: what
\* it said of one group it never says of the next.
DecodedIsRight == live /\ decoded => \A r \in Rows : buf[r] = r

\* A group without an empty packet is decoded by any K different packets, and by no
\* fewer; of other groups nothing is promised.
Erasure == INSTANCE ErasureGroup WITH
             got <- IF HasEmpty THEN {} ELSE Marked,
             done <- ~HasEmpty /\ live /\ decoded,
             answer <- IF HasEmpty THEN -1 ELSE answer
ImplementsErasure == Erasure!Spec
=============================================================================
