---------------------------- MODULE FecGroupProofs ----------------------------
(***************************************************************************)
(* A FEC group for every K, N and slot length.  A decoded group is right   *)
(* whatever is sent; that decoding waits for exactly K packets, and never  *)
(* aborts, is of groups without an empty packet: there rcvd_pkts is the    *)
(* number of slots marked by a length, which is what the proof carries     *)
(* along.                                                                  *)
(***************************************************************************)
EXTENDS FecGroup, FiniteSetTheorems, TLAPS

\* A marked slot holds its packet.
MarkedRight == \A s \in Marked : buf[s] = s

GroupInv == GroupTypeOK /\ MarkedRight /\ DecodedIsRight

\* With no empty packets: the count is that of the marks, and decoding cannot abort.
CountIsExact == ~HasEmpty => rcvd_pkts = Cardinality(Marked)
CountInv == GroupTypeOK /\ CountIsExact /\ AbortsOnlyOnEmpty

-----------------------------------------------------------------------------
LEMMA SlotsFinite ==
  ASSUME NEW S, S \subseteq Slots
  PROVE  IsFiniteSet(S) /\ Cardinality(S) \in 0 .. N
<1>1. IsFiniteSet(Slots) /\ Cardinality(Slots) = N
  BY GroupAssumption, FS_Interval DEF Slots
<1>2. QED
  BY <1>1, FS_Subset, FS_CardinalityType, GroupAssumption

LEMMA MarkedFinite == IsFiniteSet(Marked) /\ Cardinality(Marked) \in 0 .. N
  BY SlotsFinite DEF Marked

LEMMA InitGroup == GroupInit => GroupInv /\ CountInv
<1> SUFFICES ASSUME GroupInit PROVE GroupInv /\ CountInv
  OBVIOUS
<1>1. Marked = {}
  BY GroupAssumption DEF GroupInit, Marked
<1>2. GroupTypeOK
  <2>1. buf \in [Slots -> Slots \union {Junk}] /\ lengths \in [Slots -> 0 .. FecLen]
    BY GroupAssumption DEF GroupInit
  <2>2. decoded \in BOOLEAN /\ live \in BOOLEAN /\ aborted \in BOOLEAN
    BY DEF GroupInit
  <2>3. rcvd_pkts \in 0 .. CountMod - 1 /\ sent \in Sendable /\ answer \in -1 .. 1
    BY GroupAssumption DEF GroupInit
  <2>4. QED
    BY <2>1, <2>2, <2>3 DEF GroupTypeOK
<1>3. QED
  BY <1>1, <1>2, FS_EmptySet DEF GroupInit, GroupInv, CountInv, MarkedRight, DecodedIsRight, CountIsExact, AbortsOnlyOnEmpty

LEMMA SentType ==
  ASSUME sent \in Sendable, NEW p \in Slots
  PROVE  sent[p] \in 0 .. FecLen
  BY GroupAssumption DEF Sendable

\* One packet inserted into its empty slot: what the buffer and the marks become.
LEMMA InsertEffect ==
  ASSUME GroupTypeOK, NEW p \in Slots, Insert(p), lengths[p] = 0
  PROVE  /\ buf' = [buf EXCEPT ![p] = p]
         /\ lengths' \in [Slots -> 0 .. FecLen]
         /\ rcvd_pkts' = CountUp
         /\ p \notin Marked
         /\ Marked' = IF sent[p] > 0 THEN Marked \union {p} ELSE Marked
<1>1. /\ buf' = [buf EXCEPT ![p] = p] /\ lengths' = [lengths EXCEPT ![p] = sent[p]]
      /\ rcvd_pkts' = CountUp
  BY DEF Insert
<1>2. sent[p] \in 0 .. FecLen
  BY SentType DEF GroupTypeOK
<1>3. QED
  BY <1>1, <1>2, GroupAssumption DEF Marked, GroupTypeOK

LEMMA CountUpType == GroupTypeOK => CountUp \in 0 .. CountMod - 1
  BY GroupAssumption DEF GroupTypeOK, CountUp

LEMMA TypeStep == GroupTypeOK /\ [Next]_vars => GroupTypeOK'
<1> SUFFICES ASSUME GroupTypeOK, [Next]_vars PROVE GroupTypeOK'
  OBVIOUS
<1>1. CASE InsertPkt
  <2>1. PICK p \in Slots : Insert(p)
    BY <1>1 DEF InsertPkt
  <2>2. CASE lengths[p] = 0
    BY <1>1, <2>1, <2>2, InsertEffect, CountUpType DEF InsertPkt, GroupTypeOK
  <2>3. CASE lengths[p] # 0
    BY <1>1, <2>1, <2>3 DEF InsertPkt, Insert, GroupTypeOK
  <2>4. QED
    BY <2>2, <2>3
<1>2. CASE DecodeAgain
  BY <1>2 DEF DecodeAgain, GroupTypeOK
<1>3. CASE DecodeTooEarly
  BY <1>3 DEF DecodeTooEarly, GroupTypeOK
<1>4. CASE Decode
  <2>1. Rebuilt \in [Slots -> Slots \union {Junk}]
    BY DEF Rebuilt, GroupTypeOK
  <2>2. QED
    BY <1>4, <2>1 DEF Decode, GroupTypeOK
<1>5. CASE DecodeAborts
  BY <1>5 DEF DecodeAborts, GroupTypeOK
<1>6. CASE Destroy \/ Renew
  <2>1. /\ buf' \in [Slots -> Slots \union {Junk}]
        /\ lengths' \in [Slots -> 0 .. FecLen]
        /\ rcvd_pkts' \in 0 .. CountMod - 1
    BY <1>6, GroupAssumption DEF Destroy, Renew
  <2>2. decoded' \in BOOLEAN /\ live' \in BOOLEAN /\ aborted' \in BOOLEAN
    BY <1>6 DEF Destroy, Renew, GroupTypeOK
  <2>3. sent' \in Sendable /\ answer' \in -1 .. 1
    BY <1>6 DEF Destroy, Renew, GroupTypeOK
  <2>4. QED
    BY <2>1, <2>2, <2>3 DEF GroupTypeOK
<1>7. CASE UNCHANGED vars
  BY <1>7 DEF vars, GroupTypeOK
<1>8. QED
  BY <1>1, <1>2, <1>3, <1>4, <1>5, <1>6, <1>7 DEF Next

LEMMA NextGroup == GroupInv /\ [Next]_vars => GroupInv'
<1> SUFFICES ASSUME GroupInv, [Next]_vars PROVE GroupInv'
  OBVIOUS
<1> USE DEF GroupInv
<1>0. GroupTypeOK'
  BY TypeStep
<1>1. CASE InsertPkt
  <2>1. PICK p \in Slots : Insert(p)
    BY <1>1 DEF InsertPkt
  <2>2. UNCHANGED decoded
    BY <1>1 DEF InsertPkt
  <2>3. CASE lengths[p] = 0
    <3>1. /\ buf' = [buf EXCEPT ![p] = p]
          /\ Marked' \subseteq Marked \union {p}
      BY <2>1, <2>3, InsertEffect
    <3>2. \A s \in Slots : buf'[s] = IF s = p THEN p ELSE buf[s]
      BY <3>1 DEF GroupTypeOK
    <3>3. MarkedRight'
      BY <3>1, <3>2 DEF MarkedRight, Marked
    <3>4. Rows \subseteq Slots
      BY GroupAssumption DEF Rows, Slots
    <3>5. DecodedIsRight'
      BY <1>1, <2>2, <3>2, <3>4 DEF InsertPkt, DecodedIsRight
    <3>6. QED
      BY <1>0, <3>3, <3>5
  <2>4. CASE lengths[p] # 0
    BY <1>0, <1>1, <2>1, <2>2, <2>4 DEF InsertPkt, Insert, MarkedRight, Marked, DecodedIsRight
  <2>5. QED
    BY <2>3, <2>4
<1>2. CASE DecodeAgain \/ DecodeTooEarly \/ DecodeAborts
  BY <1>0, <1>2 DEF DecodeAgain, DecodeTooEarly, DecodeAborts, MarkedRight, Marked, DecodedIsRight
<1>3. CASE Decode
  <2>1. \A t \in Chosen : buf[t] = t
    BY DEF Chosen, MarkedRight
  <2>2. Rows \subseteq Slots
    BY GroupAssumption DEF Rows, Slots
  <2>3. buf' = [s \in Slots |-> IF s \in Rows \ Chosen THEN s ELSE buf[s]]
    BY <1>3, <2>1 DEF Decode, Rebuilt
  <2>4. MarkedRight'
    BY <1>3, <2>3 DEF Decode, MarkedRight, Marked
  <2>5. DecodedIsRight'
    BY <2>1, <2>2, <2>3 DEF DecodedIsRight
  <2>6. QED
    BY <1>0, <2>4, <2>5
<1>4. CASE Destroy \/ Renew
  <2>1. Marked' = {}
    BY <1>4, GroupAssumption DEF Destroy, Renew, Marked
  <2>2. ~live' \/ ~decoded'
    BY <1>4 DEF Destroy, Renew
  <2>3. QED
    BY <1>0, <2>1, <2>2 DEF MarkedRight, DecodedIsRight
<1>5. CASE UNCHANGED vars
  BY <1>0, <1>5 DEF vars, MarkedRight, Marked, DecodedIsRight
<1>6. QED
  BY <1>1, <1>2, <1>3, <1>4, <1>5 DEF Next

\* The slots, lengths and counters of a group stay in their types, and the buffer holds
\* nothing but packets of the group and what is right of none.
THEOREM GroupTypeCorrect == Spec => []GroupTypeOK
<1>1. GroupInv => GroupTypeOK
  BY DEF GroupInv
<1>2. QED
  BY InitGroup, NextGroup, <1>1, PTL DEF Spec

\* For every K, N and length of packets, empty ones among them: a group that says it
\* is decoded holds its K data packets.
THEOREM GroupDecodesRight == Spec => []DecodedIsRight
<1>1. GroupInv => DecodedIsRight
  BY DEF GroupInv
<1>2. QED
  BY InitGroup, NextGroup, <1>1, PTL DEF Spec

-----------------------------------------------------------------------------
\* With no empty packets, the step of a packet that was not received before.
LEMMA NewPacket ==
  ASSUME ~HasEmpty, CountInv, NEW p \in Slots, Insert(p), lengths[p] = 0
  PROVE  Marked' = Marked \union {p} /\ rcvd_pkts' = Cardinality(Marked')
<1>1. GroupTypeOK /\ rcvd_pkts = Cardinality(Marked)
  BY DEF CountInv, CountIsExact
<1>2. sent[p] > 0
  BY <1>1, SentType, GroupAssumption DEF GroupTypeOK, HasEmpty
<1>3. /\ rcvd_pkts' = CountUp /\ p \notin Marked
      /\ Marked' = Marked \union {p}
  BY <1>1, <1>2, InsertEffect
<1>4. Cardinality(Marked \union {p}) = Cardinality(Marked) + 1
  BY <1>3, MarkedFinite, FS_AddElement
<1>5. Cardinality(Marked \union {p}) <= N
  <2>1. Marked \union {p} \subseteq Slots
    BY DEF Marked
  <2>2. QED
    BY <2>1, SlotsFinite
<1>6. CountUp = Cardinality(Marked) + 1
  BY <1>1, <1>4, <1>5, MarkedFinite, GroupAssumption DEF CountUp
<1>7. QED
  BY <1>3, <1>4, <1>6

LEMMA NextCount == CountInv /\ [Next]_vars => CountInv'
<1> SUFFICES ASSUME CountInv, [Next]_vars PROVE CountInv'
  OBVIOUS
<1>0. GroupTypeOK' /\ GroupTypeOK
  BY TypeStep DEF CountInv
<1>1. CASE InsertPkt
  <2>1. PICK p \in Slots : Insert(p)
    BY <1>1 DEF InsertPkt
  <2>2. UNCHANGED <<sent, aborted>> /\ (HasEmpty' <=> HasEmpty)
    BY <1>1 DEF InsertPkt, HasEmpty
  <2>3. CountIsExact'
    <3>1. CASE lengths[p] = 0
      BY <2>1, <2>2, <3>1, NewPacket DEF CountIsExact
    <3>2. CASE lengths[p] # 0
      BY <2>1, <2>2, <3>2 DEF Insert, CountInv, CountIsExact, Marked
    <3>3. QED
      BY <3>1, <3>2
  <2>4. QED
    BY <1>0, <2>2, <2>3 DEF CountInv, AbortsOnlyOnEmpty
<1>2. CASE DecodeAgain \/ DecodeTooEarly \/ Decode
  <2>1. UNCHANGED <<lengths, rcvd_pkts, sent, aborted>>
    BY <1>2 DEF DecodeAgain, DecodeTooEarly, Decode
  <2>2. QED
    BY <1>0, <2>1 DEF CountInv, CountIsExact, Marked, HasEmpty, AbortsOnlyOnEmpty
<1>3. CASE DecodeAborts
  <2>1. HasEmpty
    BY <1>3, MarkedFinite, GroupAssumption DEF DecodeAborts, CountInv, CountIsExact
  <2>2. HasEmpty'
    BY <1>3, <2>1 DEF DecodeAborts, HasEmpty
  <2>3. QED
    BY <1>0, <2>2 DEF CountInv, CountIsExact, AbortsOnlyOnEmpty
<1>4. CASE Destroy \/ Renew
  <2>1. Marked' = {} /\ rcvd_pkts' = 0
    BY <1>4, GroupAssumption DEF Destroy, Renew, Marked
  <2>2. AbortsOnlyOnEmpty'
    <3>1. CASE Destroy
      BY <3>1 DEF Destroy, AbortsOnlyOnEmpty
    <3>2. CASE Renew
      BY <3>2 DEF Renew, AbortsOnlyOnEmpty
    <3>3. QED
      BY <1>4, <3>1, <3>2
  <2>3. QED
    BY <1>0, <2>1, <2>2, FS_EmptySet DEF CountInv, CountIsExact
<1>5. CASE UNCHANGED vars
  BY <1>0, <1>5 DEF vars, CountInv, CountIsExact, Marked, HasEmpty, AbortsOnlyOnEmpty
<1>6. QED
  BY <1>1, <1>2, <1>3, <1>4, <1>5 DEF Next

\* fec_group_decode's assertion fails only in a group with an empty packet, for every
\* K and N and whatever the network repeats.
THEOREM GroupAbortsOnlyOnEmpty == Spec => []AbortsOnlyOnEmpty
<1>1. CountInv => AbortsOnlyOnEmpty
  BY DEF CountInv
<1>2. QED
  BY InitGroup, NextCount, <1>1, PTL DEF Spec

LEMMA SameCardinality == Erasure!Cardinality(Marked) = Cardinality(Marked)
  BY DEF Erasure!Cardinality, Cardinality

\* Between the end of one group and the start of the next, nothing is left but the flag.
Emptied == ~live => Marked = {} /\ answer = -1

LEMMA NextEmptied == Emptied /\ [Next]_vars => Emptied'
<1> SUFFICES ASSUME Emptied, [Next]_vars PROVE Emptied'
  OBVIOUS
<1>1. CASE InsertPkt \/ DecodeAgain \/ DecodeTooEarly \/ Decode \/ DecodeAborts \/ Renew
  BY <1>1 DEF InsertPkt, DecodeAgain, DecodeTooEarly, Decode, DecodeAborts, Renew, Emptied
<1>2. CASE Destroy
  BY <1>2, GroupAssumption DEF Destroy, Emptied, Marked
<1>3. CASE UNCHANGED vars
  BY <1>3 DEF vars, Emptied, Marked
<1>4. QED
  BY <1>1, <1>2, <1>3 DEF Next

ErasureNext == Erasure!Receive \/ Erasure!Decode \/ Erasure!Renew

\* A group with an empty packet is, to the abstract group, one that nothing happens to.
LEMMA EmptyStutters ==
  ASSUME HasEmpty, UNCHANGED sent
  PROVE  UNCHANGED Erasure!gvars
<1>1. HasEmpty'
  BY DEF HasEmpty
<1>2. QED
  BY <1>1 DEF Erasure!gvars

LEMMA ReceiveImplements ==
  ASSUME CountInv, ~HasEmpty, InsertPkt
  PROVE  Erasure!Receive
<1>1. PICK p \in Slots : Insert(p)
  BY DEF InsertPkt
<1>2. Marked' = Marked \union {p}
  <2>1. CASE lengths[p] = 0
    BY <1>1, <2>1, NewPacket
  <2>2. CASE lengths[p] # 0
    <3>1. p \in Marked
      BY <2>2, GroupAssumption DEF Marked, CountInv, GroupTypeOK
    <3>2. Marked' = Marked
      BY <1>1, <2>2 DEF Insert, Marked
    <3>3. QED
      BY <3>1, <3>2
  <2>3. QED
    BY <2>1, <2>2
<1>3. ~HasEmpty' /\ answer' = -1 /\ UNCHANGED <<decoded, live>>
  BY DEF InsertPkt, HasEmpty
<1>4. QED
  BY <1>2, <1>3 DEF Erasure!Receive, Slots

LEMMA DecodeImplements ==
  ASSUME CountInv, ~HasEmpty, DecodeAgain \/ DecodeTooEarly \/ Decode
  PROVE  Erasure!Decode
<1>1. ~HasEmpty' /\ UNCHANGED Marked /\ live /\ live'
  BY DEF DecodeAgain, DecodeTooEarly, Decode, HasEmpty, Marked
<1>2. rcvd_pkts = Cardinality(Marked)
  BY DEF CountInv, CountIsExact
<1>3. \/ decoded = TRUE /\ decoded' = TRUE /\ answer' = 1
      \/ decoded = FALSE /\ decoded' = FALSE /\ answer' = 0 /\ ~(Cardinality(Marked) >= K)
      \/ Cardinality(Marked) >= K /\ decoded' = TRUE /\ answer' = 1
  BY <1>2, MarkedFinite, GroupAssumption
  DEF DecodeAgain, DecodeTooEarly, Decode, CountInv, GroupTypeOK
<1>4. QED
  BY <1>1, <1>3, SameCardinality, Zenon DEF Erasure!Decode

\* What is destroyed is renewed already to the abstract group, and to initialise it adds
\* nothing: what it says of decoding is not asked for between the two.
LEMMA DestroyImplements == Destroy => Erasure!Renew
<1> SUFFICES ASSUME Destroy PROVE Erasure!Renew
  OBVIOUS
<1>1. Marked' = {} /\ ~live' /\ answer' = -1
  BY GroupAssumption DEF Destroy, Marked
<1>2. QED
  BY <1>1 DEF Erasure!Renew

LEMMA RenewImplements ==
  ASSUME Emptied, Renew PROVE UNCHANGED Erasure!gvars
<1>1. Marked = {} /\ answer = -1
  BY DEF Emptied, Renew
<1>2. Marked' = {} /\ decoded' = FALSE /\ answer' = -1
  BY <1>1, GroupAssumption DEF Renew, Marked
<1>3. ~live
  BY DEF Renew
<1>4. QED
  BY <1>1, <1>2, <1>3 DEF Erasure!gvars

LEMMA StepImplements ==
  ASSUME CountInv, Emptied, [Next]_vars
  PROVE  [ErasureNext]_Erasure!gvars
<1>0. CASE Destroy
  BY <1>0, DestroyImplements DEF ErasureNext
<1>1. CASE Renew
  BY <1>1, RenewImplements
<1>2. CASE HasEmpty /\ ~Renew /\ ~Destroy
  <2>1. UNCHANGED sent
    BY <1>2 DEF Next, vars, InsertPkt, DecodeAgain, DecodeTooEarly, Decode, DecodeAborts
  <2>2. QED
    BY <1>2, <2>1, EmptyStutters
<1>3. CASE ~HasEmpty /\ InsertPkt
  BY <1>3, ReceiveImplements DEF ErasureNext
<1>4. CASE ~HasEmpty /\ (DecodeAgain \/ DecodeTooEarly \/ Decode)
  BY <1>4, DecodeImplements DEF ErasureNext
<1>5. CASE ~HasEmpty /\ DecodeAborts
  BY <1>5, MarkedFinite, GroupAssumption DEF DecodeAborts, CountInv, CountIsExact
<1>6. CASE UNCHANGED vars
  BY <1>6 DEF vars, Marked, HasEmpty, Erasure!gvars
<1>7. QED
  BY <1>0, <1>1, <1>2, <1>3, <1>4, <1>5, <1>6 DEF Next

\* Every group without an empty packet is an erasure code's: decoded by any K different
\* packets and by no fewer, for every K and N.
THEOREM GroupImplementsErasure == Spec => ImplementsErasure
<1>1. GroupInit => Erasure!Start
  <2>1. GroupInit => Marked = {} /\ decoded = FALSE /\ answer = -1
    BY GroupAssumption DEF GroupInit, Marked
  <2>2. QED
    BY <2>1 DEF Erasure!Start
<1>2. GroupInit => CountInv /\ Emptied
  BY InitGroup DEF GroupInit, Emptied
<1>3. CountInv /\ Emptied /\ [Next]_vars => CountInv' /\ Emptied'
  BY NextCount, NextEmptied
<1>4. CountInv /\ Emptied /\ [Next]_vars => [ErasureNext]_Erasure!gvars
  BY StepImplements
<1>5. QED
  BY <1>1, <1>2, <1>3, <1>4, PTL DEF Spec, ImplementsErasure, Erasure!Spec, ErasureNext
=============================================================================
