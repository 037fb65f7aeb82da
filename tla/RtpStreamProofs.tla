-------------------------- MODULE RtpStreamProofs ---------------------------
(***************************************************************************)
(* Proofs about RtpSource and RtpStream, for every modulus and every       *)
(* threshold that SourceAssumption allows, those of the code (65536, 3000, *)
(* 100, 2) among them.                                                     *)
(*                                                                         *)
(* The first half is about a source that gets any sequence of numbers.  It *)
(* cites nothing of the stream.  The second half is about the stream: a    *)
(* receiver that sees sixteen bits of each number knows which packet it is *)
(* at, as long as the network keeps within the thresholds.                 *)
(***************************************************************************)
EXTENDS RtpStream, FiniteSetTheorems, FunctionTheorems, TLAPS

\* How far behind max_seq the last packet is, in sixteen bits.
Behind == Minus(max_seq, last)

\* What the counters of a report rest on: a valid source counts from a packet it
\* received, never backwards, and counts one when it moves.
ReportInv ==
  /\ received_prior <= received
  /\ Valid => /\ base_seq <= cycles + max_seq
              /\ expected_prior <= Expected
              /\ expected_prior < Expected => received_prior < received

\* Where the last packet of a run may have left the source: at that packet; at a
\* first jump, its successor remembered; or a few packets ahead of a stream
\* taken for late, fewer with every packet of the run.
RunInv ==
  /\ ~Valid => max_seq = last
  /\ Valid => /\ run >= 1
              /\ \/ Behind = 0
                 \/ /\ run = 1 /\ bad_seq = Succ(last)
                    /\ MaxMisorder <= Behind /\ Behind <= SeqMod - MaxDropout
                 \/ /\ 1 <= Behind /\ Behind < MaxMisorder
                    /\ run + Behind <= MaxMisorder + 1

\* A run starts with MinSequential packets to go; a wrap may start it over, once.
ProbationInv ==
  ~Valid => /\ run + probation <= 2 * MinSequential - 1
            /\ \/ run + probation = MinSequential
               \/ max_seq = MinSequential - 1 - probation

SourceInv == SourceTypeOK /\ ReportInv /\ RunInv /\ ProbationInv

LEMMA SourceInvInit == ASSUME NEW seq \in SeqNums, SourceInit(seq) PROVE SourceInv
BY SourceAssumption
DEF SourceInit, SourceInv, SourceTypeOK, ReportInv, RunInv, ProbationInv, SeqNums,
    Minus, Succ, Valid, Behind, NoBadSeq, OK, LongRun, Expected

\* The bookkeeping of the history variables.
LEMMA RunStep ==
  ASSUME SourceTypeOK, NEW seq \in SeqNums, UpdateSeq(seq)
  PROVE  /\ last' = seq
         /\ last' \in SeqNums /\ run' \in 1..LongRun
         /\ run' = 1 \/ (seq = Succ(last) /\ run' <= run + 1 /\ run' >= run)
BY SourceAssumption DEF SourceTypeOK, UpdateSeq, LongRun, Succ, SeqNums

LEMMA SourceInvOnProbation ==
  ASSUME SourceInv, NEW seq \in SeqNums, UpdateSeq(seq), OnProbation(seq)
  PROVE  SourceInv'
<1>1. SourceTypeOK'
  BY SourceAssumption, RunStep
  DEF SourceInv, SourceTypeOK, OnProbation, ResetAndCount, Reject, UpdateSeq, Valid,
      SeqNums, NoBadSeq, OK, Error
<1>2. ReportInv'
  BY SourceAssumption
  DEF SourceInv, SourceTypeOK, ReportInv, OnProbation, ResetAndCount, Valid, SeqNums, Expected
<1>3. RunInv'
  BY SourceAssumption, RunStep
  DEF SourceInv, SourceTypeOK, OnProbation, ResetAndCount, Valid, RunInv, Behind, Minus, SeqNums
<1>4. ProbationInv'
  BY SourceAssumption, RunStep
  DEF SourceInv, SourceTypeOK, OnProbation, ResetAndCount, Valid, RunInv, ProbationInv,
      SeqNums, Succ, UpdateSeq, LongRun
<1>5. QED
  BY <1>1, <1>2, <1>3, <1>4 DEF SourceInv

LEMMA SourceInvInOrder ==
  ASSUME SourceInv, NEW seq \in SeqNums, UpdateSeq(seq), InOrder(seq)
  PROVE  SourceInv'
<1>1. SourceTypeOK'
  BY SourceAssumption, RunStep
  DEF SourceInv, SourceTypeOK, InOrder, UpdateSeq, Valid, SeqNums, OK
<1>2. ReportInv'
  BY SourceAssumption
  DEF SourceInv, SourceTypeOK, ReportInv, InOrder, Valid, SeqNums, Expected
<1>3. RunInv' /\ ProbationInv'
  BY SourceAssumption, RunStep
  DEF SourceInv, SourceTypeOK, InOrder, Valid, RunInv, ProbationInv, Behind, Minus, SeqNums
<1>4. QED
  BY <1>1, <1>2, <1>3 DEF SourceInv

LEMMA SourceInvResync ==
  ASSUME SourceInv, NEW seq \in SeqNums, UpdateSeq(seq), Resync(seq)
  PROVE  SourceInv'
<1>1. SourceTypeOK'
  BY SourceAssumption, RunStep
  DEF SourceInv, SourceTypeOK, Resync, ResetAndCount, UpdateSeq, Valid, SeqNums, NoBadSeq, OK
<1>2. ReportInv'
  BY SourceAssumption
  DEF SourceInv, SourceTypeOK, ReportInv, Resync, ResetAndCount, Valid, SeqNums, Expected
<1>3. RunInv' /\ ProbationInv'
  BY SourceAssumption, RunStep
  DEF SourceInv, SourceTypeOK, Resync, ResetAndCount, Valid, RunInv, ProbationInv, Behind,
      Minus, SeqNums
<1>4. QED
  BY <1>1, <1>2, <1>3 DEF SourceInv

\* A jump is never the successor of the last packet of a run the source is at, or
\* close behind of: those are in order, or late.
LEMMA SourceInvJump ==
  ASSUME SourceInv, NEW seq \in SeqNums, UpdateSeq(seq), Jump(seq)
  PROVE  SourceInv'
<1>1. SourceTypeOK'
  BY SourceAssumption, RunStep
  DEF SourceInv, SourceTypeOK, Jump, Reject, UpdateSeq, Valid, SeqNums, Error, Succ
<1>2. ReportInv'
  BY DEF SourceInv, ReportInv, Jump, Valid, Expected
<1>3. run' = 1
  BY SourceAssumption, RunStep
  DEF SourceInv, SourceTypeOK, Jump, IsJump, Valid, RunInv, Behind, Minus, Succ, SeqNums
<1>4. MaxMisorder <= Minus(max_seq, seq) /\ Minus(max_seq, seq) <= SeqMod - MaxDropout
  BY SourceAssumption
  DEF SourceInv, SourceTypeOK, Jump, IsJump, Minus, SeqNums
<1>5. Behind' = Minus(max_seq, seq) /\ Valid'
  BY RunStep DEF SourceInv, Jump, Valid, Behind, Minus
<1>6. RunInv' /\ ProbationInv'
  BY <1>3, <1>4, <1>5, RunStep DEF SourceInv, Jump, RunInv, ProbationInv, Succ
<1>7. QED
  BY <1>1, <1>2, <1>6 DEF SourceInv

LEMMA SourceInvMisordered ==
  ASSUME SourceInv, NEW seq \in SeqNums, UpdateSeq(seq), Misordered(seq)
  PROVE  SourceInv'
<1>1. SourceTypeOK'
  BY SourceAssumption, RunStep
  DEF SourceInv, SourceTypeOK, Misordered, UpdateSeq, Valid, SeqNums, OK
<1>2. ReportInv'
  BY DEF SourceInv, SourceTypeOK, ReportInv, Misordered, Valid, Expected
<1>3. 1 <= Minus(max_seq, seq) /\ Minus(max_seq, seq) < MaxMisorder
  BY SourceAssumption
  DEF SourceInv, SourceTypeOK, Misordered, Minus, SeqNums
<1>4. run' + Minus(max_seq, seq) <= MaxMisorder + 1
  BY <1>3, SourceAssumption, RunStep
  DEF SourceInv, SourceTypeOK, Misordered, Valid, RunInv, Behind, Minus, Succ, SeqNums
<1>5. Behind' = Minus(max_seq, seq) /\ Valid'
  BY RunStep DEF SourceInv, Misordered, Valid, Behind, Minus
<1>6. RunInv' /\ ProbationInv'
  BY <1>3, <1>4, <1>5, RunStep, SourceAssumption
  DEF SourceInv, RunInv, ProbationInv, LongRun
<1>7. QED
  BY <1>1, <1>2, <1>6 DEF SourceInv

LEMMA LostFieldType ==
  ASSUME NEW n \in Int PROVE LostField(n) \in -LostHalf .. LostHalf - 1
<1>1. PICK m \in Int, M \in Nat \ {0} : m = n + LostHalf /\ M = 2 * LostHalf
  BY SourceAssumption
<1>2. m % M \in 0 .. M - 1
  BY <1>1
<1>3. QED
  BY <1>1, <1>2, SourceAssumption DEF LostField

LEMMA SourceInvUpdateLost == SourceInv /\ UpdateLost => SourceInv'
<1> SUFFICES ASSUME SourceInv, UpdateLost PROVE SourceInv'
  OBVIOUS
<1>1. ExpectedInterval \in Int /\ LostInterval \in Int /\ LostInterval <= ExpectedInterval
  BY SourceAssumption
  DEF SourceInv, SourceTypeOK, ReportInv, ExpectedInterval, LostInterval, Expected, SeqNums
<1>2. fraction' \in 0..255
  <2>1. CASE ExpectedInterval = 0 \/ LostInterval <= 0
    BY <2>1 DEF UpdateLost
  <2>2. CASE ~(ExpectedInterval = 0 \/ LostInterval <= 0)
    <3>1. ExpectedInterval > 0
      BY <1>1, <2>2
    <3>2. Ratio \in Int
      BY <1>1, <3>1 DEF Ratio
    <3>3. QED
      BY <2>2, <3>2 DEF UpdateLost
  <2>3. QED
    BY <2>1, <2>2
<1>3. SourceTypeOK'
  <2>1. Expected - received \in Int /\ Expected \in Int
    BY SourceAssumption DEF SourceInv, SourceTypeOK, Expected, SeqNums
  <2>2. lost' \in -LostHalf .. LostHalf - 1
    <3>1. PICK n \in Int : n = Expected - received
      BY <2>1
    <3>2. lost' = LostField(n)
      BY <3>1 DEF UpdateLost
    <3>3. QED
      BY <3>2, LostFieldType
  <2>3. QED
    BY <1>2, <2>1, <2>2, SourceAssumption
    DEF SourceInv, SourceTypeOK, UpdateLost, history
<1>4. ReportInv' /\ RunInv' /\ ProbationInv'
  BY SourceAssumption
  DEF SourceInv, SourceTypeOK, ReportInv, RunInv, ProbationInv, UpdateLost, Expected, Valid,
      Behind, Minus, Succ, history, SeqNums
<1>5. QED
  BY <1>3, <1>4 DEF SourceInv

LEMMA SourceInvStutter == SourceInv /\ UNCHANGED srcVars => SourceInv'
BY DEF SourceInv, SourceTypeOK, ReportInv, RunInv, ProbationInv, srcVars, Expected, Valid,
       Behind, Minus, Succ

LEMMA SourceInvImplies == SourceInv => ReportFits /\ Recovers /\ ProbationEnds
<1> SUFFICES ASSUME SourceInv PROVE ReportFits /\ Recovers /\ ProbationEnds
  OBVIOUS
<1>1. ReportFits
  BY SourceAssumption
  DEF SourceInv, SourceTypeOK, ReportInv, ReportFits, ExpectedInterval, LostInterval,
      Expected, SeqNums
<1>2. Recovers
  BY SourceAssumption
  DEF SourceInv, SourceTypeOK, RunInv, Recovers, Behind, Minus, SeqNums
<1>3. ProbationEnds
  BY SourceAssumption
  DEF SourceInv, SourceTypeOK, ProbationInv, ProbationEnds, Valid
<1>4. QED
  BY <1>1, <1>2, <1>3

LEMMA SourceInvariant == SourceSpec => []SourceInv
<1>1. (\E seq \in SeqNums : SourceInit(seq)) => SourceInv
  BY SourceInvInit
<1>2. SourceInv /\ [(\E seq \in SeqNums : UpdateSeq(seq)) \/ UpdateLost]_srcVars => SourceInv'
  <2>1. ASSUME SourceInv, NEW seq \in SeqNums, UpdateSeq(seq) PROVE SourceInv'
    BY <2>1, SourceInvOnProbation, SourceInvInOrder, SourceInvResync, SourceInvJump,
       SourceInvMisordered DEF UpdateSeq
  <2>2. QED
    BY <2>1, SourceInvUpdateLost, SourceInvStutter
<1>3. QED
  BY <1>1, <1>2, PTL DEF SourceSpec

\* The source's fields stay in their types, whatever arrives.
THEOREM SourceTypeCorrect == SourceSpec => []SourceTypeOK
BY SourceInvariant, PTL DEF SourceInv

\* For the code's thresholds and any others: the lost fraction of a valid source
\* never overflows its eight bits.
THEOREM FractionNeverWraps == SourceSpec => []ReportFits
BY SourceInvariant, SourceInvImplies, PTL

\* MaxMisorder + 1 packets in a row always bring the source to the last of them.
THEOREM SourceRecovers == SourceSpec => []Recovers
BY SourceInvariant, SourceInvImplies, PTL

\* 2 * MinSequential - 1 packets in a row always make the source valid.
THEOREM SourceBecomesValid == SourceSpec => []ProbationEnds
BY SourceInvariant, SourceInvImplies, PTL

-----------------------------------------------------------------------------

\* How the source's fields relate to the packets the sender counts.
Link == Valid => /\ max_seq = hi.seq
                 /\ base_seq = base.seq
                 /\ cycles = (hi.lap - base.lap) * SeqMod

StreamInv == SourceInv /\ StreamTypeOK /\ Link

-----------------------------------------------------------------------------
\* Two numbers of a lap are less than a lap apart; so are packets of the window,
\* and so their laps are the same or neighbours.
LEMMA LapsApart ==
  ASSUME NEW k \in Int, NEW d \in Int, NEW M \in Nat, M > 0,
         -M < k * M + d, k * M + d < M, -M < d, d < M
  PROVE  k \in {-1, 0, 1}
<1>1. CASE k >= 2
  <2>1. (k - 2) * M >= 0 /\ k * M = 2 * M + (k - 2) * M
    <3>1. k - 2 \in Nat
      BY <1>1
    <3>2. QED
      BY <3>1
  <2>2. QED
    BY <2>1
<1>2. CASE k <= -2
  <2>1. (-2 - k) * M >= 0 /\ k * M = -(2 * M) - (-2 - k) * M
    <3>1. -2 - k \in Nat
      BY <1>2
    <3>2. QED
      BY <3>1
  <2>2. QED
    BY <2>1
<1>3. QED
  BY <1>1, <1>2

LEMMA NumberDifference ==
  ASSUME NEW p \in Packets, NEW q \in Packets
  PROVE  /\ Number(p) \in Int /\ Number(q) \in Int /\ p.lap - q.lap \in Int
         /\ Number(p) - Number(q) = (p.lap - q.lap) * SeqMod + (p.seq - q.seq)
         /\ p.seq \in SeqNums /\ q.seq \in SeqNums
<1>1. /\ p.lap \in Int /\ q.lap \in Int /\ p.seq \in Int /\ q.seq \in Int
      /\ p.seq \in SeqNums /\ q.seq \in SeqNums /\ SeqMod \in Int
  BY SourceAssumption, NetworkAssumption DEF Packets, SeqNums
<1>2. QED
  BY <1>1 DEF Number

\* A packet of the window that is not before p follows it by a permissible gap,
\* in the same lap or over the wrap.
LEMMA LaterInWindow ==
  ASSUME NEW p \in Packets, NEW q \in Packets,
         InWindow(q, p), Number(q) >= Number(p)
  PROVE  /\ Minus(q.seq, p.seq) < MaxDropout
         /\ \/ q.lap = p.lap /\ ~(q.seq < p.seq)
            \/ q.lap = p.lap + 1 /\ q.seq < p.seq
<1> DEFINE k == q.lap - p.lap
           d == q.seq - p.seq
<1>1. Number(q) - Number(p) = k * SeqMod + d /\ k \in Int /\ d \in Int
      /\ -SeqMod < d /\ d < SeqMod /\ q.seq \in SeqNums /\ p.seq \in SeqNums
  BY NumberDifference, SourceAssumption DEF SeqNums
<1>2. 0 <= k * SeqMod + d /\ k * SeqMod + d < MaxDropout /\ k * SeqMod + d < SeqMod
  BY <1>1, NumberDifference, SourceAssumption, NetworkAssumption DEF InWindow
<1>3. k \in {-1, 0, 1}
  BY <1>1, <1>2, LapsApart, SourceAssumption
<1>4. CASE k = -1
  BY <1>1, <1>2, <1>4, SourceAssumption
<1>5. CASE k = 0
  <2>1. 0 <= d /\ d < MaxDropout
    BY <1>1, <1>2, <1>5, SourceAssumption
  <2>2. ~(q.seq < p.seq) /\ Minus(q.seq, p.seq) = d
    BY <1>1, <2>1, SourceAssumption DEF Minus, SeqNums
  <2>3. q.lap = p.lap
    BY <1>5, NetworkAssumption DEF Packets
  <2>4. QED
    BY <2>1, <2>2, <2>3
<1>6. CASE k = 1
  <2>1. 0 <= SeqMod + d /\ SeqMod + d < MaxDropout
    BY <1>2, <1>6, SourceAssumption
  <2>2. d < 0
    BY <1>1, <2>1, SourceAssumption
  <2>3. q.seq < p.seq /\ Minus(q.seq, p.seq) = SeqMod + d
    BY <1>1, <2>2, SourceAssumption DEF Minus, SeqNums
  <2>4. q.lap = p.lap + 1
    BY <1>6, NetworkAssumption DEF Packets
  <2>5. QED
    BY <2>1, <2>3, <2>4
<1>7. QED
  BY <1>3, <1>4, <1>5, <1>6

\* A packet of the window before p is within the numbers taken for late ones.
LEMMA LateInWindow ==
  ASSUME NEW p \in Packets, NEW q \in Packets,
         InWindow(q, p), Number(q) < Number(p)
  PROVE  Minus(q.seq, p.seq) > SeqMod - MaxMisorder
<1> DEFINE k == q.lap - p.lap
           d == q.seq - p.seq
<1>1. Number(q) - Number(p) = k * SeqMod + d /\ k \in Int /\ d \in Int
      /\ -SeqMod < d /\ d < SeqMod /\ q.seq \in SeqNums /\ p.seq \in SeqNums
  BY NumberDifference, SourceAssumption DEF SeqNums
<1>2. k * SeqMod + d < 0 /\ -MaxMisorder < k * SeqMod + d /\ -SeqMod < k * SeqMod + d
  BY <1>1, NumberDifference, SourceAssumption, NetworkAssumption DEF InWindow
<1>3. k \in {-1, 0, 1}
  BY <1>1, <1>2, LapsApart, SourceAssumption
<1>4. CASE k = -1
  <2>1. d - SeqMod < 0 /\ -MaxMisorder < d - SeqMod
    BY <1>1, <1>2, <1>4, SourceAssumption
  <2>2. d >= 0
    BY <1>1, <2>1, SourceAssumption
  <2>3. Minus(q.seq, p.seq) = d
    BY <1>1, <2>2, SourceAssumption DEF Minus, SeqNums
  <2>4. QED
    BY <1>1, <2>1, <2>3, SourceAssumption
<1>5. CASE k = 0
  <2>1. d < 0 /\ -MaxMisorder < d
    BY <1>1, <1>2, <1>5, SourceAssumption
  <2>2. Minus(q.seq, p.seq) = d + SeqMod
    BY <1>1, <2>1, SourceAssumption DEF Minus, SeqNums
  <2>3. QED
    BY <1>1, <2>1, <2>2, SourceAssumption
<1>6. CASE k = 1
  BY <1>1, <1>2, <1>6, SourceAssumption
<1>7. QED
  BY <1>3, <1>4, <1>5, <1>6

-----------------------------------------------------------------------------
\* What a delivery from the window is to the source: in order, or late.
LEMMA LaterIsInOrder ==
  ASSUME StreamInv, Valid, NEW p \in Packets,
         InWindow(p, hi), Number(p) >= Number(hi), UpdateSeq(p.seq)
  PROVE  /\ InOrder(p.seq)
         /\ cycles' = (p.lap - base.lap) * SeqMod
<1>1. hi \in Packets /\ base \in Packets /\ max_seq = hi.seq
      /\ cycles = (hi.lap - base.lap) * SeqMod
  BY DEF StreamInv, StreamTypeOK, Link
<1>2. /\ Minus(p.seq, max_seq) < MaxDropout
      /\ \/ p.lap = hi.lap /\ ~(p.seq < max_seq)
         \/ p.lap = hi.lap + 1 /\ p.seq < max_seq
  BY <1>1, LaterInWindow
<1>3. Minus(p.seq, max_seq) \in Int
  BY <1>1, SourceAssumption DEF Packets, SeqNums, Minus
<1>4. InOrder(p.seq)
  BY <1>2, <1>3, SourceAssumption
  DEF UpdateSeq, OnProbation, Resync, Jump, IsJump, Misordered
<1>5. p.lap \in Int /\ hi.lap \in Int /\ base.lap \in Int /\ SeqMod \in Int
  BY <1>1, SourceAssumption, NetworkAssumption DEF Packets
<1>6. ((hi.lap + 1) - base.lap) * SeqMod = (hi.lap - base.lap) * SeqMod + SeqMod
  BY <1>5
<1>7. cycles' = (p.lap - base.lap) * SeqMod
  BY <1>1, <1>2, <1>4, <1>6 DEF InOrder
<1>8. QED
  BY <1>4, <1>7

LEMMA LateIsMisordered ==
  ASSUME StreamInv, Valid, NEW p \in Packets,
         InWindow(p, hi), Number(p) < Number(hi), UpdateSeq(p.seq)
  PROVE  Misordered(p.seq)
<1>1. hi \in Packets /\ max_seq = hi.seq
  BY DEF StreamInv, StreamTypeOK, Link
<1>2. Minus(p.seq, max_seq) > SeqMod - MaxMisorder
  BY <1>1, LateInWindow
<1>3. Minus(p.seq, max_seq) \in Int
  BY <1>1, SourceAssumption DEF Packets, SeqNums, Minus
<1>4. QED
  BY <1>2, <1>3, SourceAssumption
  DEF UpdateSeq, OnProbation, InOrder, Resync, Jump, IsJump

LEMMA StreamInvInit == StreamInit => StreamInv
<1> SUFFICES ASSUME NEW seq \in SeqNums, SourceInit(seq),
                    spent = [lap |-> 0, seq |-> seq], wire = {spent},
                    base = spent, hi = spent, missing = {}
             PROVE  StreamInv
  BY DEF StreamInit
<1>1. SourceInv
  BY SourceInvInit
<1>2. spent \in Packets
  BY NetworkAssumption DEF Packets
<1>3. ~Valid
  BY SourceAssumption DEF SourceInit, Valid
<1>4. QED
  BY <1>1, <1>2, <1>3 DEF StreamInv, StreamTypeOK, Link, SourceInv

LEMMA StreamInvTransmit == StreamInv /\ Transmit => StreamInv'
<1> SUFFICES ASSUME StreamInv, Transmit PROVE StreamInv'
  OBVIOUS
<1>1. SourceInv'
  BY SourceInvStutter DEF StreamInv, Transmit
<1>2. Link'
  BY DEF StreamInv, Link, Transmit, Valid, srcVars
<1>3. QED
  BY <1>1, <1>2 DEF StreamInv, StreamTypeOK, Transmit, SourceInv

LEMMA StreamInvOnProbation ==
  ASSUME StreamInv, NEW p \in wire, DeliverOnProbation(p) PROVE StreamInv'
<1>1. p \in Packets /\ p.seq \in SeqNums
  BY DEF StreamInv, StreamTypeOK, Packets
<1>2. UpdateSeq(p.seq) /\ OnProbation(p.seq)
  BY DEF DeliverOnProbation, UpdateSeq, OnProbation, InOrder, Resync, Jump, Misordered
<1>3. SourceInv'
  BY <1>1, <1>2, SourceInvOnProbation DEF StreamInv
<1>4. Link'
  <2>1. SUFFICES ASSUME probation' = 0
                 PROVE  max_seq' = hi'.seq /\ base_seq' = base'.seq
                        /\ cycles' = (hi'.lap - base'.lap) * SeqMod
    BY DEF Link, Valid
  <2>2. base' = p /\ hi' = p
    BY <2>1 DEF DeliverOnProbation
  <2>3. max_seq' = p.seq /\ base_seq' = p.seq /\ cycles' = 0
    BY <1>2, <2>1, SourceAssumption
    DEF OnProbation, ResetAndCount, StreamInv, SourceInv, SourceTypeOK
  <2>4. (p.lap - p.lap) * SeqMod = 0
    BY <1>1, SourceAssumption, NetworkAssumption DEF Packets
  <2>5. QED
    BY <2>2, <2>3, <2>4
<1>5. QED
  BY <1>1, <1>3, <1>4 DEF StreamInv, StreamTypeOK, DeliverOnProbation, SourceInv

LEMMA StreamInvLater ==
  ASSUME StreamInv, NEW p \in wire, DeliverLater(p) PROVE StreamInv'
<1>1. p \in Packets /\ p.seq \in SeqNums
  BY DEF StreamInv, StreamTypeOK, Packets
<1>2. InOrder(p.seq) /\ cycles' = (p.lap - base.lap) * SeqMod
  BY <1>1, LaterIsInOrder DEF DeliverLater
<1>3. SourceInv'
  BY <1>1, <1>2, SourceInvInOrder DEF StreamInv, DeliverLater
<1>4. Link'
  BY <1>2 DEF StreamInv, Link, DeliverLater, InOrder, Valid
<1>5. QED
  BY <1>1, <1>3, <1>4 DEF StreamInv, StreamTypeOK, DeliverLater, Between, SourceInv

LEMMA StreamInvLate ==
  ASSUME StreamInv, NEW p \in wire, DeliverLate(p) PROVE StreamInv'
<1>1. p \in Packets /\ p.seq \in SeqNums
  BY DEF StreamInv, StreamTypeOK, Packets
<1>2. Misordered(p.seq)
  BY <1>1, LateIsMisordered DEF DeliverLate
<1>3. SourceInv'
  BY <1>1, <1>2, SourceInvMisordered DEF StreamInv, DeliverLate
<1>4. Link'
  BY <1>2 DEF StreamInv, Link, DeliverLate, Misordered, Valid
<1>5. QED
  BY <1>3, <1>4 DEF StreamInv, StreamTypeOK, DeliverLate, SourceInv

LEMMA StreamInvStutter == StreamInv /\ UNCHANGED streamVars => StreamInv'
<1> SUFFICES ASSUME StreamInv, UNCHANGED streamVars PROVE StreamInv'
  OBVIOUS
<1>1. SourceInv'
  BY SourceInvStutter DEF StreamInv, streamVars, srcVars
<1>2. QED
  BY <1>1 DEF StreamInv, StreamTypeOK, Link, streamVars, Valid, SourceInv

LEMMA StreamInvStep == StreamInv /\ [StreamNext]_streamVars => StreamInv'
BY StreamInvTransmit, StreamInvOnProbation, StreamInvLater, StreamInvLate, StreamInvStutter
DEF StreamNext

LEMMA StreamInvImpliesTracks == StreamInv => Tracks
<1> SUFFICES ASSUME StreamInv, Valid
             PROVE  max_seq = hi.seq
                    /\ cycles + max_seq - base_seq = Number(hi) - Number(base)
  BY DEF Tracks
<1>1. hi \in Packets /\ base \in Packets /\ max_seq = hi.seq /\ base_seq = base.seq
      /\ cycles = (hi.lap - base.lap) * SeqMod
  BY DEF StreamInv, StreamTypeOK, Link
<1>2. Number(hi) - Number(base) = cycles + (max_seq - base_seq)
  BY <1>1, NumberDifference
<1>3. cycles \in Int /\ max_seq \in Int /\ base_seq \in Int
  BY SourceAssumption DEF StreamInv, SourceInv, SourceTypeOK, SeqNums
<1>4. QED
  BY <1>1, <1>2, <1>3

LEMMA StreamInvNeverRefuses ==
  StreamInv /\ [StreamNext]_streamVars =>
    [Valid => base_seq' = base_seq /\ bad_seq' = bad_seq /\ received' >= received]_streamVars
<1> SUFFICES ASSUME StreamInv, StreamNext, Valid
             PROVE  base_seq' = base_seq /\ bad_seq' = bad_seq /\ received' >= received
  OBVIOUS
<1>1. received \in Nat
  BY SourceAssumption DEF StreamInv, SourceInv, SourceTypeOK
<1>2. CASE Transmit
  BY <1>1, <1>2 DEF Transmit, srcVars
<1>3. ASSUME NEW p \in wire, DeliverLater(p)
      PROVE  base_seq' = base_seq /\ bad_seq' = bad_seq /\ received' >= received
  <2>1. InOrder(p.seq)
    BY <1>3, LaterIsInOrder DEF DeliverLater, StreamInv, StreamTypeOK
  <2>2. QED
    BY <1>1, <2>1 DEF InOrder
<1>4. ASSUME NEW p \in wire, DeliverLate(p)
      PROVE  base_seq' = base_seq /\ bad_seq' = bad_seq /\ received' >= received
  <2>1. Misordered(p.seq)
    BY <1>4, LateIsMisordered DEF DeliverLate, StreamInv, StreamTypeOK
  <2>2. QED
    BY <1>1, <2>1 DEF Misordered
<1>5. QED
  BY <1>2, <1>3, <1>4 DEF StreamNext, DeliverOnProbation

-----------------------------------------------------------------------------
\* What the source takes for lost: packets before hi that have not come.  A source
\* that does not count yet misses nothing.
Justified == Valid => Expected - received <= Cardinality(missing)

LossInv ==
  /\ IsFiniteSet(missing)
  /\ \A q \in missing : Number(q) < Number(hi)
  /\ ~Valid => missing = {}
  /\ Justified

\* A packet is told by its number.
LEMMA NumberIsUnique ==
  ASSUME NEW p \in Packets, NEW q \in Packets, Number(p) = Number(q)
  PROVE  p = q
<1> DEFINE k == p.lap - q.lap
           d == p.seq - q.seq
<1>1. /\ k \in Int /\ p.seq \in 0..SeqMod-1 /\ q.seq \in 0..SeqMod-1
      /\ Number(p) - Number(q) = k * SeqMod + d /\ Number(p) \in Int
      /\ SeqMod \in Nat /\ SeqMod > 0
  BY NumberDifference, SourceAssumption DEF SeqNums
<1>2. d \in Int /\ k * SeqMod + d = 0 /\ -SeqMod < d /\ d < SeqMod
  BY <1>1
<1> HIDE DEF k, d
<1>3. k = 0 /\ d = 0
  <2>1. -SeqMod < k * SeqMod + d /\ k * SeqMod + d < SeqMod
    BY <1>1, <1>2
  <2>2. k \in {-1, 0, 1}
    BY <1>1, <1>2, <2>1, LapsApart
  <2>3. QED
    BY <1>1, <1>2, <2>2
<1>4. p.lap = q.lap /\ p.seq = q.seq
  <2>1. p.lap \in Int /\ q.lap \in Int /\ p.seq \in Int /\ q.seq \in Int
    BY SourceAssumption, NetworkAssumption DEF Packets, SeqNums
  <2>2. QED
    BY <1>3, <2>1 DEF k, d
<1>5. QED
  BY <1>4 DEF Packets

\* Every number between two packets of the window is a packet's, of the first's lap
\* or, over the wrap, of the second's.
LEMMA NumberInBetween ==
  ASSUME NEW h \in Packets, NEW p \in Packets, InWindow(p, h),
         NEW n \in Int, Number(h) < n, n < Number(p)
  PROVE  \E q \in Packets : Number(q) = n
<1> DEFINE x == n - Number(h)
<1>1. /\ Number(h) \in Int /\ Number(p) \in Int /\ x \in Int /\ x > 0
      /\ h.seq \in 0..SeqMod-1 /\ p.seq \in 0..SeqMod-1 /\ SeqMod \in Int
      /\ h.lap \in 0..MaxLap /\ p.lap \in 0..MaxLap /\ MaxLap \in Int
  <2>1. Number(h) \in Int /\ Number(p) \in Int
    BY NumberDifference
  <2>2. QED
    BY <2>1, SourceAssumption, NetworkAssumption DEF Packets, SeqNums
<1>2. Number(h) = h.lap * SeqMod + h.seq /\ Number(p) = p.lap * SeqMod + p.seq
      /\ h.lap * SeqMod \in Int
  BY <1>1 DEF Number
<1>3. \/ p.lap = h.lap /\ ~(p.seq < h.seq)
      \/ p.lap = h.lap + 1 /\ p.seq < h.seq
  <2>1. Number(p) >= Number(h)
    BY <1>1
  <2>2. QED
    BY <2>1, LaterInWindow
<1>4. CASE h.seq + x < SeqMod
  <2> DEFINE q == [lap |-> h.lap, seq |-> h.seq + x]
  <2>1. q \in Packets
    BY <1>1, <1>4, SourceAssumption DEF Packets, SeqNums
  <2>2. Number(q) = h.lap * SeqMod + (h.seq + x)
    BY DEF Number
  <2>3. Number(q) = n
    BY <1>1, <1>2, <2>2
  <2>4. QED
    BY <2>1, <2>3
<1>5. CASE h.seq + x >= SeqMod
  <2>1. p.lap = h.lap + 1 /\ (h.lap + 1) * SeqMod = h.lap * SeqMod + SeqMod
    BY <1>1, <1>2, <1>3, <1>5
  <2> DEFINE q == [lap |-> p.lap, seq |-> h.seq + x - SeqMod]
  <2>2. h.seq + x - SeqMod < p.seq /\ h.seq + x - SeqMod >= 0
    BY <1>1, <1>2, <1>5, <2>1
  <2>3. q \in Packets
    BY <1>1, <2>2, SourceAssumption DEF Packets, SeqNums
  <2>4. Number(q) = p.lap * SeqMod + (h.seq + x - SeqMod)
    BY DEF Number
  <2>5. Number(q) = n
    BY <1>1, <1>2, <2>1, <2>4
  <2>6. QED
    BY <2>3, <2>5
<1>6. QED
  BY <1>1, <1>4, <1>5

\* So as many packets are between two as their numbers say.
LEMMA BetweenCounts ==
  ASSUME hi \in Packets, NEW p \in Packets, InWindow(p, hi), Number(p) > Number(hi)
  PROVE  /\ IsFiniteSet(Between(p))
         /\ Cardinality(Between(p)) = Number(p) - Number(hi) - 1
<1> DEFINE gap == (Number(hi) + 1)..(Number(p) - 1)
           f == [q \in Between(p) |-> Number(q)]
<1>1. Number(hi) \in Int /\ Number(p) \in Int
  BY NumberDifference
<1>2. \A q \in Between(p) : q \in Packets /\ Number(q) \in gap
  BY <1>1, NumberDifference DEF Between
<1>3. f \in [Between(p) -> gap]
  BY <1>2
<1>4. \A q, r \in Between(p) : f[q] = f[r] => q = r
  BY <1>2, NumberIsUnique
<1>5. \A n \in gap : \E q \in Between(p) : f[q] = n
  <2>1. SUFFICES ASSUME NEW n \in gap PROVE \E q \in Between(p) : f[q] = n
    OBVIOUS
  <2>2. n \in Int /\ Number(hi) < n /\ n < Number(p)
    BY <1>1
  <2>3. PICK q \in Packets : Number(q) = n
    BY <2>2, NumberInBetween
  <2>4. QED
    BY <2>2, <2>3 DEF Between
<1> HIDE DEF f
<1>6. f \in Injection(Between(p), gap) /\ f \in Surjection(Between(p), gap)
  BY <1>3, <1>4, <1>5, Fun_IsInj, Fun_IsSurj
<1>7. IsFiniteSet(gap) /\ Cardinality(gap) = Number(p) - Number(hi) - 1
  <2>1. Number(hi) + 1 \in Int /\ Number(p) - 1 \in Int /\ Number(hi) + 1 <= Number(p)
    BY <1>1
  <2>2. IsFiniteSet(gap) /\ Cardinality(gap)
          = IF Number(hi) + 1 > Number(p) - 1 THEN 0 ELSE Number(p) - 1 - (Number(hi) + 1) + 1
    BY <2>1, FS_Interval
  <2>3. QED
    BY <1>1, <2>2
<1> HIDE DEF gap
<1>8. IsFiniteSet(Between(p)) /\ Cardinality(Between(p)) = Cardinality(gap)
  BY <1>6, <1>7, FS_Injection
<1>9. QED
  BY <1>7, <1>8

LEMMA ExpectedIsDistance ==
  ASSUME StreamInv, Valid
  PROVE  /\ Expected = Number(hi) - Number(base) + 1
         /\ Number(hi) \in Int /\ Number(base) \in Int /\ received \in Int
<1>1. cycles + max_seq - base_seq = Number(hi) - Number(base)
  BY StreamInvImpliesTracks DEF Tracks
<1>2. hi \in Packets /\ base \in Packets /\ received \in Nat
  BY SourceAssumption DEF StreamInv, StreamTypeOK, SourceInv, SourceTypeOK
<1>3. QED
  BY <1>1, <1>2, NumberDifference DEF Expected

LEMMA LossInvInit == StreamInit => LossInv
<1> SUFFICES ASSUME NEW seq \in SeqNums, SourceInit(seq), missing = {} PROVE LossInv
  BY DEF StreamInit
<1>1. ~Valid
  BY SourceAssumption DEF SourceInit, Valid
<1>2. QED
  BY <1>1, FS_EmptySet DEF LossInv, Justified

LEMMA LossInvOnProbation ==
  ASSUME StreamInv, LossInv, NEW p \in wire, DeliverOnProbation(p) PROVE LossInv'
<1>1. missing = {} /\ missing' = {}
  BY DEF LossInv, DeliverOnProbation
<1>2. Justified'
  <2>1. SUFFICES ASSUME probation' = 0 PROVE Expected' - received' <= Cardinality(missing')
    BY DEF Justified, Valid
  <2>2. p.seq \in SeqNums /\ OnProbation(p.seq)
    BY DEF StreamInv, StreamTypeOK, Packets, DeliverOnProbation, UpdateSeq, OnProbation,
           InOrder, Resync, Jump, Misordered
  <2>3. max_seq' = p.seq /\ base_seq' = p.seq /\ cycles' = 0 /\ received' = 1
    BY <2>1, <2>2, SourceAssumption
    DEF OnProbation, ResetAndCount, StreamInv, SourceInv, SourceTypeOK
  <2>4. Expected' = 1
    BY <2>2, <2>3, SourceAssumption DEF Expected, SeqNums
  <2>5. QED
    BY <1>1, <2>3, <2>4, FS_EmptySet
<1>3. QED
  BY <1>1, <1>2, FS_EmptySet DEF LossInv

LEMMA LossInvLater ==
  ASSUME StreamInv, LossInv, NEW p \in wire, DeliverLater(p) PROVE LossInv'
<1>1. p \in Packets /\ hi \in Packets /\ Valid /\ InWindow(p, hi)
      /\ Number(p) >= Number(hi) /\ Number(p) \in Int /\ Number(hi) \in Int
  BY NumberDifference DEF StreamInv, StreamTypeOK, DeliverLater
<1>2. InOrder(p.seq)
  BY <1>1, LaterIsInOrder DEF DeliverLater
<1>3. Valid' /\ received' = received + 1 /\ hi' = p /\ base' = base
      /\ missing' = missing \union Between(p)
  BY <1>1, <1>2 DEF InOrder, Valid, DeliverLater
<1>4. Expected' = Number(p) - Number(base) + 1
  <2>1. max_seq' = p.seq /\ base_seq' = base_seq /\ base_seq = base.seq /\ base \in Packets
        /\ cycles' = (p.lap - base.lap) * SeqMod
    BY <1>1, <1>2, LaterIsInOrder DEF InOrder, StreamInv, StreamTypeOK, Link, DeliverLater
  <2>2. Number(p) - Number(base) = cycles' + (max_seq' - base_seq') /\ cycles' \in Int
    BY <1>1, <2>1, NumberDifference, SourceAssumption
  <2>3. Number(base) \in Int /\ p.seq \in Int /\ base.seq \in Int
    BY <1>1, <2>1, NumberDifference, SourceAssumption DEF SeqNums
  <2>4. QED
    BY <1>1, <2>1, <2>2, <2>3 DEF Expected
<1>5. Expected - received <= Cardinality(missing) /\ IsFiniteSet(missing)
      /\ \A q \in missing : Number(q) < Number(hi)
  BY <1>1 DEF LossInv, Justified
<1>6. Cardinality(missing) \in Nat
  BY <1>5, FS_CardinalityType
<1>7. missing \subseteq Packets /\ \A q \in missing : Number(q) \in Int
  BY NumberDifference DEF StreamInv, StreamTypeOK
<1>8. \A q \in missing' : Number(q) < Number(p)
  BY <1>1, <1>3, <1>5, <1>7 DEF Between
<1>9. IsFiniteSet(missing') /\ Number(p) - Number(hi) - 1 + Cardinality(missing)
                                 <= Cardinality(missing')
  <2>1. CASE Number(p) = Number(hi)
    <3>1. \A q \in Packets : Number(q) \in Int
      BY NumberDifference
    <3>2. Between(p) = {}
      BY <1>1, <2>1, <3>1 DEF Between
    <3>3. missing' = missing
      BY <1>3, <3>2
    <3>4. QED
      BY <1>1, <1>5, <1>6, <2>1, <3>3
  <2>2. CASE Number(p) > Number(hi)
    <3>1. IsFiniteSet(Between(p)) /\ Cardinality(Between(p)) = Number(p) - Number(hi) - 1
      BY <1>1, <2>2, BetweenCounts
    <3>2. missing \cap Between(p) = {}
      BY <1>1, <1>5, <1>7 DEF Between
    <3>3. Cardinality(missing') = Cardinality(missing) + Cardinality(Between(p))
          /\ IsFiniteSet(missing')
      <4>1. Cardinality(missing \cap Between(p)) = 0
        BY <3>2, FS_EmptySet
      <4>2. Cardinality(Between(p)) \in Nat
        BY <3>1, FS_CardinalityType
      <4>3. IsFiniteSet(missing') /\ Cardinality(missing')
              = Cardinality(missing) + Cardinality(Between(p)) - Cardinality(missing \cap Between(p))
        BY <1>3, <1>5, <3>1, FS_Union
      <4>4. QED
        BY <1>6, <4>1, <4>2, <4>3
    <3>4. QED
      BY <1>1, <1>6, <3>1, <3>3
  <2>3. QED
    BY <1>1, <2>1, <2>2
<1>10. Expected' - received' <= Cardinality(missing')
  <2>1. Cardinality(missing') \in Nat
    BY <1>9, FS_CardinalityType
  <2>2. QED
    BY <1>1, <1>3, <1>4, <1>5, <1>6, <1>9, <2>1, ExpectedIsDistance
<1>11. QED
  BY <1>3, <1>8, <1>9, <1>10 DEF LossInv, Justified, Number

LEMMA LossInvLate ==
  ASSUME StreamInv, LossInv, NEW p \in wire, DeliverLate(p) PROVE LossInv'
<1>1. Misordered(p.seq) /\ Valid
  BY LateIsMisordered DEF DeliverLate, StreamInv, StreamTypeOK
<1>2. Valid' /\ received' = received + 1 /\ Expected' = Expected /\ hi' = hi
      /\ missing' = missing \ {p}
  BY <1>1 DEF Misordered, Valid, DeliverLate, Expected
<1>3. Expected - received <= Cardinality(missing) /\ IsFiniteSet(missing)
      /\ \A q \in missing : Number(q) < Number(hi)
  BY <1>1 DEF LossInv, Justified
<1>4. IsFiniteSet(missing') /\ Cardinality(missing) <= Cardinality(missing') + 1
      /\ Cardinality(missing) \in Nat /\ Cardinality(missing') \in Nat
  <2>1. Cardinality(missing) \in Nat
    BY <1>3, FS_CardinalityType
  <2>2. IsFiniteSet(missing') /\ Cardinality(missing')
          = IF p \in missing THEN Cardinality(missing) - 1 ELSE Cardinality(missing)
    BY <1>2, <1>3, FS_RemoveElement
  <2>3. Cardinality(missing') \in Nat
    BY <2>2, FS_CardinalityType
  <2>4. QED
    BY <2>1, <2>2, <2>3
<1>5. Expected' - received' <= Cardinality(missing')
  BY <1>1, <1>2, <1>3, <1>4, ExpectedIsDistance
<1>6. QED
  BY <1>2, <1>3, <1>4, <1>5 DEF LossInv, Justified, Number

LEMMA LossInvStep == StreamInv /\ LossInv /\ [StreamNext]_streamVars => LossInv'
<1> SUFFICES ASSUME StreamInv, LossInv, [StreamNext]_streamVars PROVE LossInv'
  OBVIOUS
<1>1. ASSUME Transmit \/ UNCHANGED streamVars PROVE LossInv'
  <2>1. UNCHANGED <<missing, hi, probation, cycles, max_seq, base_seq, received>>
    BY <1>1 DEF Transmit, streamVars, srcVars
  <2>2. QED
    BY <2>1 DEF LossInv, Justified, Valid, Expected, Number
<1>2. QED
  BY <1>1, LossInvOnProbation, LossInvLater, LossInvLate DEF StreamNext

\* The field does not raise a figure that it can hold, nor one too great for it.
LEMMA FieldKeepsBelow ==
  ASSUME NEW n \in Int, -n <= LostHalf PROVE LostField(n) <= n
<1>1. PICK m \in Nat, M \in Nat \ {0} : m = n + LostHalf /\ M = 2 * LostHalf
  BY SourceAssumption
<1>2. m % M <= m
  BY <1>1
<1>3. QED
  BY <1>1, <1>2, SourceAssumption DEF LostField

LEMMA LossInvImplies ==
  ASSUME StreamInv, LossInv PROVE LossNotOverstated
<1> SUFFICES ASSUME Valid, received - Expected <= LostHalf
             PROVE  LostField(Expected - received) <= Cardinality(missing)
  BY DEF LossNotOverstated
<1>1. PICK n \in Int : n = Expected - received /\ -n <= LostHalf
  BY SourceAssumption DEF StreamInv, StreamTypeOK, SourceTypeOK, Expected, SeqNums
<1>2. n <= Cardinality(missing) /\ Cardinality(missing) \in Nat
  BY <1>1, FS_CardinalityType DEF LossInv, Justified
<1>3. LostField(n) <= n /\ LostField(n) \in Int
  BY <1>1, FieldKeepsBelow, SourceAssumption DEF LostField
<1>4. QED
  BY <1>1, <1>2, <1>3

-----------------------------------------------------------------------------
\* The fields of the source and the packets in the network stay in their types.
THEOREM StreamTypeCorrect == StreamSpec => []StreamTypeOK
<1>1. StreamInv /\ [StreamNext]_streamVars => StreamInv'
  BY StreamInvStep
<1>2. StreamInv => StreamTypeOK
  BY DEF StreamInv
<1>3. QED
  BY <1>1, <1>2, StreamInvInit, PTL DEF StreamSpec

\* Whatever is lost, repeated or late within the thresholds, and however often the
\* sixteen bits wrap, the source's extended number is the sender's own count.
THEOREM StreamTracks == StreamSpec => []Tracks
<1>1. StreamInv /\ [StreamNext]_streamVars => StreamInv'
  BY StreamInvStep
<1>2. QED
  BY <1>1, StreamInvInit, StreamInvImpliesTracks, PTL DEF StreamSpec

\* Within the thresholds a valid source neither starts over nor refuses a packet.
THEOREM StreamNeverRefused == StreamSpec => NeverRefuses
<1>1. StreamInv /\ [StreamNext]_streamVars => StreamInv'
  BY StreamInvStep
<1>2. QED
  BY <1>1, StreamInvInit, StreamInvNeverRefuses, PTL DEF StreamSpec, NeverRefuses
\* However packets are lost, repeated and late within the thresholds, a report never
\* counts more of them lost than have not come.
THEOREM StreamLossNotOverstated == StreamSpec => []LossNotOverstated
<1>1. StreamInv /\ LossInv /\ [StreamNext]_streamVars => StreamInv' /\ LossInv'
  BY StreamInvStep, LossInvStep
<1>2. StreamInv /\ LossInv => LossNotOverstated
  BY LossInvImplies
<1>3. QED
  BY <1>1, <1>2, StreamInvInit, LossInvInit, PTL DEF StreamSpec
=============================================================================
