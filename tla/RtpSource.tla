------------------------------ MODULE RtpSource ------------------------------
(***************************************************************************)
(* A source of RTP packets as a receiver keeps it, src/rtp/rtp_source.c:   *)
(* which sequence number it has reached, whether it is to be believed, and *)
(* how many packets were lost.  The receiver calls update_seq with each    *)
(* packet's 16-bit sequence number and update_lost before each report.     *)
(*                                                                         *)
(* Sequence numbers are taken modulo SeqMod; the thresholds keep the       *)
(* relation they have in the code, 3000 and 100 out of 65536.              *)
(***************************************************************************)
EXTENDS Integers

CONSTANTS SeqMod,          \* LIBRTP_SEQ_MOD
          MaxDropout,      \* LIBRTP_MAX_DROPOUT
          MaxMisorder,     \* LIBRTP_MAX_MISORDER
          MinSequential,   \* LIBRTP_MIN_SEQUENTIAL
          LostHalf,        \* lost is a signed bit field: half its values, 2^23
          MaxReceived      \* bound: packets counted since the last reset

\* With MinSequential = 1 the first stray packet would end probation without a
\* reset, so the counting would start at no packet; the build has 2.
ASSUME SourceAssumption ==
  /\ SeqMod \in Nat /\ MaxDropout \in Nat /\ MaxMisorder \in Nat
  /\ MinSequential \in Nat /\ MaxReceived \in Nat
  /\ 1 < MaxDropout /\ 0 < MaxMisorder
  /\ MaxDropout + MaxMisorder <= SeqMod
  /\ 1 < MinSequential /\ MinSequential <= SeqMod
  /\ LostHalf \in Nat /\ 0 < LostHalf

VARIABLES max_seq,         \* highest sequence number seen
          cycles,          \* SeqMod for each wrap of it
          base_seq,        \* sequence number the counting started at
          bad_seq,         \* the number after the last one rejected
          probation,       \* sequential packets still needed to be valid
          received,        \* packets counted
          expected_prior,  \* expected and received at the last report
          received_prior,
          lost,            \* what the last report said: packets lost
          fraction,        \* and the fraction of its interval, over 256
          ret,             \* what the last update_seq returned
          last,            \* history: the sequence number last received
          run              \* history: packets it ends that followed one another

history == <<last, run>>
srcVars == <<max_seq, cycles, base_seq, bad_seq, probation, received,
             expected_prior, received_prior, lost, fraction, ret, last, run>>

SeqNums == 0 .. SeqMod - 1

\* SEQ_MOD + 1, which is no sequence number.
NoBadSeq == SeqMod + 1

\* RTP_OK and RTP_ERROR
OK    == 0
Error == -1

\* a - b in uint16_t.
Minus(a, b) == IF a >= b THEN a - b ELSE a - b + SeqMod

\* a + 1 in sixteen bits.
Succ(a) == IF a + 1 = SeqMod THEN 0 ELSE a + 1

Valid == probation = 0

\* Counting past this many packets in a row tells nothing more.
LongRun == MaxMisorder + 2 * MinSequential

-----------------------------------------------------------------------------
\* Mutant: the priors of the report survive the reset.
ResetKeepsPriors(seq) ==
  /\ base_seq' = seq
  /\ max_seq' = seq
  /\ bad_seq' = NoBadSeq
  /\ cycles' = 0
  /\ received' = 1
  /\ UNCHANGED <<received_prior, expected_prior>>

\* rtp_source_reset_seq, and the packet that caused it counted.
ResetAndCount(seq) ==
  /\ base_seq' = seq
  /\ max_seq' = seq
  /\ bad_seq' = NoBadSeq
  /\ cycles' = 0
  /\ received' = 1
  /\ received_prior' = 0
  /\ expected_prior' = 0

Reject == ret' = Error

\* Mutant: a packet out of sequence does not count as the first of a new run.
OnProbationFromNone(seq) ==
  /\ ~Valid
  /\ max_seq' = seq
  /\ IF seq = max_seq + 1 /\ probation = 1
     THEN /\ probation' = 0 /\ ret' = OK
          /\ base_seq' = seq /\ bad_seq' = NoBadSeq /\ cycles' = 0
          /\ received' = 1 /\ received_prior' = 0 /\ expected_prior' = 0
     ELSE /\ probation' = IF seq = max_seq + 1 THEN probation - 1 ELSE MinSequential
          /\ Reject
          /\ UNCHANGED <<cycles, base_seq, bad_seq, received, expected_prior, received_prior>>
  /\ UNCHANGED <<lost, fraction>>

\* rtp_source_update_seq, probation: only packets that follow each other by one
\* count, and `max_seq + 1` is an int, so 0 does not follow SeqMod - 1.
OnProbation(seq) ==
  /\ ~Valid
  /\ \/ /\ seq = max_seq + 1 /\ probation > 1
        /\ probation' = probation - 1
        /\ max_seq' = seq
        /\ Reject
        /\ UNCHANGED <<cycles, base_seq, bad_seq, received, expected_prior, received_prior>>
     \/ /\ seq = max_seq + 1 /\ probation = 1
        /\ probation' = 0
        /\ ResetAndCount(seq)
        /\ ret' = OK
     \/ /\ seq # max_seq + 1
        /\ probation' = MinSequential - 1
        /\ max_seq' = seq
        /\ Reject
        /\ UNCHANGED <<cycles, base_seq, bad_seq, received, expected_prior, received_prior>>
  /\ UNCHANGED <<lost, fraction>>

\* Mutant: the wrap of the sequence number not counted.
InOrderUnwrapped(seq) ==
  /\ Valid
  /\ Minus(seq, max_seq) < MaxDropout
  /\ max_seq' = seq
  /\ received' = received + 1
  /\ ret' = OK
  /\ UNCHANGED <<cycles, base_seq, bad_seq, probation, expected_prior, received_prior, lost, fraction>>

\* In order, with a permissible gap.
InOrder(seq) ==
  /\ Valid
  /\ Minus(seq, max_seq) < MaxDropout
  /\ cycles' = IF seq < max_seq THEN cycles + SeqMod ELSE cycles
  /\ max_seq' = seq
  /\ received' = received + 1
  /\ ret' = OK
  /\ UNCHANGED <<base_seq, bad_seq, probation, expected_prior, received_prior, lost, fraction>>

\* Mutant: the bound off by one.
IsJumpTooWide(seq) == /\ Minus(seq, max_seq) >= MaxDropout
                      /\ Minus(seq, max_seq) <= SeqMod - MaxMisorder + 1

IsJump(seq) == /\ Minus(seq, max_seq) >= MaxDropout
               /\ Minus(seq, max_seq) <= SeqMod - MaxMisorder

\* A large jump: believed when the number after it was rejected just before,
\* rejected otherwise.
Resync(seq) ==
  /\ Valid /\ IsJump(seq) /\ seq = bad_seq
  /\ ResetAndCount(seq)
  /\ ret' = OK
  /\ UNCHANGED <<probation, lost, fraction>>

\* Mutants: the number after the jump not masked to sixteen bits, and the number
\* of the jump itself remembered.
JumpUnmasked(seq) ==
  /\ Valid /\ IsJump(seq) /\ seq # bad_seq
  /\ bad_seq' = seq + 1
  /\ Reject
  /\ UNCHANGED <<max_seq, cycles, base_seq, probation, received, expected_prior,
                 received_prior, lost, fraction>>

JumpRemembersItself(seq) ==
  /\ Valid /\ IsJump(seq) /\ seq # bad_seq
  /\ bad_seq' = seq
  /\ Reject
  /\ UNCHANGED <<max_seq, cycles, base_seq, probation, received, expected_prior,
                 received_prior, lost, fraction>>

Jump(seq) ==
  /\ Valid /\ IsJump(seq) /\ seq # bad_seq
  /\ bad_seq' = Succ(seq)
  /\ Reject
  /\ UNCHANGED <<max_seq, cycles, base_seq, probation, received, expected_prior,
                 received_prior, lost, fraction>>

\* Mutant: late packets not counted.
MisorderedUncounted(seq) ==
  /\ Valid
  /\ Minus(seq, max_seq) >= MaxDropout
  /\ Minus(seq, max_seq) > SeqMod - MaxMisorder
  /\ ret' = OK
  /\ UNCHANGED <<max_seq, cycles, base_seq, bad_seq, probation, received, expected_prior,
                 received_prior, lost, fraction>>

\* Duplicate or late packet: counted, and nothing else.
Misordered(seq) ==
  /\ Valid
  /\ Minus(seq, max_seq) >= MaxDropout
  /\ Minus(seq, max_seq) > SeqMod - MaxMisorder
  /\ received' = received + 1
  /\ ret' = OK
  /\ UNCHANGED <<max_seq, cycles, base_seq, bad_seq, probation, expected_prior,
                 received_prior, lost, fraction>>

UpdateSeq(seq) ==
  /\ received < MaxReceived
  /\ \/ OnProbation(seq) \/ InOrder(seq)
     \/ Resync(seq) \/ Jump(seq) \/ Misordered(seq)
  /\ last' = seq
  /\ run' = IF seq # Succ(last) THEN 1
            ELSE IF run < LongRun THEN run + 1 ELSE run

-----------------------------------------------------------------------------
Expected == cycles + max_seq - base_seq + 1
ExpectedInterval == Expected - expected_prior
LostInterval == ExpectedInterval - (received - received_prior)

\* (lost_interval << 8) / expected_interval, before it is cut to eight bits.
Ratio == (LostInterval * 256) \div ExpectedInterval

\* What a signed bit field keeps of n: it wraps, upwards when more packets were repeated
\* than it can count.
LostField(n) == ((n + LostHalf) % (2 * LostHalf)) - LostHalf

\* rtp_source_update_lost
UpdateLost ==
  /\ lost' = LostField(Expected - received)
  /\ expected_prior' = Expected
  /\ received_prior' = received
  /\ fraction' = IF ExpectedInterval = 0 \/ LostInterval <= 0
                 THEN 0
                 ELSE Ratio % 256
  /\ UNCHANGED <<max_seq, cycles, base_seq, bad_seq, probation, received, ret, history>>

\* rtp_source_init, on a source just created (all zero).
SourceInit(seq) ==
  /\ base_seq = seq
  /\ max_seq = Minus(seq, 1)
  /\ bad_seq = NoBadSeq
  /\ cycles = 0
  /\ received = 0 /\ received_prior = 0 /\ expected_prior = 0
  /\ probation = MinSequential
  /\ lost = 0 /\ fraction = 0
  /\ ret = OK
  /\ last = Minus(seq, 1) /\ run = 0

\* The source alone: any number may arrive at any time, and a report may be
\* made at any time.
SourceSpec ==
  /\ \E seq \in SeqNums : SourceInit(seq)
  /\ [][(\E seq \in SeqNums : UpdateSeq(seq)) \/ UpdateLost]_srcVars

-----------------------------------------------------------------------------
\* Type invariant.
SourceTypeOK ==
  /\ max_seq \in SeqNums /\ base_seq \in SeqNums
  /\ bad_seq \in SeqNums \union {NoBadSeq}
  /\ cycles \in Nat
  /\ probation \in 0..MinSequential
  /\ received \in 0..MaxReceived
  /\ expected_prior \in Int /\ received_prior \in 0..MaxReceived
  /\ lost \in -LostHalf .. LostHalf - 1 /\ fraction \in 0..255
  /\ ret \in {OK, Error}
  /\ last \in SeqNums /\ run \in 0..LongRun

\* A valid source never reports more packets lost in an interval than it
\* expected in it: the ratio stays below 256 and its eight bits do not wrap to
\* nothing lost when everything was.  It holds through wraps, resyncs, late and
\* repeated packets and reports made at any moment, and although reports made
\* in probation leave priors that no packet justifies.
ReportFits ==
  Valid => /\ Expected >= 1
           /\ ExpectedInterval >= 0
           /\ ExpectedInterval > 0 => LostInterval < ExpectedInterval

\* However confused a source was left by stray, late or repeated packets or by a
\* sender that restarted, MaxMisorder + 1 packets in a row bring it back: it is
\* at the last of them.  (One in a row is not enough, nor two: a stream that
\* restarts a little behind is taken for late packets until it catches up.)
Recovers == run > MaxMisorder => max_seq = last

\* Probation ends: 2 * MinSequential - 1 packets in a row are always enough.
\* MinSequential are not, if the sequence number wraps among them.
ProbationEnds == run >= 2 * MinSequential - 1 => Valid
=============================================================================
