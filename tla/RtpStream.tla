------------------------------ MODULE RtpStream ------------------------------
(***************************************************************************)
(* A stream of RTP packets from end to end: the transmitter of             *)
(* src/sdr/rtp_sdr_iq.c, which spends one sequence number per call whether *)
(* or not a packet leaves, a network that loses, repeats, delays and       *)
(* reorders packets, and the receiver's source, RtpSource.                 *)
(*                                                                         *)
(* The packet of a sequence number seq is told from those of earlier and   *)
(* later laps of the sixteen bits by its lap, which is nowhere on the wire *)
(* and which the receiver has to reconstruct.                              *)
(***************************************************************************)
EXTENDS RtpSource, FiniteSets

CONSTANTS MaxBurst,   \* the network loses fewer packets in a row than this
          MaxDelay,   \* and delivers none that so many later ones overtook
          MaxLap      \* bound: laps of the sequence number

ASSUME NetworkAssumption ==
  /\ MaxBurst \in Nat /\ MaxDelay \in Nat /\ MaxLap \in Nat
  /\ MaxBurst < MaxDropout
  /\ MaxDelay < MaxMisorder

VARIABLES spent,      \* the packet whose number was spent last
          wire,       \* packets the network may still deliver
          base,       \* history: packet at which the source started to count
          hi,         \* history: latest packet counted
          missing     \* history: packets from base to hi not delivered yet

streamVars == <<max_seq, cycles, base_seq, bad_seq, probation, received, expected_prior,
                received_prior, lost, fraction, ret, last, run,
                spent, wire, base, hi, missing>>

Packets == [lap : 0..MaxLap, seq : SeqNums]

Number(p) == p.lap * SeqMod + p.seq

\* The packet after p.
Following(p) == IF p.seq + 1 = SeqMod THEN [lap |-> p.lap + 1, seq |-> 0]
                                      ELSE [lap |-> p.lap, seq |-> p.seq + 1]

\* What the network may still deliver to a receiver whose latest packet is p.
InWindow(q, p) == /\ Number(q) - Number(p) <= MaxBurst
                  /\ Number(p) - Number(q) <= MaxDelay

-----------------------------------------------------------------------------
StreamInit ==
  /\ \E seq \in SeqNums :
       /\ SourceInit(seq)
       /\ spent = [lap |-> 0, seq |-> seq]
       /\ wire = {spent}
       /\ base = spent /\ hi = spent
  /\ missing = {}

\* rcp_iq_transmit: seq += 1 comes first; then the frame is peeked and sent, and
\* either may fail.  The network's promises are kept here: what is too late by
\* now never arrives, and of so many packets in a row a valid source gets one.
Transmit ==
  /\ Following(spent) \in Packets
  /\ spent' = Following(spent)
  /\ Valid => Number(spent') - Number(hi) <= MaxBurst
  /\ \E kept \in {wire, wire \union {spent'}} :
       wire' = {q \in kept : Number(spent') - Number(q) <= MaxBurst + MaxDelay}
  /\ UNCHANGED <<srcVars, base, hi, missing>>

\* A packet that arrives while the source is on probation is judged by its number
\* alone.  The one that ends probation is where the counting starts.
DeliverOnProbation(p) ==
  /\ ~Valid
  /\ UpdateSeq(p.seq)
  /\ IF probation' = 0 THEN base' = p /\ hi' = p ELSE UNCHANGED <<base, hi>>
  /\ UNCHANGED <<spent, wire, missing>>

\* Packets between hi and a later one.
Between(p) == {q \in Packets : Number(hi) < Number(q) /\ Number(q) < Number(p)}

\* A valid source gets a packet of the window, first or again.  What has left the
\* window can no longer arrive.
DeliverLater(p) ==
  /\ Valid /\ InWindow(p, hi) /\ Number(p) >= Number(hi)
  /\ UpdateSeq(p.seq)
  /\ hi' = p
  /\ missing' = missing \union Between(p)
  /\ wire' = {q \in wire : Number(p) - Number(q) <= MaxDelay}
  /\ UNCHANGED <<spent, base>>

DeliverLate(p) ==
  /\ Valid /\ InWindow(p, hi) /\ Number(p) < Number(hi)
  /\ UpdateSeq(p.seq)
  /\ missing' = missing \ {p}
  /\ UNCHANGED <<spent, wire, base, hi>>

StreamNext == \/ Transmit
              \/ \E p \in wire : DeliverOnProbation(p) \/ DeliverLater(p) \/ DeliverLate(p)

StreamSpec == StreamInit /\ [][StreamNext]_streamVars

-----------------------------------------------------------------------------
\* Type invariant of the stream.
StreamTypeOK ==
  /\ SourceTypeOK
  /\ spent \in Packets /\ wire \subseteq Packets
  /\ base \in Packets /\ hi \in Packets /\ missing \subseteq Packets

\* From sixteen bits the receiver reconstructs which packet it is at: its extended
\* sequence number has advanced by exactly the packets the sender has, through
\* wraps, losses, repetitions and late packets within the thresholds.
Tracks ==
  Valid => /\ max_seq = hi.seq
           /\ cycles + max_seq - base_seq = Number(hi) - Number(base)

\* A report made now would not say that more packets are lost than really are: late and
\* repeated ones only lower the figure, until they are more than its field counts below
\* nothing lost.  A greater loss than it counts only wraps to a smaller one.
LossNotOverstated ==
  Valid /\ received - Expected <= LostHalf
  => LostField(Expected - received) <= Cardinality(missing)

\* As long as the network keeps to the thresholds a valid source never starts its
\* counting over, nor refuses a packet.
NeverRefuses == [][Valid => base_seq' = base_seq /\ bad_seq' = bad_seq
                            /\ received' >= received]_streamVars
=============================================================================
