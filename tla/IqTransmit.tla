----------------------------- MODULE IqTransmit -----------------------------
(***************************************************************************)
(* The transmitting session of sdr_test.c: main puts the samples of a file *)
(* in the session's ring with rtp_sdr_rbuf_put, which overwrites and so    *)
(* moves tail, while the transmit thread polls the ring and calls          *)
(* rcp_iq_transmit, which peeks at it.  Nothing ever takes a sample out.   *)
(*                                                                         *)
(* main is the only thread that writes the ring.  The transmit thread      *)
(* loads head and tail one at a time, in either order, wherever the code   *)
(* compares or subtracts them.  Stores are seen in program order.          *)
(***************************************************************************)
EXTENDS RBuf, Integers

CONSTANTS FileLen,   \* samples in test.tx
          SeqMod,    \* number of sequence numbers
          WordMod    \* number of values of a size_t

\* A sample is told by its place in the file; the file is not empty.
ASSUME FileAssumption == FileLen \in Nat \ {0} /\ Sample = 1..FileLen /\ Unset = 0
ASSUME SeqModAssumption == SeqMod \in Nat \ {0}
ASSUME WordModAssumption == WordMod \in Nat /\ WordMod > 2 * Size

VARIABLES mpc,       \* where main is in rtp_sdr_rbuf_put
          data,      \* the sample it puts
          tpc,       \* where the transmit thread is
          seen,      \* what it has loaded of head and tail
          size,      \* what rtp_sdr_rbuf_size returned to it
          from,      \* the tail its peek copies from
          taken,     \* iq_frame as far as it is filled
          seq,       \* sequence number in tx_header
          excused,   \* too few samples as the call began, or some lost since
          oldest     \* the oldest sample held as the copying began

ring == <<buffer, head, tail>>
main == <<mpc, data>>
locals == <<size, from, taken, excused, oldest>>
txVars == <<ring, reply, main, tpc, seen, locals, seq>>

\* iq_len: sizeof of an int expression, halved, where the room left in the
\* packet was meant.
Wanted == 2

\* main's ring has RTP_PACKET_LENGTH slots; one of two slots would not do.
ASSUME RoomAssumption == Size > Wanted

-----------------------------------------------------------------------------
TxInit == /\ Init
          /\ mpc = "sample"
          /\ data = 1
          /\ tpc = "poll"
          /\ seen = <<>>
          /\ size = 0
          /\ from = 0
          /\ taken = <<>>
          /\ seq \in 0 .. SeqMod - 1
          /\ excused = FALSE
          /\ oldest = Unset

\* main: rtp_sdr_rbuf_put, then the next fread, whose result is never EOF: at
\* the end of the file data keeps the last sample, which is put for ever.
PutSample == /\ mpc = "sample"
             /\ buffer' = [buffer EXCEPT ![head] = data]
             /\ mpc' = "tail"
             /\ UNCHANGED <<head, tail, reply, data, tpc, seen, locals, seq>>

PutTail == /\ mpc = "tail"
           /\ tail' = IF Full THEN Advance(tail) ELSE tail
           /\ excused' = (excused \/ Full)
           /\ mpc' = "head"
           /\ UNCHANGED <<buffer, head, reply, data, tpc, seen, size, from, taken,
                          oldest, seq>>

PutHead == /\ mpc = "head"
           /\ head' = Advance(head)
           /\ data' = IF data < FileLen THEN data + 1 ELSE data
           /\ mpc' = "sample"
           /\ UNCHANGED <<buffer, tail, reply, tpc, seen, locals, seq>>

Main == PutSample \/ PutTail \/ PutHead

-----------------------------------------------------------------------------
\* A test or subtraction of head and tail: the two loads, then the step `then`
\* that uses and forgets them.
Comparing == {"poll", "empty?", "full?", "wrapped?", "straight", "wrapped"}

Load(field, value) ==
  /\ tpc \in Comparing
  /\ field \notin DOMAIN seen
  /\ seen' = [f \in DOMAIN seen \union {field} |-> IF f = field THEN value ELSE seen[f]]
  /\ UNCHANGED <<ring, reply, main, tpc, size, from, taken, seq, excused, oldest>>

Compare(at) == /\ tpc = at
               /\ DOMAIN seen = {"head", "tail"}
               /\ seen' = <<>>

\* rtp_sdr_rbuf_empty of rcp_iq_transmit_handler.
Poll == /\ Compare("poll")
        /\ tpc' = IF seen.head = seen.tail THEN "poll" ELSE "number"
        /\ UNCHANGED <<ring, reply, main, size, from, taken, seq, excused, oldest>>

\* The packet's number is spent before anything is known of its samples.
Number == /\ tpc = "number"
          /\ seq' = (seq + 1) % SeqMod
          /\ excused' = (Held < Wanted)
          /\ tpc' = "empty?"
          /\ UNCHANGED <<ring, reply, main, seen, size, from, taken, oldest>>

PeekEmpty == /\ Compare("empty?")
             /\ tpc' = IF seen.head = seen.tail THEN "refused" ELSE "full?"
             /\ UNCHANGED <<ring, reply, main, size, from, taken, seq, excused, oldest>>

SizeFull == /\ Compare("full?")
            /\ \/ Advance(seen.head) = seen.tail /\ size' = Capacity /\ tpc' = "enough?"
               \/ Advance(seen.head) # seen.tail /\ size' = size /\ tpc' = "wrapped?"
            /\ UNCHANGED <<ring, reply, main, from, taken, seq, excused, oldest>>

SizeWhich == /\ Compare("wrapped?")
             /\ tpc' = IF seen.head >= seen.tail THEN "straight" ELSE "wrapped"
             /\ UNCHANGED <<ring, reply, main, size, from, taken, seq, excused, oldest>>

\* Mutant: the subtraction done in a signed type.
WordSigned(v) == v

Word(v) == IF v < 0 THEN v + WordMod ELSE v

SizeOf(at, extra) ==
  /\ Compare(at)
  /\ size' = Word(extra + seen.head - seen.tail)
  /\ tpc' = "enough?"
  /\ UNCHANGED <<ring, reply, main, from, taken, seq, excused, oldest>>

\* Mutant: the comparison off by one.
TooMuchButOne == Wanted > size + 1

\* Mutant: the comparison off by one the other way.
TooMuchIfAll == Wanted >= size

TooMuch == Wanted > size

TooMuchAsked == /\ tpc = "enough?" /\ TooMuch
                /\ tpc' = "refused"
                /\ UNCHANGED <<ring, reply, main, seen, locals, seq>>

StartCopy == /\ tpc = "enough?" /\ ~TooMuch
             /\ from' = tail
             /\ oldest' = buffer[tail]
             /\ taken' = <<>>
             /\ tpc' = "copy"
             /\ UNCHANGED <<ring, reply, main, seen, size, seq, excused>>

CopySample == /\ tpc = "copy" /\ Len(taken) < Wanted
              /\ taken' = Append(taken, buffer[Slot(from, Len(taken))])
              /\ UNCHANGED <<ring, reply, main, seen, size, from, tpc, seq, excused, oldest>>

EndPeek == /\ tpc = "copy" /\ Len(taken) = Wanted
           /\ tpc' = "send"
           /\ UNCHANGED <<ring, reply, main, seen, locals, seq>>

\* rcp_iq_transmit returns and its caller polls again, whatever it returned: RTP_OK,
\* or an error of peek or of rtp_socket_send that left the number spent all the same.
Return == /\ tpc \in {"refused", "send"}
          /\ tpc' = "poll"
          /\ size' = 0 /\ from' = 0 /\ taken' = <<>>
          /\ excused' = FALSE /\ oldest' = Unset
          /\ UNCHANGED <<ring, reply, main, seen, seq>>

Transmit == \/ Load("head", head) \/ Load("tail", tail)
            \/ Poll \/ Number \/ PeekEmpty \/ SizeFull \/ SizeWhich
            \/ SizeOf("straight", 0) \/ SizeOf("wrapped", Size)
            \/ TooMuchAsked \/ StartCopy \/ CopySample \/ EndPeek
            \/ Return

\* The process ends: a signal (signal_cb calls exit), or a _pause that divides by
\* the duration 0 of a send that took no time the clock can tell.
Stop == /\ mpc # "stopped"
        /\ mpc' = "stopped"
        /\ tpc' = "stopped"
        /\ UNCHANGED <<ring, reply, data, seen, locals, seq>>

TxNext == Main \/ Transmit \/ Stop

IqTransmit == TxInit /\ [][TxNext]_txVars

-----------------------------------------------------------------------------
\* Type invariant.
TxTypeOK ==
  /\ buffer \in [Slots -> Sample \union {Unset}]
  /\ head \in Slots /\ tail \in Slots
  /\ mpc \in {"sample", "tail", "head", "stopped"}
  /\ data \in Sample
  /\ tpc \in Comparing \union {"number", "enough?", "copy", "refused", "send", "stopped"}
  /\ \E loaded \in SUBSET {"head", "tail"} : seen \in [loaded -> Slots]
  /\ size \in 0..WordMod
  /\ from \in Slots
  /\ taken \in Seq(Sample \union {Unset})
  /\ seq \in 0 .. SeqMod - 1
  /\ excused \in BOOLEAN
  /\ oldest \in Sample \union {Unset}

\* The n-th sample main puts: the last of the file once the file has ended.
NthPut(n) == IF n < FileLen THEN n ELSE FileLen

\* What saves a transmission from an overwriting put.  The samples rcp_iq_transmit
\* copies are those held as it began, in order, save that main may have overwritten
\* any of them by then: each sample is the right one, or newer by whole turns of
\* the ring, and never one older, nor a slot no sample was put in.
RightOrTurnsNewer ==
  \A j \in 1..Len(taken) :
    \/ taken[j] = NthPut(oldest + j - 1)
    \/ taken[j] >= NthPut(oldest + j - 1 + Size)

\* A transmission is refused, and its number spent for nothing, only if the ring
\* held too few samples when it began or main overwrote one while it ran.  (With
\* put, unlike try_put, the second happens: head and tail loaded at different
\* moments make a full ring look empty.)
RefusedOnlyWithExcuse == tpc = "refused" => excused
=============================================================================
