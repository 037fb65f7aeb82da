------------------------------ MODULE RBufSpsc ------------------------------
(***************************************************************************)
(* The ring of rtp_sdr_rbuf.c shared by one producer thread, which calls   *)
(* try_put, and one consumer thread, which calls get and peek: the use the *)
(* file says it is thread safe for (line 46).  Each call is split at every *)
(* access to a field the other thread writes or reads.                     *)
(*                                                                         *)
(* head, tail and buffer are plain fields, so the accesses race.  InOrder  *)
(* says that the build and the machine keep the order in which try_put     *)
(* makes its two stores (the sample, then head); when it is FALSE the      *)
(* other thread may see them in either order.                              *)
(***************************************************************************)
EXTENDS RBuf, Integers

CONSTANTS InOrder,   \* the two stores of try_put are seen in program order
          WordMod    \* number of values of a size_t

\* The caller's array has room for what it asks, and it asks for no more than
\* a ring can hold slots.
ASSUME MaxPeekBound == MaxPeek <= Size
ASSUME InOrderAssumption == InOrder \in BOOLEAN
ASSUME WordModAssumption == WordMod \in Nat /\ WordMod > 2 * Size

VARIABLES peeked,    \* what its last peek returned, OK or Error
          pc,        \* where the producer is in try_put
          putting,   \* the argument of its try_put
          cc,        \* where the consumer is in get or peek
          taken,     \* what the consumer has read so far
          asked,     \* look_ahead_counter of its peek
          size       \* what rtp_sdr_rbuf_size returned to it

producer == <<pc, putting>>
consumer == <<cc, taken, asked, size, peeked>>
spscVars == <<buffer, head, tail, reply, pc, putting, cc, taken, asked, size, peeked>>

-----------------------------------------------------------------------------
SpscInit == /\ Init
            /\ pc = "idle"
            /\ putting = Unset
            /\ cc = "idle"
            /\ taken = <<>>
            /\ asked = 0
            /\ size = 0
            /\ peeked = OK

\* The slot before v: where head pointed before it was published too early.
Before(v) == IF v = 0 THEN Size - 1 ELSE v - 1

\* try_put: the test of full, the store of the sample, the store of head.
RefusePut(x) == /\ pc = "idle" /\ Full
                /\ Returns("try_put", Error, <<>>)
                /\ UNCHANGED <<buffer, head, tail, producer, consumer>>

\* Mutant: the test of full forgotten.
StartPutUntested(x) == /\ pc = "idle"
                       /\ pc' = "store"
                       /\ putting' = x
                       /\ UNCHANGED <<buffer, head, tail, reply, consumer>>

StartPut(x) == /\ pc = "idle" /\ ~Full
               /\ pc' = "store"
               /\ putting' = x
               /\ UNCHANGED <<buffer, head, tail, reply, consumer>>

StoreSample == /\ pc = "store"
               /\ buffer' = [buffer EXCEPT ![head] = putting]
               /\ pc' = "publish"
               /\ UNCHANGED <<head, tail, reply, putting, consumer>>

PublishHead == /\ pc = "publish"
               /\ head' = Advance(head)
               /\ pc' = "idle"
               /\ Returns("try_put", OK, <<>>)
               /\ UNCHANGED <<buffer, tail, putting, consumer>>

\* The same two stores the other way round.
PublishHeadFirst == /\ ~InOrder
                    /\ pc = "store"
                    /\ head' = Advance(head)
                    /\ pc' = "late"
                    /\ Returns("try_put", OK, <<>>)
                    /\ UNCHANGED <<buffer, tail, putting, consumer>>

StoreSampleLate == /\ pc = "late"
                   /\ buffer' = [buffer EXCEPT ![Before(head)] = putting]
                   /\ pc' = "idle"
                   /\ UNCHANGED <<head, tail, reply, putting, consumer>>

Producer == \/ \E x \in Sample : RefusePut(x) \/ StartPut(x)
            \/ StoreSample \/ PublishHead
            \/ PublishHeadFirst \/ StoreSampleLate

-----------------------------------------------------------------------------
\* get: the test of empty, the load of the sample, the store of tail.
RefuseGet == /\ cc = "idle" /\ Empty
             /\ Returns("get", Error, <<>>)
             /\ UNCHANGED <<buffer, head, tail, producer, consumer>>

StartGet == /\ cc = "idle" /\ ~Empty
            /\ cc' = "load"
            /\ UNCHANGED <<buffer, head, tail, reply, producer, taken, asked, size, peeked>>

LoadSample == /\ cc = "load"
              /\ taken' = <<buffer[tail]>>
              /\ cc' = "advance"
              /\ UNCHANGED <<buffer, head, tail, reply, producer, asked, size, peeked>>

AdvanceTail == /\ cc = "advance"
               /\ tail' = Advance(tail)
               /\ cc' = "idle"
               /\ Returns("get", OK, taken)
               /\ UNCHANGED <<buffer, head, producer, taken, asked, size, peeked>>

Getter == RefuseGet \/ StartGet \/ LoadSample \/ AdvanceTail

\* peek, whose results are taken and peeked, and not a reply of the queue: the test
\* of empty; then rtp_sdr_rbuf_size, which reads head up to
\* three times; then the test of look_ahead_counter and the copying loop.
RefusePeek == /\ cc = "idle" /\ Empty
              /\ peeked' = Error
              /\ UNCHANGED <<buffer, head, tail, reply, producer, cc, taken, asked, size>>

StartPeek(n) == /\ cc = "idle" /\ ~Empty
                /\ cc' = "full?"
                /\ asked' = n
                /\ UNCHANGED <<buffer, head, tail, reply, producer, taken, size, peeked>>

\* Mutant: a full ring counts the slot it cannot use.
SizeIfFullAll == /\ cc = "full?"
                 /\ IF Full THEN size' = Size /\ cc' = "enough?"
                            ELSE size' = size /\ cc' = "wrapped?"
                 /\ UNCHANGED <<buffer, head, tail, reply, producer, taken, asked, peeked>>

SizeIfFull == /\ cc = "full?"
              /\ IF Full THEN size' = Capacity /\ cc' = "enough?"
                         ELSE size' = size /\ cc' = "wrapped?"
              /\ UNCHANGED <<buffer, head, tail, reply, producer, taken, asked, peeked>>

SizeIfWrapped == /\ cc = "wrapped?"
                 /\ cc' = IF head >= tail THEN "straight" ELSE "wrapped"
                 /\ UNCHANGED <<buffer, head, tail, reply, producer, taken, asked, size, peeked>>

\* head - tail and max + head - tail are computed in size_t.
Word(v) == IF v < 0 THEN v + WordMod ELSE v

SizeStraight == /\ cc = "straight"
                /\ size' = Word(head - tail)
                /\ cc' = "enough?"
                /\ UNCHANGED <<buffer, head, tail, reply, producer, taken, asked, peeked>>

SizeWrapped == /\ cc = "wrapped"
               /\ size' = Word(Size + head - tail)
               /\ cc' = "enough?"
               /\ UNCHANGED <<buffer, head, tail, reply, producer, taken, asked, peeked>>

TooMuchAsked == /\ cc = "enough?" /\ asked > size
                /\ cc' = "idle"
                /\ peeked' = Error
                /\ UNCHANGED <<buffer, head, tail, reply, producer, taken, asked, size>>

\* Mutant: the comparison off by one.
StartCopyOneMore == /\ cc = "enough?" /\ asked <= size + 1
                    /\ cc' = "copy"
                    /\ taken' = <<>>
                    /\ UNCHANGED <<buffer, head, tail, reply, producer, asked, size, peeked>>

StartCopy == /\ cc = "enough?" /\ asked <= size
             /\ cc' = "copy"
             /\ taken' = <<>>
             /\ UNCHANGED <<buffer, head, tail, reply, producer, asked, size, peeked>>

\* The loop starts at tail, which only this thread moves.
CopySample == /\ cc = "copy" /\ Len(taken) < asked
              /\ taken' = Append(taken, buffer[Slot(tail, Len(taken))])
              /\ UNCHANGED <<buffer, head, tail, reply, producer, cc, asked, size, peeked>>

EndPeek == /\ cc = "copy" /\ Len(taken) = asked
           /\ cc' = "idle"
           /\ peeked' = OK
           /\ UNCHANGED <<buffer, head, tail, reply, producer, taken, asked, size>>

Peeker == \/ RefusePeek \/ \E n \in 0..MaxPeek : StartPeek(n)
          \/ SizeIfFull \/ SizeIfWrapped \/ SizeStraight \/ SizeWrapped
          \/ TooMuchAsked \/ StartCopy \/ CopySample \/ EndPeek

-----------------------------------------------------------------------------
SpscNext == Producer \/ Getter \/ Peeker

Spsc == SpscInit /\ [][SpscNext]_spscVars

-----------------------------------------------------------------------------
\* Type invariant, for either order of the producer's stores.
SpscTypeOK ==
  /\ buffer \in [Slots -> Sample \union {Unset}]
  /\ head \in Slots
  /\ tail \in Slots
  /\ pc \in {"idle", "store", "publish", "late"}
  /\ putting \in Sample \union {Unset}
  /\ cc \in {"idle", "load", "advance", "full?", "wrapped?", "straight",
            "wrapped", "enough?", "copy"}
  /\ taken \in Seq(Sample \union {Unset})
  /\ asked \in 0..MaxPeek
  /\ size \in 0..WordMod
  /\ peeked \in {OK, Error}

\* The size a peek compares its look_ahead_counter with is never more than the
\* ring holds, however many samples arrive while head is read again and again,
\* but for one case: head - tail taken after head wrapped, which underflows.
SizeNeverTooLarge ==
  cc = "enough?" => size <= Held \/ size >= WordMod - Size

\* A peek whose size did not underflow copies the oldest samples held, in order:
\* none of them is one the producer is storing at the same time.
PeekIsOldest ==
  cc = "copy" /\ size <= Capacity =>
    /\ asked <= Held
    /\ \A j \in 1..Len(taken) : taken[j] = Contents[j]

\* rtp_sdr_rbuf.h:207 of peek: "Returns 0 if successful, -1 if data is not
\* available".  A peek that has passed its tests returns 0.
PeekOnlyAvailable == cc = "copy" => asked <= Held

\* rtp_sdr_rbuf.c:46: "This implementation is thread safe for a single producer
\* and single consumer".  So it is where stores keep their order: try_put and get of two
\* threads, step by step, are calls of the bounded FIFO queue that happen one at a
\* time: try_put where it tests full or stores head, get where it tests empty or
\* stores tail.  A peek in between changes nothing of the queue; PeekIsOldest says
\* what it returns.
ThreadSafe == Q!Spec
=============================================================================
