----------------------------- MODULE RBufProofs -----------------------------
(***************************************************************************)
(* Proofs about RBuf and RBufSpsc for every size of the ring: the type     *)
(* invariant, that the ring implements the bounded FIFO queue of           *)
(* SampleQueue, and that it still does when a producer and a consumer      *)
(* thread share it.                                                        *)
(***************************************************************************)
EXTENDS RBufSpsc, TLAPS

-----------------------------------------------------------------------------
\* RBuf: a call is a step.

\* Arithmetic of the ring.  Advance stays in the array; the number of samples
\* held is at most Capacity; it is zero exactly when the ring is empty, and
\* Capacity exactly when it is full; head is the slot after the newest sample.
LEMMA RingArithmetic ==
  ASSUME head \in Slots, tail \in Slots
  PROVE  /\ Advance(head) \in Slots
         /\ Advance(tail) \in Slots
         /\ Held \in 0..Capacity
         /\ Held = 0 <=> Empty
         /\ Held = Capacity <=> Full
         /\ Slot(tail, Held) = head
         /\ \A j \in 0..Capacity : Slot(tail, j) \in Slots
         /\ \A j \in 0..(Held - 1) : Slot(tail, j) # head
BY SizeAssumption DEF Slots, Advance, Held, Full, Empty, Capacity, Slot

\* A function on 1..n with values in S is a sequence over S of length n.
LEMMA FunctionIsSeq ==
  ASSUME NEW S, NEW n \in Nat, NEW f,
         f = [j \in 1..n |-> f[j]], \A j \in 1..n : f[j] \in S
  PROVE  f \in Seq(S) /\ Len(f) = n
<1>1. f \in [1..n -> S]
  OBVIOUS
<1>2. QED
  BY <1>1

LEMMA SeqElements == ASSUME NEW S, NEW f \in Seq(S) PROVE \A j \in DOMAIN f : f[j] \in S
OBVIOUS

\* The sequence a ring stands for is a sequence of samples of length Held.
LEMMA ContentsIsSeq ==
  ASSUME TypeOK
  PROVE  /\ Contents \in Seq(Sample)
         /\ Len(Contents) = Held
         /\ Contents = <<>> <=> Empty
<1>1. Held \in 0..Capacity /\ (Held = 0 <=> Empty)
  BY RingArithmetic DEF TypeOK
<1>2. Held \in Nat
  BY <1>1, SizeAssumption DEF Capacity
<1>3. Contents \in [1..Held -> Sample]
  BY DEF TypeOK, Contents
<1>4. Contents \in Seq(Sample) /\ Len(Contents) = Held
  BY <1>2, <1>3
<1>5. QED
  BY <1>1, <1>4

-----------------------------------------------------------------------------
\* The three ways a call moves the ring, and what each does to the samples
\* held: a store at head with room, a removal at tail, and a store at head that
\* pushes the oldest sample out.

LEMMA StoreAppends ==
  ASSUME TypeOK, ~Full, NEW x \in Sample,
         buffer' = [buffer EXCEPT ![head] = x],
         head' = Advance(head), tail' = tail
  PROVE  Contents' = Append(Contents, x)
<1>1. Held' = Held + 1 /\ Held \in Nat /\ Held' \in 0..Capacity
  BY SizeAssumption DEF TypeOK, Slots, Held, Full, Advance, Capacity
<1>2. \A j \in 1..Held : /\ Slot(tail, j - 1)' = Slot(tail, j - 1)
                        /\ buffer'[Slot(tail, j - 1)] = buffer[Slot(tail, j - 1)]
  <2>1. \A j \in 1..Held : Slot(tail, j - 1) \in Slots /\ Slot(tail, j - 1) # head
    BY <1>1, RingArithmetic, SizeAssumption DEF TypeOK, Capacity
  <2>2. QED
    BY <2>1 DEF TypeOK, Slot
<1>3. buffer'[Slot(tail, Held)] = x
  BY RingArithmetic DEF TypeOK
<1>4. \A j \in 1..(Held + 1) : Contents'[j] = IF j = Held + 1 THEN x ELSE Contents[j]
  BY <1>1, <1>2, <1>3 DEF Contents, Slot
<1>5. Contents' \in Seq(Sample) /\ Len(Contents') = Held + 1
  <2>1. Contents' = [j \in 1..(Held + 1) |-> Contents'[j]]
    BY <1>1 DEF Contents
  <2>2. \A j \in 1..(Held + 1) : Contents'[j] \in Sample
    BY <1>1, <1>4 DEF TypeOK
  <2>3. QED
    BY <2>1, <2>2, <1>1, FunctionIsSeq
<1>6. QED
  BY <1>1, <1>4, <1>5, ContentsIsSeq

LEMMA RemovalIsTail ==
  ASSUME TypeOK, ~Empty,
         buffer' = buffer, head' = head, tail' = Advance(tail)
  PROVE  Contents' = Tail(Contents)
<1>1. Held' = Held - 1 /\ Held \in Nat /\ Held' \in Nat
  BY SizeAssumption DEF TypeOK, Slots, Held, Full, Empty, Advance, Capacity
<1>2. \A j \in 1..(Held - 1) : Slot(tail, j - 1)' = Slot(tail, j)
  BY <1>1, RingArithmetic, SizeAssumption DEF TypeOK, Slots, Slot, Advance, Capacity
<1>3. \A j \in 1..(Held - 1) : Contents'[j] = Contents[j + 1]
  BY <1>1, <1>2 DEF Contents
<1>4. Contents' \in Seq(Sample) /\ Len(Contents') = Held - 1
  <2>1. Contents' = [j \in 1..(Held - 1) |-> Contents'[j]]
    BY <1>1 DEF Contents
  <2>2. \A j \in 1..(Held - 1) : Contents'[j] \in Sample
    BY <1>1, <1>3 DEF TypeOK
  <2>3. QED
    BY <2>1, <2>2, <1>1, FunctionIsSeq
<1>5. QED
  BY <1>1, <1>3, <1>4, ContentsIsSeq

LEMMA OldestIsAtTail == ASSUME TypeOK, ~Empty PROVE Head(Contents) = buffer[tail]
<1>1. Contents[1] = buffer[Slot(tail, 0)]
  BY RingArithmetic, SizeAssumption DEF TypeOK, Contents, Capacity
<1>2. Slot(tail, 0) = tail
  BY SizeAssumption DEF TypeOK, Slots, Slot
<1>3. QED
  BY <1>1, <1>2, ContentsIsSeq

LEMMA OverwriteShifts ==
  ASSUME TypeOK, Full, NEW x \in Sample,
         buffer' = [buffer EXCEPT ![head] = x],
         head' = Advance(head), tail' = Advance(tail)
  PROVE  Contents' = Append(Tail(Contents), x)
<1>1. Held' = Held /\ Held = Capacity /\ Held \in Nat /\ Held > 0
  BY SizeAssumption DEF TypeOK, Slots, Held, Full, Advance, Capacity
<1>2. \A j \in 1..(Held - 1) : /\ Slot(tail, j - 1)' = Slot(tail, j)
                              /\ buffer'[Slot(tail, j)] = buffer[Slot(tail, j)]
  <2>1. \A j \in 1..(Held - 1) : Slot(tail, j) \in Slots /\ Slot(tail, j) # head
    BY <1>1, RingArithmetic, SizeAssumption DEF TypeOK, Capacity
  <2>2. \A j \in 1..(Held - 1) : Slot(tail, j - 1)' = Slot(tail, j)
    BY <1>1, SizeAssumption DEF TypeOK, Slots, Slot, Advance, Capacity
  <2>3. QED
    BY <2>1, <2>2 DEF TypeOK
<1>3. Slot(tail, Held - 1)' = head /\ buffer'[head] = x
  BY <1>1, SizeAssumption DEF TypeOK, Slots, Slot, Full, Advance, Capacity
<1>4. \A j \in 1..Held : Contents'[j] = IF j = Held THEN x ELSE Contents[j + 1]
  BY <1>1, <1>2, <1>3 DEF Contents
<1>5. Contents' \in Seq(Sample) /\ Len(Contents') = Held
  <2>1. Contents' = [j \in 1..Held |-> Contents'[j]]
    BY <1>1 DEF Contents
  <2>2. \A j \in 1..Held : Contents'[j] \in Sample
    BY <1>1, <1>4 DEF TypeOK
  <2>3. QED
    BY <2>1, <2>2, <1>1, FunctionIsSeq
<1>6. Contents \in Seq(Sample) /\ Len(Contents) = Held /\ Contents # <<>>
  BY <1>1, ContentsIsSeq
<1>7. Tail(Contents) \in Seq(Sample) /\ Len(Tail(Contents)) = Held - 1
      /\ \A j \in 1..(Held - 1) : Tail(Contents)[j] = Contents[j + 1]
  BY <1>1, <1>6
<1>8. QED
  BY <1>1, <1>4, <1>5, <1>7

-----------------------------------------------------------------------------
\* Every call keeps the type invariant and does to the samples held what the
\* same call of the queue does.

LEMMA TypeOKFromContents ==
  ASSUME buffer' \in [Slots -> Sample \union {Unset}],
         head' \in Slots, tail' \in Slots, Contents' \in Seq(Sample)
  PROVE  TypeOK'
<1>1. Held' \in Nat
  BY SizeAssumption DEF Held, Slots, Full, Advance, Capacity
<1>2. Contents' = [j \in 1..Held' |-> Contents'[j]]
  BY DEF Contents
<1>3. DOMAIN Contents' = 1..Held'
  BY <1>2
<1>4. \A j \in 1..Held' : Contents'[j] \in Sample
  BY <1>3, SeqElements
<1>5. QED
  BY <1>4 DEF TypeOK

LEMMA ResetStep == TypeOK /\ Reset => TypeOK' /\ Q!Reset
<1> SUFFICES ASSUME TypeOK, Reset PROVE TypeOK' /\ Q!Reset
  OBVIOUS
<1>1. head' \in Slots /\ tail' \in Slots
  BY SizeAssumption DEF Reset, Slots
<1>2. Held' = 0
  BY SizeAssumption DEF Reset, Held, Full, Advance
<1>3. Contents' = <<>>
  BY <1>2 DEF Contents
<1>4. QED
  BY <1>1, <1>3, TypeOKFromContents
  DEF TypeOK, Reset, Q!Reset, Returns, Q!Returns, OK, Q!OK

LEMMA PutStep == ASSUME NEW x \in Sample PROVE TypeOK /\ Put(x) => TypeOK' /\ Q!Put(x)
<1> SUFFICES ASSUME TypeOK, Put(x) PROVE TypeOK' /\ Q!Put(x)
  OBVIOUS
<1>1. Contents \in Seq(Sample) /\ Len(Contents) = Held /\ Held \in Nat
      /\ (Held = Capacity <=> Full) /\ (Full => Contents # <<>>)
  BY ContentsIsSeq, RingArithmetic, SizeAssumption DEF TypeOK, Capacity
<1>2. Contents' = IF Full THEN Append(Tail(Contents), x) ELSE Append(Contents, x)
  BY StoreAppends, OverwriteShifts DEF Put
<1>3. Contents' \in Seq(Sample)
  BY <1>1, <1>2
<1>4. head' \in Slots /\ tail' \in Slots /\ buffer' \in [Slots -> Sample \union {Unset}]
  BY RingArithmetic DEF TypeOK, Put
<1>5. QED
  BY <1>1, <1>2, <1>3, <1>4, TypeOKFromContents
  DEF Put, Q!Put, Returns, Q!Returns, OK, Q!OK

LEMMA TryPutStep ==
  ASSUME NEW x \in Sample PROVE TypeOK /\ TryPut(x) => TypeOK' /\ Q!TryPut(x)
<1> SUFFICES ASSUME TypeOK, TryPut(x) PROVE TypeOK' /\ Q!TryPut(x)
  OBVIOUS
<1>1. Contents \in Seq(Sample) /\ Len(Contents) = Held /\ Held \in 0..Capacity
      /\ (Held = Capacity <=> Full) /\ Capacity \in Nat
  BY ContentsIsSeq, RingArithmetic, SizeAssumption DEF TypeOK, Capacity
<1>2. CASE ~Full
  <2>1. Contents' = Append(Contents, x)
    BY <1>2, StoreAppends DEF TryPut
  <2>2. head' \in Slots /\ tail' \in Slots /\ buffer' \in [Slots -> Sample \union {Unset}]
    BY <1>2, RingArithmetic DEF TypeOK, TryPut
  <2>3. Len(Contents) < Capacity /\ Contents' \in Seq(Sample)
    BY <1>1, <1>2, <2>1
  <2>4. QED
    BY <1>2, <2>1, <2>2, <2>3, TypeOKFromContents
    DEF TryPut, Q!TryPut, Returns, Q!Returns, OK, Q!OK
<1>3. CASE Full
  <2>1. UNCHANGED <<buffer, head, tail>>
    BY <1>3 DEF TryPut
  <2>2. Contents' = Contents /\ TypeOK'
    BY <2>1 DEF TypeOK, Contents, Held, Full, Slot, Advance
  <2>3. QED
    BY <1>1, <1>3, <2>2 DEF TryPut, Q!TryPut, Returns, Q!Returns, Error, Q!Error
<1>4. QED
  BY <1>2, <1>3

LEMMA GetStep == TypeOK /\ Get => TypeOK' /\ Q!Get
<1> SUFFICES ASSUME TypeOK, Get PROVE TypeOK' /\ Q!Get
  OBVIOUS
<1>1. Contents \in Seq(Sample) /\ (Contents = <<>> <=> Empty)
  BY ContentsIsSeq
<1>2. CASE ~Empty
  <2>1. Contents' = Tail(Contents)
    BY <1>2, RemovalIsTail DEF Get
  <2>2. head' \in Slots /\ tail' \in Slots /\ buffer' \in [Slots -> Sample \union {Unset}]
    BY <1>2, RingArithmetic DEF TypeOK, Get
  <2>3. Contents' \in Seq(Sample)
    BY <1>1, <1>2, <2>1
  <2>4. Head(Contents) = buffer[tail]
    BY <1>2, OldestIsAtTail
  <2>5. QED
    BY <1>1, <1>2, <2>1, <2>2, <2>3, <2>4, TypeOKFromContents
    DEF Get, Q!Get, Returns, Q!Returns, OK, Q!OK
<1>3. CASE Empty
  <2>1. UNCHANGED <<buffer, head, tail>>
    BY <1>3 DEF Get
  <2>2. Contents' = Contents /\ TypeOK'
    BY <2>1 DEF TypeOK, Contents, Held, Full, Slot, Advance
  <2>3. QED
    BY <1>1, <1>3, <2>2 DEF Get, Q!Get, Returns, Q!Returns, Error, Q!Error
<1>4. QED
  BY <1>2, <1>3

LEMMA PeekStep ==
  ASSUME NEW n \in 0..MaxPeek PROVE TypeOK /\ Peek(n) => TypeOK' /\ Q!Peek(n)
<1> SUFFICES ASSUME TypeOK, Peek(n) PROVE TypeOK' /\ Q!Peek(n)
  OBVIOUS
<1>1. Contents' = Contents /\ TypeOK'
  BY DEF Peek, TypeOK, Contents, Held, Full, Slot, Advance
<1>2. Contents \in Seq(Sample) /\ Len(Contents) = Held /\ (Contents = <<>> <=> Empty)
  BY ContentsIsSeq
<1>3. n \in Nat /\ Held \in Nat
  BY RingArithmetic, SizeAssumption, MaxPeekAssumption DEF TypeOK, Capacity
<1>4. CASE ~Empty /\ n <= Held
  <2>1. [j \in 1..n |-> buffer[Slot(tail, j - 1)]] = [j \in 1..n |-> Contents[j]]
    BY <1>3, <1>4 DEF Contents
  <2>2. QED
    BY <1>1, <1>2, <1>4, <2>1
    DEF Peek, Q!Peek, Returns, Q!Returns, OK, Q!OK, Error, Q!Error
<1>5. CASE Empty \/ n > Held
  BY <1>1, <1>2, <1>3, <1>5
  DEF Peek, Q!Peek, Returns, Q!Returns, Error, Q!Error
<1>6. QED
  BY <1>3, <1>4, <1>5

LEMMA CountStep == TypeOK /\ Count => TypeOK' /\ Q!Count
<1> SUFFICES ASSUME TypeOK, Count PROVE TypeOK' /\ Q!Count
  OBVIOUS
<1>1. Contents' = Contents /\ TypeOK'
  BY DEF Count, TypeOK, Contents, Held, Full, Slot, Advance
<1>2. QED
  BY <1>1, ContentsIsSeq DEF Count, Q!Count, Returns, Q!Returns, OK, Q!OK

LEMMA StepImplements == TypeOK /\ [Next]_vars => TypeOK' /\ [Q!Next]_(Q!vars)
<1> SUFFICES ASSUME TypeOK, [Next]_vars PROVE TypeOK' /\ [Q!Next]_(Q!vars)
  OBVIOUS
<1>1. CASE Reset
  BY <1>1, ResetStep DEF Q!Next
<1>2. ASSUME NEW x \in Sample, Put(x) PROVE TypeOK' /\ [Q!Next]_(Q!vars)
  BY <1>2, PutStep DEF Q!Next
<1>3. ASSUME NEW x \in Sample, TryPut(x) PROVE TypeOK' /\ [Q!Next]_(Q!vars)
  BY <1>3, TryPutStep DEF Q!Next
<1>4. CASE Get
  BY <1>4, GetStep DEF Q!Next
<1>5. ASSUME NEW n \in 0..MaxPeek, Peek(n) PROVE TypeOK' /\ [Q!Next]_(Q!vars)
  BY <1>5, PeekStep DEF Q!Next
<1>6. CASE Count
  BY <1>6, CountStep DEF Q!Next
<1>7. CASE UNCHANGED vars
  BY <1>7 DEF vars, Q!vars, TypeOK, Contents, Held, Full, Slot, Advance
<1>8. QED
  BY <1>1, <1>2, <1>3, <1>4, <1>5, <1>6, <1>7 DEF Next

LEMMA InitImplements == Init => TypeOK /\ Q!Init
<1> SUFFICES ASSUME Init PROVE TypeOK /\ Q!Init
  OBVIOUS
<1>1. head \in Slots /\ tail \in Slots /\ buffer \in [Slots -> Sample \union {Unset}]
  BY SizeAssumption DEF Init, Slots
<1>2. Held = 0
  BY SizeAssumption DEF Init, Held, Full, Advance
<1>3. Contents = <<>>
  BY <1>2 DEF Contents
<1>4. QED
  BY <1>1, <1>2, <1>3 DEF TypeOK, Init, Q!Init, OK, Q!OK

\* The indices of a ring of any size stay inside the caller's array and no
\* slot between tail and head is ever one nobody stored to, whatever calls are
\* made in whatever order (rtp_sdr_rbuf.c, all of put, try_put, get, peek).
THEOREM TypeCorrect == Spec => []TypeOK
<1>1. Init => TypeOK
  BY InitImplements
<1>2. TypeOK /\ [Next]_vars => TypeOK'
  BY StepImplements
<1>3. QED
  BY <1>1, <1>2, PTL DEF Spec

\* A ring of Size slots, of any Size, is a FIFO queue of Size - 1 samples: each
\* of its calls changes the samples held, and answers, as the queue's does.
THEOREM RingImplementsQueue == Spec => ImplementsQueue
<1>1. Init => Q!Init
  BY InitImplements
<1>2. TypeOK /\ [Next]_vars => [Q!Next]_(Q!vars)
  BY StepImplements
<1>3. QED
  BY <1>1, <1>2, TypeCorrect, PTL DEF Spec, ImplementsQueue, Q!Spec

-----------------------------------------------------------------------------
\* RBufSpsc: the calls of two threads, at every access to what they share.

\* What holds whatever the order of the producer's stores: a try_put past its
\* test still has room, since only the consumer moves tail; a get or peek past its
\* test still has samples; and head stays below tail once it was seen there.
SizeInv ==
  /\ SpscTypeOK
  /\ pc \in {"store", "publish"} => ~Full
  /\ cc \in {"load", "advance", "full?", "wrapped?", "straight", "wrapped", "enough?"}
       => ~Empty
  /\ cc = "wrapped" => head < tail
  /\ SizeNeverTooLarge

\* A step of the producer leaves at least as many samples held, and leaves head
\* below tail where it was.
LEMMA ProducerMovesHead ==
  ASSUME head \in Slots, tail \in Slots, ~Full, head' = Advance(head), tail' = tail
  PROVE  /\ head' \in Slots
         /\ Held' = Held + 1
         /\ ~Empty'
         /\ head < tail => head' < tail'
BY SizeAssumption DEF Slots, Full, Empty, Held, Advance, Capacity

LEMMA SizeInvInit == SpscInit => SizeInv
BY SizeAssumption, MaxPeekAssumption, WordModAssumption
DEF SpscInit, Init, SizeInv, SpscTypeOK, SizeNeverTooLarge, Slots

LEMMA SizeInvProducer == SizeInv /\ Producer => SizeInv'
<1> SUFFICES ASSUME SizeInv, Producer PROVE SizeInv'
  OBVIOUS
<1>1. CASE \E x \in Sample : RefusePut(x)
  BY <1>1 DEF SizeInv, SpscTypeOK, SizeNeverTooLarge, RefusePut, producer, consumer,
              Held, Full, Empty, Advance, Slots
<1>2. CASE \E x \in Sample : StartPut(x)
  BY <1>2 DEF SizeInv, SpscTypeOK, SizeNeverTooLarge, StartPut, consumer,
              Held, Full, Empty, Advance, Slots
<1>3. CASE StoreSample
  BY <1>3 DEF SizeInv, SpscTypeOK, SizeNeverTooLarge, StoreSample, consumer,
              Held, Full, Empty, Advance, Slots
<1>4. CASE PublishHead \/ PublishHeadFirst
  <2>1. /\ head' = Advance(head) /\ ~Full
        /\ UNCHANGED <<buffer, tail, putting, cc, taken, asked, size, peeked>>
        /\ pc' \in {"idle", "late"}
    BY <1>4 DEF PublishHead, PublishHeadFirst, SizeInv, consumer
  <2>2. head' \in Slots /\ Held' = Held + 1 /\ ~Empty' /\ (head < tail => head' < tail')
    BY <2>1, ProducerMovesHead DEF SizeInv, SpscTypeOK
  <2>3. SpscTypeOK'
    BY <2>1, <2>2 DEF SizeInv, SpscTypeOK, Slots
  <2>4. SizeNeverTooLarge'
    <3>1. Held \in Nat
      BY RingArithmetic, SizeAssumption DEF SizeInv, SpscTypeOK, Capacity
    <3>2. QED
      BY <2>1, <2>2, <3>1, SizeAssumption, WordModAssumption
      DEF SizeInv, SpscTypeOK, SizeNeverTooLarge
  <2>5. QED
    BY <2>1, <2>2, <2>3, <2>4 DEF SizeInv
<1>5. CASE StoreSampleLate
  BY <1>5 DEF SizeInv, SpscTypeOK, SizeNeverTooLarge, StoreSampleLate, consumer,
              Held, Full, Empty, Advance, Slots
<1>6. QED
  BY <1>1, <1>2, <1>3, <1>4, <1>5 DEF Producer

LEMMA SizeInvGetter == SizeInv /\ Getter => SizeInv'
<1> SUFFICES ASSUME SizeInv, Getter PROVE SizeInv'
  OBVIOUS
<1>1. CASE RefuseGet \/ StartGet
  BY <1>1 DEF SizeInv, SpscTypeOK, SizeNeverTooLarge, RefuseGet, StartGet, producer, consumer,
              Held, Full, Empty, Advance, Slots
<1>2. CASE LoadSample
  <2>1. buffer[tail] \in Sample \union {Unset}
    BY DEF SizeInv, SpscTypeOK
  <2>2. taken' \in Seq(Sample \union {Unset})
    BY <1>2, <2>1 DEF LoadSample
  <2>3. QED
    BY <1>2, <2>2 DEF SizeInv, SpscTypeOK, SizeNeverTooLarge, LoadSample, producer,
                      Held, Full, Empty, Advance, Slots
<1>3. CASE AdvanceTail
  <2>1. tail' \in Slots
    BY <1>3, RingArithmetic DEF AdvanceTail, SizeInv, SpscTypeOK
  <2>2. pc \in {"store", "publish"} => ~Full'
    <3>1. head \in Slots /\ tail \in Slots /\ tail' = Advance(tail)
          /\ UNCHANGED <<head, pc>>
      BY <1>3 DEF AdvanceTail, producer, SizeInv, SpscTypeOK
    <3>2. tail # head
      BY <1>3 DEF AdvanceTail, SizeInv, Empty
    <3>3. QED
      <4>1. Advance(tail) # Advance(head)
        BY <3>1, <3>2, SizeAssumption DEF Advance, Slots
      <4>2. QED
        BY <3>1, <4>1 DEF Full, Advance
  <2>3. UNCHANGED <<buffer, head, pc, putting, taken, asked, size, peeked>> /\ cc' = "idle"
    BY <1>3 DEF AdvanceTail, producer
  <2>4. SpscTypeOK'
    BY <2>1, <2>3 DEF SizeInv, SpscTypeOK, Slots
  <2>5. QED
    BY <2>2, <2>3, <2>4 DEF SizeInv, SizeNeverTooLarge
<1>4. QED
  BY <1>1, <1>2, <1>3 DEF Getter

\* The peeker moves neither index, so what it has seen of them stays true.
LEMMA SizeInvPeeker == SizeInv /\ Peeker => SizeInv'
<1> SUFFICES ASSUME SizeInv, Peeker PROVE SizeInv'
  OBVIOUS
<1> USE DEF producer, consumer
<1>1. UNCHANGED <<buffer, head, tail, pc, putting>>
  BY DEF Peeker, RefusePeek, StartPeek, SizeIfFull, SizeIfWrapped, SizeStraight,
         SizeWrapped, TooMuchAsked, StartCopy, CopySample, EndPeek
<1>2. Held' = Held /\ (Full' <=> Full) /\ (Empty' <=> Empty)
  BY <1>1 DEF Held, Full, Empty, Advance
<1>3. Held \in 0..Capacity /\ (Full => Held = Capacity)
  BY RingArithmetic DEF SizeInv, SpscTypeOK
<1>4. CASE RefusePeek \/ TooMuchAsked \/ EndPeek
  BY <1>1, <1>2, <1>4
  DEF RefusePeek, TooMuchAsked, EndPeek, SizeInv, SpscTypeOK, SizeNeverTooLarge
<1>5. ASSUME NEW n \in 0..MaxPeek, StartPeek(n) PROVE SizeInv'
  BY <1>1, <1>2, <1>5 DEF StartPeek, SizeInv, SpscTypeOK, SizeNeverTooLarge
<1>6. CASE SizeIfFull
  BY <1>1, <1>2, <1>3, <1>6, SizeAssumption, WordModAssumption
  DEF SizeIfFull, SizeInv, SpscTypeOK, SizeNeverTooLarge, Capacity
<1>7. CASE SizeIfWrapped
  BY <1>1, <1>2, <1>7
  DEF SizeIfWrapped, SizeInv, SpscTypeOK, SizeNeverTooLarge, Slots
<1>8. CASE SizeStraight
  <2>1. size' <= Held \/ size' >= WordMod - Size
    BY <1>8, SizeAssumption, WordModAssumption
    DEF SizeStraight, SizeInv, SpscTypeOK, Word, Held, Full, Advance, Capacity, Slots
  <2>2. size' \in 0..WordMod
    BY <1>8, SizeAssumption, WordModAssumption
    DEF SizeStraight, SizeInv, SpscTypeOK, Word, Slots
  <2>3. QED
    BY <1>1, <1>2, <1>8, <2>1, <2>2
    DEF SizeStraight, SizeInv, SpscTypeOK, SizeNeverTooLarge
<1>9. CASE SizeWrapped
  <2>1. size' = Size + head - tail /\ size' = Held /\ size' \in 0..WordMod
    BY <1>9, SizeAssumption, WordModAssumption
    DEF SizeWrapped, SizeInv, SpscTypeOK, Word, Held, Full, Advance, Capacity, Slots
  <2>2. QED
    BY <1>1, <1>2, <1>9, <2>1 DEF SizeWrapped, SizeInv, SpscTypeOK, SizeNeverTooLarge, Slots
<1>10. CASE StartCopy
  <2>1. taken' \in Seq(Sample \union {Unset})
    BY <1>10 DEF StartCopy
  <2>2. QED
    BY <1>1, <1>2, <1>10, <2>1 DEF StartCopy, SizeInv, SpscTypeOK, SizeNeverTooLarge
<1>11. CASE CopySample
  <2>1. Len(taken) \in 0..(Size - 1)
    BY <1>11, MaxPeekBound, MaxPeekAssumption, SizeAssumption
    DEF CopySample, SizeInv, SpscTypeOK
  <2>2. Slot(tail, Len(taken)) \in Slots
    BY <2>1, RingArithmetic, SizeAssumption DEF SizeInv, SpscTypeOK, Capacity
  <2>3. taken' \in Seq(Sample \union {Unset})
    BY <1>11, <2>2 DEF CopySample, SizeInv, SpscTypeOK
  <2>4. QED
    BY <1>1, <1>2, <1>11, <2>3 DEF CopySample, SizeInv, SpscTypeOK, SizeNeverTooLarge
<1>12. QED
  BY <1>4, <1>5, <1>6, <1>7, <1>8, <1>9, <1>10, <1>11 DEF Peeker

LEMMA SizeInvStutter == SizeInv /\ UNCHANGED spscVars => SizeInv'
BY DEF SizeInv, SpscTypeOK, SizeNeverTooLarge, spscVars, Held, Full, Empty, Advance, Slots

\* Types, and a size of peek that is never too large unless it underflowed, for
\* every size of ring and whichever order the producer's stores are seen in.
THEOREM SizeSafe == Spsc => [](SpscTypeOK /\ SizeNeverTooLarge)
<1>1. SpscInit => SizeInv
  BY SizeInvInit
<1>2. SizeInv /\ [SpscNext]_spscVars => SizeInv'
  BY SizeInvProducer, SizeInvGetter, SizeInvPeeker, SizeInvStutter DEF SpscNext
<1>3. SizeInv => SpscTypeOK /\ SizeNeverTooLarge
  BY DEF SizeInv
<1>4. QED
  BY <1>1, <1>2, <1>3, PTL DEF Spsc

-----------------------------------------------------------------------------
\* What holds when the producer's stores are seen in program order.  Between the
\* two the sample is in the slot at head, which nobody reads; the consumer's
\* copy of the oldest sample stays the oldest until it stores tail.
HandOver ==
  /\ pc # "late"
  /\ pc \in {"store", "publish"} => putting \in Sample
  /\ pc = "publish" => buffer[head] = putting

GetInFlight ==
  /\ cc \in {"load", "advance"} => ~Empty
  /\ cc = "advance" => taken = <<buffer[tail]>>

PeekInFlight ==
  cc = "copy" /\ size <= Capacity =>
    /\ asked <= size
    /\ size <= Held
    /\ Len(taken) <= asked
    /\ \A j \in 1..Len(taken) : taken[j] = Contents[j]

SafeInv == SizeInv /\ TypeOK /\ HandOver /\ GetInFlight /\ PeekInFlight

\* A store to the slot at head changes nothing between tail and head.
LEMMA StoreInvisible ==
  ASSUME TypeOK, NEW x \in Sample, buffer' = [buffer EXCEPT ![head] = x],
         head' = head, tail' = tail
  PROVE  /\ Contents' = Contents
         /\ TypeOK'
         /\ ~Empty => buffer'[tail] = buffer[tail]
<1>1. Held' = Held /\ Held \in 0..Capacity
  BY RingArithmetic DEF TypeOK, Held, Full, Advance
<1>2. \A j \in 1..Held : Slot(tail, j - 1) \in Slots /\ Slot(tail, j - 1) # head
  BY <1>1, RingArithmetic, SizeAssumption DEF TypeOK, Capacity
<1>3. \A j \in 1..Held : buffer'[Slot(tail, j - 1)] = buffer[Slot(tail, j - 1)]
  BY <1>2 DEF TypeOK
<1>4. Contents' = Contents
  BY <1>1, <1>3 DEF Contents, Slot
<1>5. buffer' \in [Slots -> Sample \union {Unset}]
  BY DEF TypeOK
<1>6. ~Empty => buffer'[tail] = buffer[tail]
  BY DEF TypeOK, Empty
<1>7. QED
  BY <1>1, <1>4, <1>5, <1>6 DEF TypeOK

\* A sample stored and then published is appended to those held.
LEMMA PublishAppends ==
  ASSUME TypeOK, ~Full, NEW x \in Sample, buffer[head] = x,
         buffer' = buffer, head' = Advance(head), tail' = tail
  PROVE  /\ Contents' = Append(Contents, x)
         /\ TypeOK'
         /\ \A j \in 1..Held : Contents'[j] = Contents[j]
<1>1. buffer' = [buffer EXCEPT ![head] = x]
  BY DEF TypeOK
<1>2. Contents' = Append(Contents, x)
  BY <1>1, StoreAppends
<1>3. Contents \in Seq(Sample) /\ Len(Contents) = Held
  BY ContentsIsSeq
<1>4. TypeOK'
  <2>1. head' \in Slots /\ tail' \in Slots /\ buffer' \in [Slots -> Sample \union {Unset}]
    BY RingArithmetic DEF TypeOK
  <2>2. QED
    BY <1>2, <1>3, <2>1, TypeOKFromContents
<1>5. \A j \in 1..Held : Contents'[j] = Contents[j]
  BY <1>2, <1>3
<1>6. QED
  BY <1>2, <1>4, <1>5

LEMMA SafeInvInit == SpscInit => SafeInv
<1>1. SpscInit => TypeOK /\ SizeInv
  BY InitImplements, SizeInvInit DEF SpscInit
<1>2. SpscInit => HandOver /\ GetInFlight /\ PeekInFlight
  BY DEF SpscInit, HandOver, GetInFlight, PeekInFlight
<1>3. QED
  BY <1>1, <1>2 DEF SafeInv

LEMMA SafeInvProducer == InOrder = TRUE /\ SafeInv /\ Producer => SafeInv'
<1> SUFFICES ASSUME InOrder = TRUE, SafeInv, Producer PROVE SafeInv'
  OBVIOUS
<1>1. SizeInv'
  BY SizeInvProducer DEF SafeInv
<1>2. UNCHANGED consumer
  BY DEF Producer, RefusePut, StartPut, StoreSample, PublishHead, PublishHeadFirst,
         StoreSampleLate
<1>3. CASE \E x \in Sample : RefusePut(x) \/ StartPut(x)
  <2>1. UNCHANGED <<buffer, head, tail>> /\ (HandOver')
    BY <1>3 DEF RefusePut, StartPut, SafeInv, HandOver, producer
  <2>2. Contents' = Contents /\ Held' = Held /\ (Empty' <=> Empty) /\ TypeOK'
    BY <2>1 DEF SafeInv, TypeOK, Contents, Held, Full, Empty, Slot, Advance
  <2>3. QED
    BY <1>1, <1>2, <2>1, <2>2 DEF SafeInv, GetInFlight, PeekInFlight, consumer
<1>4. CASE StoreSample
  <2>1. /\ buffer' = [buffer EXCEPT ![head] = putting] /\ putting \in Sample
        /\ UNCHANGED <<head, tail, putting>> /\ pc' = "publish"
    BY <1>4 DEF StoreSample, SafeInv, HandOver
  <2>2. Contents' = Contents /\ TypeOK' /\ (~Empty => buffer'[tail] = buffer[tail])
    BY <2>1, StoreInvisible DEF SafeInv
  <2>3. Held' = Held /\ (Empty' <=> Empty)
    BY <2>1 DEF Held, Full, Empty, Advance
  <2>4. HandOver'
    BY <2>1 DEF HandOver, SafeInv, TypeOK
  <2>5. QED
    BY <1>1, <1>2, <2>1, <2>2, <2>3, <2>4
    DEF SafeInv, GetInFlight, PeekInFlight, consumer
<1>5. CASE PublishHead
  <2>1. /\ buffer' = buffer /\ head' = Advance(head) /\ tail' = tail
        /\ ~Full /\ buffer[head] = putting /\ putting \in Sample /\ pc' = "idle"
    BY <1>5 DEF PublishHead, SafeInv, SizeInv, HandOver
  <2>2. TypeOK' /\ \A j \in 1..Held : Contents'[j] = Contents[j]
    BY <2>1, PublishAppends DEF SafeInv
  <2>3. Held' = Held + 1 /\ ~Empty' /\ Held \in Nat
    BY <2>1, ProducerMovesHead, RingArithmetic, SizeAssumption DEF SafeInv, TypeOK, Capacity
  <2>4. HandOver' /\ GetInFlight'
    BY <1>2, <2>1, <2>3 DEF HandOver, GetInFlight, SafeInv, consumer
  <2>5. PeekInFlight'
    <3> SUFFICES ASSUME cc = "copy", size <= Capacity
                 PROVE  /\ asked <= size
                        /\ size <= Held'
                        /\ Len(taken) <= asked
                        /\ \A j \in 1..Len(taken) : taken[j] = Contents'[j]
      BY <1>2 DEF PeekInFlight, consumer, Capacity
    <3>1. asked <= size /\ size <= Held /\ Len(taken) <= asked
          /\ \A j \in 1..Len(taken) : taken[j] = Contents[j]
      BY DEF SafeInv, PeekInFlight
    <3>2. Len(taken) \in Nat /\ asked \in Nat /\ size \in Nat
      BY MaxPeekAssumption, WordModAssumption DEF SafeInv, SizeInv, SpscTypeOK
    <3>3. QED
      BY <2>2, <2>3, <3>1, <3>2
  <2>6. QED
    BY <1>1, <2>2, <2>4, <2>5 DEF SafeInv
<1>6. CASE PublishHeadFirst \/ StoreSampleLate
  BY <1>6 DEF PublishHeadFirst, StoreSampleLate, SafeInv, HandOver
<1>7. QED
  BY <1>3, <1>4, <1>5, <1>6 DEF Producer

LEMMA SafeInvGetter == SafeInv /\ Getter => SafeInv'
<1> SUFFICES ASSUME SafeInv, Getter PROVE SafeInv'
  OBVIOUS
<1>1. SizeInv'
  BY SizeInvGetter DEF SafeInv
<1>2. UNCHANGED <<buffer, head, pc, putting>> /\ cc' # "copy"
  BY DEF Getter, RefuseGet, StartGet, LoadSample, AdvanceTail, producer, consumer
<1>3. HandOver' /\ PeekInFlight'
  BY <1>2 DEF SafeInv, HandOver, PeekInFlight
<1>4. CASE RefuseGet \/ StartGet \/ LoadSample
  <2>1. UNCHANGED tail
    BY <1>4 DEF RefuseGet, StartGet, LoadSample
  <2>2. TypeOK' /\ (Empty' <=> Empty)
    BY <1>2, <2>1 DEF SafeInv, TypeOK, Contents, Held, Full, Empty, Slot, Advance
  <2>3. GetInFlight'
    BY <1>2, <1>4, <2>1, <2>2
    DEF SafeInv, GetInFlight, RefuseGet, StartGet, LoadSample, consumer
  <2>4. QED
    BY <1>1, <1>3, <2>2, <2>3 DEF SafeInv
<1>5. CASE AdvanceTail
  <2>1. tail' = Advance(tail) /\ ~Empty /\ cc' = "idle"
    BY <1>5 DEF AdvanceTail, SafeInv, GetInFlight
  <2>2. Contents' = Tail(Contents)
    BY <1>2, <2>1, RemovalIsTail DEF SafeInv
  <2>3. Contents \in Seq(Sample) /\ Contents # <<>>
    BY <2>1, ContentsIsSeq DEF SafeInv
  <2>4. TypeOK'
    <3>1. head' \in Slots /\ tail' \in Slots /\ buffer' \in [Slots -> Sample \union {Unset}]
      BY <1>2, <2>1, RingArithmetic DEF SafeInv, TypeOK
    <3>2. QED
      BY <2>2, <2>3, <3>1, TypeOKFromContents
  <2>5. QED
    BY <1>1, <1>3, <2>1, <2>4 DEF SafeInv, GetInFlight
<1>6. QED
  BY <1>4, <1>5 DEF Getter

LEMMA SafeInvPeeker == SafeInv /\ Peeker => SafeInv'
<1> SUFFICES ASSUME SafeInv, Peeker PROVE SafeInv'
  OBVIOUS
<1>1. SizeInv'
  BY SizeInvPeeker DEF SafeInv
<1>2. UNCHANGED <<buffer, head, tail, pc, putting>> /\ cc' \notin {"load", "advance"}
  BY DEF Peeker, RefusePeek, StartPeek, SizeIfFull, SizeIfWrapped, SizeStraight,
         SizeWrapped, TooMuchAsked, StartCopy, CopySample, EndPeek, producer, consumer
<1>3. Contents' = Contents /\ Held' = Held
  BY <1>2 DEF Contents, Held, Full, Slot, Advance
<1>4. TypeOK' /\ HandOver' /\ GetInFlight'
  BY <1>2, <1>3 DEF SafeInv, TypeOK, HandOver, GetInFlight
<1>5. Held \in 0..Capacity /\ asked \in Nat /\ size \in Nat
  BY RingArithmetic, MaxPeekAssumption, WordModAssumption
  DEF SafeInv, SizeInv, SpscTypeOK, TypeOK
<1>6. CASE cc' # "copy"
  BY <1>1, <1>4, <1>6 DEF SafeInv, PeekInFlight
<1>7. CASE StartCopy
  <2>1. taken' = <<>> /\ asked' = asked /\ size' = size /\ asked <= size
        /\ (size <= Held \/ size >= WordMod - Size)
    BY <1>7 DEF StartCopy, SafeInv, SizeInv, SizeNeverTooLarge
  <2>2. size <= Capacity => size <= Held
    BY <1>5, <2>1, SizeAssumption, WordModAssumption DEF Capacity
  <2>3. PeekInFlight'
    BY <1>3, <1>5, <2>1, <2>2 DEF PeekInFlight, Capacity
  <2>4. QED
    BY <1>1, <1>4, <2>3 DEF SafeInv
<1>8. CASE CopySample
  <2> DEFINE x == buffer[Slot(tail, Len(taken))]
  <2>1. /\ taken' = Append(taken, x) /\ cc = "copy" /\ Len(taken) < asked
        /\ asked' = asked /\ size' = size
    BY <1>8 DEF CopySample
  <2>2. taken \in Seq(Sample \union {Unset})
    BY DEF SafeInv, SizeInv, SpscTypeOK
  <2>3. SUFFICES ASSUME size <= Capacity
                 PROVE  /\ asked <= size /\ size <= Held /\ Len(taken') <= asked
                        /\ \A j \in 1..Len(taken') : taken'[j] = Contents[j]
    BY <1>1, <1>3, <1>4, <2>1 DEF SafeInv, PeekInFlight, Capacity
  <2>4. /\ asked <= size /\ size <= Held
        /\ \A j \in 1..Len(taken) : taken[j] = Contents[j]
    BY <2>1, <2>3 DEF SafeInv, PeekInFlight
  <2>5. Len(taken) + 1 \in 1..Held /\ Len(taken) \in Nat
    BY <1>5, <2>1, <2>2, <2>4
  <2>6. Contents[Len(taken) + 1] = x
    BY <2>5 DEF Contents
  <2>7. /\ Len(taken') = Len(taken) + 1
        /\ \A j \in 1..Len(taken) : taken'[j] = taken[j]
        /\ taken'[Len(taken) + 1] = x
    <3> HIDE DEF x
    <3> QED
      <4>1. ASSUME NEW T, NEW t \in Seq(T), NEW y
            PROVE  /\ Len(Append(t, y)) = Len(t) + 1
                   /\ \A j \in 1..Len(t) : Append(t, y)[j] = t[j]
                   /\ Append(t, y)[Len(t) + 1] = y
        OBVIOUS
      <4>2. QED
        BY <2>1, <2>2, <4>1
  <2>8. QED
    BY <1>5, <2>1, <2>4, <2>5, <2>6, <2>7
<1>9. QED
  <2>1. StartCopy \/ CopySample \/ cc' # "copy"
    BY DEF Peeker, RefusePeek, StartPeek, SizeIfFull, SizeIfWrapped, SizeStraight,
           SizeWrapped, TooMuchAsked, StartCopy, CopySample, EndPeek, consumer
  <2>2. QED
    BY <1>6, <1>7, <1>8, <2>1

LEMMA SafeInvStutter == SafeInv /\ UNCHANGED spscVars => SafeInv'
<1> SUFFICES ASSUME SafeInv, UNCHANGED spscVars PROVE SafeInv'
  OBVIOUS
<1>1. SizeInv'
  BY SizeInvStutter DEF SafeInv
<1>2. UNCHANGED <<buffer, head, tail, pc, putting, cc, taken, asked, size, peeked>>
  BY DEF spscVars
<1>3. Contents' = Contents /\ Held' = Held /\ (Empty' <=> Empty)
  BY <1>2 DEF Contents, Held, Full, Empty, Slot, Advance
<1>4. TypeOK' /\ HandOver' /\ GetInFlight' /\ PeekInFlight'
  BY <1>2, <1>3 DEF SafeInv, TypeOK, HandOver, GetInFlight, PeekInFlight, Capacity
<1>5. QED
  BY <1>1, <1>4 DEF SafeInv

LEMMA SafeInvStep == InOrder = TRUE /\ SafeInv /\ [SpscNext]_spscVars => SafeInv'
BY SafeInvProducer, SafeInvGetter, SafeInvPeeker, SafeInvStutter DEF SpscNext

LEMMA SafeInvImpliesPeekIsOldest == SafeInv => PeekIsOldest
<1> SUFFICES ASSUME SafeInv, cc = "copy", size <= Capacity
             PROVE  asked <= Held /\ \A j \in 1..Len(taken) : taken[j] = Contents[j]
  BY DEF PeekIsOldest
<1>1. /\ asked <= size /\ size <= Held
      /\ \A j \in 1..Len(taken) : taken[j] = Contents[j]
  BY DEF SafeInv, PeekInFlight
<1>2. asked \in Nat /\ size \in Nat /\ Held \in Nat
  BY RingArithmetic, SizeAssumption, MaxPeekAssumption, WordModAssumption
  DEF SafeInv, SizeInv, SpscTypeOK, TypeOK, Capacity
<1>3. QED
  BY <1>1, <1>2

\* With the producer's stores seen in order, a peek that trusts a size that did
\* not underflow returns the oldest samples of the ring, whatever is put while
\* it counts and copies.
THEOREM PeekSafe == ASSUME InOrder = TRUE PROVE Spsc => []PeekIsOldest
<1>1. SpscInit => SafeInv
  BY SafeInvInit
<1>2. SafeInv /\ [SpscNext]_spscVars => SafeInv'
  BY SafeInvStep
<1>3. SafeInv => PeekIsOldest
  BY SafeInvImpliesPeekIsOldest
<1>4. QED
  BY <1>1, <1>2, <1>3, PTL DEF Spsc

-----------------------------------------------------------------------------
\* The steps that decide a call are the queue's calls; all others change
\* neither the samples held nor the last reply.

LEMMA ProducerImplements ==
  InOrder = TRUE /\ SafeInv /\ Producer => [Q!Next]_(Q!vars)
<1> SUFFICES ASSUME InOrder = TRUE, SafeInv, Producer PROVE [Q!Next]_(Q!vars)
  OBVIOUS
<1>1. Contents \in Seq(Sample) /\ Len(Contents) = Held /\ Held \in 0..Capacity
      /\ (Held = Capacity <=> Full) /\ Capacity \in Nat
  BY ContentsIsSeq, RingArithmetic, SizeAssumption DEF SafeInv, TypeOK, Capacity
<1>2. ASSUME NEW x \in Sample, RefusePut(x) PROVE Q!TryPut(x)
  <2>1. Contents' = Contents
    BY <1>2 DEF RefusePut, Contents, Held, Full, Slot, Advance
  <2>2. QED
    BY <1>1, <1>2, <2>1 DEF RefusePut, Q!TryPut, Returns, Q!Returns, Error, Q!Error
<1>3. ASSUME NEW x \in Sample, StartPut(x) PROVE UNCHANGED Q!vars
  BY <1>3 DEF StartPut, Q!vars, Contents, Held, Full, Slot, Advance
<1>4. CASE StoreSample
  BY <1>4, StoreInvisible DEF StoreSample, SafeInv, HandOver, Q!vars
<1>5. CASE PublishHead
  <2>1. putting \in Sample /\ Contents' = Append(Contents, putting) /\ ~Full
    BY <1>5, PublishAppends DEF PublishHead, SafeInv, SizeInv, HandOver
  <2>2. Len(Contents) < Capacity
    BY <1>1, <2>1
  <2>3. Q!TryPut(putting)
    BY <1>5, <2>1, <2>2 DEF PublishHead, Q!TryPut, Returns, Q!Returns, OK, Q!OK
  <2>4. QED
    BY <2>1, <2>3 DEF Q!Next
<1>6. CASE PublishHeadFirst \/ StoreSampleLate
  BY <1>6 DEF PublishHeadFirst, StoreSampleLate, SafeInv, HandOver
<1>7. QED
  BY <1>2, <1>3, <1>4, <1>5, <1>6 DEF Producer, Q!Next

LEMMA GetterImplements == SafeInv /\ Getter => [Q!Next]_(Q!vars)
<1> SUFFICES ASSUME SafeInv, Getter PROVE [Q!Next]_(Q!vars)
  OBVIOUS
<1>1. Contents \in Seq(Sample) /\ (Contents = <<>> <=> Empty)
  BY ContentsIsSeq DEF SafeInv
<1>2. CASE RefuseGet
  <2>1. Contents' = Contents
    BY <1>2 DEF RefuseGet, Contents, Held, Full, Slot, Advance
  <2>2. Q!Get
    BY <1>1, <1>2, <2>1 DEF RefuseGet, Q!Get, Returns, Q!Returns, Error, Q!Error
  <2>3. QED
    BY <2>2 DEF Q!Next
<1>3. CASE StartGet \/ LoadSample
  BY <1>3 DEF StartGet, LoadSample, Q!vars, Contents, Held, Full, Slot, Advance
<1>4. CASE AdvanceTail
  <2>1. ~Empty /\ taken = <<buffer[tail]>>
    BY <1>4 DEF AdvanceTail, SafeInv, GetInFlight
  <2>2. Contents' = Tail(Contents)
    BY <1>4, <2>1, RemovalIsTail DEF AdvanceTail, SafeInv
  <2>3. Head(Contents) = buffer[tail]
    BY <2>1, OldestIsAtTail DEF SafeInv
  <2>4. Q!Get
    BY <1>1, <1>4, <2>1, <2>2, <2>3
    DEF AdvanceTail, Q!Get, Returns, Q!Returns, OK, Q!OK
  <2>5. QED
    BY <2>4 DEF Q!Next
<1>5. QED
  BY <1>2, <1>3, <1>4 DEF Getter

LEMMA PeekerImplements == Peeker => UNCHANGED Q!vars
<1>1. Peeker => UNCHANGED <<buffer, head, tail, reply>>
  BY DEF Peeker, RefusePeek, StartPeek, SizeIfFull, SizeIfWrapped, SizeStraight,
         SizeWrapped, TooMuchAsked, StartCopy, CopySample, EndPeek
<1>2. QED
  BY <1>1 DEF Q!vars, Contents, Held, Full, Slot, Advance

\* try_put of one thread against get and peek of another, for every size of ring:
\* the interleaved steps implement the calls of a FIFO queue, one at a time, so no
\* sample is lost, doubled, reordered or seen half stored.  It needs InOrder.
THEOREM RingIsThreadSafe == ASSUME InOrder = TRUE PROVE Spsc => ThreadSafe
<1>1. SpscInit => SafeInv /\ Q!Init
  BY SafeInvInit, InitImplements DEF SpscInit
<1>2. SafeInv /\ [SpscNext]_spscVars => SafeInv'
  BY SafeInvStep
<1>3. SafeInv /\ [SpscNext]_spscVars => [Q!Next]_(Q!vars)
  <2>1. UNCHANGED spscVars => UNCHANGED Q!vars
    BY DEF spscVars, Q!vars, Contents, Held, Full, Slot, Advance
  <2>2. QED
    BY <2>1, ProducerImplements, GetterImplements, PeekerImplements DEF SpscNext
<1>4. QED
  BY <1>1, <1>2, <1>3, PTL DEF Spsc, ThreadSafe, Q!Spec
=============================================================================
