-------------------------------- MODULE RBuf --------------------------------
(***************************************************************************)
(* The circular sample buffer of src/sdr/rtp_sdr_rbuf.c, one action per    *)
(* call of its interface, each call taken as a whole: the behaviour of a   *)
(* buffer used by one thread.  RBufSpsc has the same calls step by step.   *)
(*                                                                         *)
(* One slot is always left unused, so that head = tail means empty; the    *)
(* functions full, size and peek all rest on that convention.              *)
(***************************************************************************)
EXTENDS Naturals, Sequences

CONSTANTS Sample,    \* the IQ samples
          Unset,     \* what a slot of the caller's array holds before a store
          Size,      \* number of slots of the caller's array
          MaxPeek    \* the largest look_ahead_counter a caller passes

\* rtp_sdr_rbuf_init asserts size > 1.
ASSUME SizeAssumption == Size \in Nat /\ Size > 1
ASSUME MaxPeekAssumption == MaxPeek \in Nat
ASSUME UnsetAssumption == Unset \notin Sample

VARIABLES buffer,    \* the caller's array
          head,      \* next slot to write
          tail,      \* oldest slot held
          reply      \* what the last completed call returned

vars == <<buffer, head, tail, reply>>

Slots == 0 .. Size - 1

OK    == "ok"
Error == "error"

Returns(op, rc, data) == reply' = [op |-> op, rc |-> rc, data |-> data]

-----------------------------------------------------------------------------
\* Mutant: the index is not wrapped.
AdvanceNoWrap(v) == v + 1

\* _advance_headtail_value
Advance(v) == IF v + 1 = Size THEN 0 ELSE v + 1

\* rtp_sdr_rbuf_empty, rtp_sdr_rbuf_full
Empty == head = tail
Full  == Advance(head) = tail

\* rtp_sdr_rbuf_capacity, rtp_sdr_rbuf_size
Capacity == Size - 1
Held == IF Full THEN Capacity
        ELSE IF head >= tail THEN head - tail
                             ELSE Size + head - tail

\* The slot `pos` points at after j rounds of the copying loop of peek.
Slot(t, j) == IF t + j < Size THEN t + j ELSE t + j - Size

-----------------------------------------------------------------------------
Init == /\ buffer = [s \in Slots |-> Unset]
        /\ head = 0
        /\ tail = 0
        /\ reply = [op |-> "init", rc |-> OK, data |-> <<>>]

Reset == /\ head' = 0
         /\ tail' = 0
         /\ UNCHANGED buffer
         /\ Returns("reset", OK, <<>>)

\* Mutant: a full ring keeps its tail, and looks empty afterwards.
PutKeepsTail(x) == /\ buffer' = [buffer EXCEPT ![head] = x]
                   /\ head' = Advance(head)
                   /\ UNCHANGED tail
                   /\ Returns("put", OK, <<>>)

\* The slot at head is the unused one, so storing there first is harmless.
Put(x) == /\ buffer' = [buffer EXCEPT ![head] = x]
          /\ tail' = IF Full THEN Advance(tail) ELSE tail
          /\ head' = Advance(head)
          /\ Returns("put", OK, <<>>)

TryPut(x) == \/ /\ ~Full
                /\ buffer' = [buffer EXCEPT ![head] = x]
                /\ head' = Advance(head)
                /\ UNCHANGED tail
                /\ Returns("try_put", OK, <<>>)
             \/ /\ Full
                /\ UNCHANGED <<buffer, head, tail>>
                /\ Returns("try_put", Error, <<>>)

Get == \/ /\ ~Empty
          /\ tail' = Advance(tail)
          /\ UNCHANGED <<buffer, head>>
          /\ Returns("get", OK, <<buffer[tail]>>)
       \/ /\ Empty
          /\ UNCHANGED <<buffer, head, tail>>
          /\ Returns("get", Error, <<>>)

Peek(n) == /\ UNCHANGED <<buffer, head, tail>>
           /\ \/ /\ ~Empty /\ n <= Held
                 /\ Returns("peek", OK, [j \in 1..n |-> buffer[Slot(tail, j - 1)]])
              \/ /\ Empty \/ n > Held
                 /\ Returns("peek", Error, <<>>)

Count == /\ UNCHANGED <<buffer, head, tail>>
         /\ Returns("size", OK, <<Held>>)

Next == \/ Reset
        \/ \E x \in Sample : Put(x) \/ TryPut(x)
        \/ Get
        \/ \E n \in 0..MaxPeek : Peek(n)
        \/ Count

Spec == Init /\ [][Next]_vars

-----------------------------------------------------------------------------
\* The samples held, oldest first: what the ring stands for.
Contents == [j \in 1..Held |-> buffer[Slot(tail, j - 1)]]

Q == INSTANCE SampleQueue WITH queue <- Contents, Capacity <- Capacity

\* Type invariant: the indices stay inside the caller's array, and every slot
\* between tail and head holds a sample some call stored.
TypeOK == /\ buffer \in [Slots -> Sample \union {Unset}]
          /\ head \in Slots
          /\ tail \in Slots
          /\ \A j \in 1..Held : Contents[j] \in Sample

\* Every call of the ring does to the samples held what the same call of a
\* bounded FIFO queue does, and gives its caller the same reply: nothing is
\* lost, repeated or reordered at a wrap of head or of tail, a full buffer
\* loses its oldest sample to put and nothing to try_put, and size and peek
\* agree with what get would deliver.
ImplementsQueue == Q!Spec
=============================================================================
