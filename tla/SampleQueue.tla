---------------------------- MODULE SampleQueue ----------------------------
(***************************************************************************)
(* What the sample buffer of src/sdr promises its callers: a bounded FIFO  *)
(* of IQ samples.  There is no ring, no head and no tail here; a caller    *)
(* sees only the calls it makes and the replies it gets.                   *)
(***************************************************************************)
EXTENDS Naturals, Sequences

CONSTANTS Sample,    \* the IQ samples
          Capacity,  \* how many samples the queue can hold, at least one
          MaxPeek    \* the most samples a caller asks to look at

VARIABLES queue,     \* the samples held, oldest first
          reply      \* what the last completed call returned

vars == <<queue, reply>>

-----------------------------------------------------------------------------
\* RTP_SDR_RBUF_OK and RTP_SDR_RBUF_ERROR, and a reply: return code and data.
OK    == "ok"
Error == "error"

Returns(op, rc, data) == reply' = [op |-> op, rc |-> rc, data |-> data]

Init == /\ queue = <<>>
        /\ reply = [op |-> "init", rc |-> OK, data |-> <<>>]

\* Forget everything held.
Reset == /\ queue' = <<>>
         /\ Returns("reset", OK, <<>>)

\* Always accepts the sample; a full queue loses its oldest one.
Put(x) == /\ queue' = IF Len(queue) = Capacity THEN Append(Tail(queue), x)
                                               ELSE Append(queue, x)
          /\ Returns("put", OK, <<>>)

\* Accepts the sample if there is room, and says whether there was.
TryPut(x) == \/ /\ Len(queue) < Capacity
                /\ queue' = Append(queue, x)
                /\ Returns("try_put", OK, <<>>)
             \/ /\ Len(queue) = Capacity
                /\ queue' = queue
                /\ Returns("try_put", Error, <<>>)

\* Removes the oldest sample and returns it, or says there is none.
Get == \/ /\ queue # <<>>
          /\ queue' = Tail(queue)
          /\ Returns("get", OK, <<Head(queue)>>)
       \/ /\ queue = <<>>
          /\ queue' = queue
          /\ Returns("get", Error, <<>>)

\* Copies the n oldest samples and removes none; an error if fewer are held,
\* and always on an empty queue.
Peek(n) == /\ queue' = queue
           /\ \/ /\ queue # <<>> /\ n <= Len(queue)
                 /\ Returns("peek", OK, [j \in 1..n |-> queue[j]])
              \/ /\ queue = <<>> \/ n > Len(queue)
                 /\ Returns("peek", Error, <<>>)

\* How many samples are held.
Count == /\ queue' = queue
         /\ Returns("size", OK, <<Len(queue)>>)

Next == \/ Reset
        \/ \E x \in Sample : Put(x) \/ TryPut(x)
        \/ Get
        \/ \E n \in 0..MaxPeek : Peek(n)
        \/ Count

Spec == Init /\ [][Next]_vars
=============================================================================
