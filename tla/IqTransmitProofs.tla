-------------------------- MODULE IqTransmitProofs ---------------------------
(***************************************************************************)
(* Proofs about IqTransmit, for a ring of any size above what is peeked    *)
(* at, a file of any length and any number of values of a size_t above     *)
(* twice the size: what a transmission copies, and when it is refused,     *)
(* although main overwrites the ring it reads and no load is synchronized. *)
(***************************************************************************)
EXTENDS IqTransmit, TLAPS

-----------------------------------------------------------------------------
\* The sample of the k-th put, or Unset if there was none.
PutValue(k) == IF k <= 0 THEN Unset ELSE NthPut(k)

\* How far head is beyond slot s, and slot h beyond tail.
Back(s) == IF s < head THEN head - s ELSE head + Size - s
Ahead(h) == IF h >= tail THEN h - tail ELSE h + Size - tail

\* After n puts, the number of the put whose sample slot s holds: the slot at head
\* has the sample of a whole turn ago, or already that of the put under way.
PutIn(n, s) == IF s = head /\ mpc \in {"tail", "head"} THEN n + 1 ELSE n + 1 - Back(s)

RingInv(n) == /\ data = NthPut(n + 1)
              /\ \A s \in Slots : buffer[s] = PutValue(PutIn(n, s))
              /\ Held <= n
              /\ mpc = "head" => ~Full

\* A ring that was full once lacks a sample only while main overwrites one.
Turned == Held = Capacity \/ (mpc = "head" /\ Held = Capacity - 1)

\* Before that, tail has not moved, and whatever was loaded of head is behind it.
Early(n) == /\ tail = 0 /\ head = n
            /\ "tail" \in DOMAIN seen => seen["tail"] = 0
            /\ "head" \in DOMAIN seen => seen["head"] <= head
            /\ tpc # "wrapped"
            /\ tpc = "enough?" => size <= head

\* The slots that are copied hold the samples in their order, or newer by turns.
CopyFrom(n, a) == /\ oldest = NthPut(a)
                  /\ \A j \in 0 .. Wanted - 1 :
                       \/ PutIn(n, Slot(from, j)) = a + j
                       \/ PutIn(n, Slot(from, j)) >= a + j + Size

\* A transmission that has no excuse found enough samples, and tail has not moved:
\* whatever it loaded of head and tail shows at least as many.
Unexcused ==
  ~excused /\ tpc \in (Comparing \ {"poll"}) \union {"enough?"} =>
    /\ Held >= Wanted
    /\ "tail" \in DOMAIN seen => seen["tail"] = tail
    /\ "head" \in DOMAIN seen => /\ Ahead(seen["head"]) \in Wanted .. Held
                                 /\ tpc = "wrapped" => seen["head"] < tail
    /\ tpc = "wrapped" => head < tail
    /\ tpc = "enough?" => size >= Wanted

\* Nothing is loaded where nothing is compared.
Forgotten == tpc \notin Comparing \union {"stopped"} => DOMAIN seen = {}

TxInv ==
  /\ TxTypeOK
  /\ Forgotten
  /\ RightOrTurnsNewer
  /\ RefusedOnlyWithExcuse
  /\ mpc = "stopped" => tpc = "stopped"
  /\ mpc # "stopped" =>
       /\ Unexcused
       /\ \E n \in Nat :
            /\ RingInv(n)
            /\ Turned \/ Early(n)
            /\ tpc = "copy" => \E a \in Nat \ {0} : CopyFrom(n, a)

-----------------------------------------------------------------------------
\* Arithmetic of the ring.
LEMMA RingFacts ==
  ASSUME head \in Slots, tail \in Slots
  PROVE  /\ Held = Ahead(head)
         /\ Held \in 0..Capacity
         /\ Held = Capacity <=> Full
         /\ Advance(head) \in Slots /\ Advance(tail) \in Slots
         /\ Capacity \in Nat \ {0}
BY SizeAssumption DEF Slots, Advance, Held, Full, Ahead, Capacity

LEMMA SlotType == ASSUME NEW t \in Slots, NEW j \in 0 .. Wanted - 1 PROVE Slot(t, j) \in Slots
BY SizeAssumption, RoomAssumption DEF Slots, Slot, Wanted

\* Later puts have later samples, or the last.
LEMMA PutValues ==
  ASSUME NEW k \in Int
  PROVE  /\ PutValue(k) \in Sample \union {Unset}
         /\ k > 0 => PutValue(k) = NthPut(k) /\ NthPut(k) \in Sample
         /\ \A l \in Int : k <= l => PutValue(k) <= PutValue(l)
BY FileAssumption DEF PutValue, NthPut

LEMMA PutInType == ASSUME TxTypeOK, NEW n \in Nat, NEW s \in Slots PROVE PutIn(n, s) \in Int
BY SizeAssumption DEF TxTypeOK, PutIn, Back, Slots

\* What the three stores of a put do to the numbers of the puts: the sample is a
\* turn newer than the one it replaces, and moving head changes none.
LEMMA StoreIsTurnNewer ==
  ASSUME TxTypeOK, PutSample, NEW n \in Nat, NEW s \in Slots
  PROVE  PutIn(n, s)' = IF s = head THEN PutIn(n, s) + Size ELSE PutIn(n, s)
BY SizeAssumption DEF TxTypeOK, PutSample, PutIn, Back, Slots

LEMMA TailMovesNoSample ==
  ASSUME PutTail, NEW n \in Nat, NEW s \in Slots PROVE PutIn(n, s)' = PutIn(n, s)
BY DEF PutTail, PutIn, Back

LEMMA HeadMovesNoSample ==
  ASSUME TxTypeOK, PutHead, NEW n \in Nat, NEW s \in Slots
  PROVE  PutIn(n + 1, s)' = PutIn(n, s)
BY SizeAssumption DEF TxTypeOK, PutHead, PutIn, Back, Slots, Advance

-----------------------------------------------------------------------------
\* A copy goes on being of the samples it began with, or newer by turns.
LEMMA CopyKept ==
  ASSUME TxTypeOK, tpc = "copy", NEW n \in Nat, NEW m \in Nat, NEW a \in Nat \ {0}, CopyFrom(n, a),
         UNCHANGED <<from, oldest>>,
         \A s \in Slots : PutIn(m, s)' \in {PutIn(n, s), PutIn(n, s) + Size}
  PROVE  CopyFrom(m, a)'
<1>1. \A j \in 0 .. Wanted - 1 : Slot(from, j) \in Slots /\ Slot(from, j)' = Slot(from, j)
  BY SlotType DEF TxTypeOK, Slot
<1>2. ASSUME NEW j \in 0 .. Wanted - 1
      PROVE  PutIn(m, Slot(from, j))' = a + j \/ PutIn(m, Slot(from, j))' >= a + j + Size
  <2>1. PutIn(n, Slot(from, j)) \in Int
    BY <1>1, PutInType
  <2>2. PutIn(m, Slot(from, j))' \in {PutIn(n, Slot(from, j)), PutIn(n, Slot(from, j)) + Size}
    BY <1>1
  <2> QED
    BY <2>1, <2>2, SizeAssumption DEF CopyFrom, Wanted
<1> QED
  BY <1>2 DEF CopyFrom

LEMMA PutSampleInv == ASSUME TxInv, PutSample PROVE TxInv'
<1> USE DEF locals
<1>1. /\ TxTypeOK' /\ Forgotten'
      /\ RightOrTurnsNewer' /\ RefusedOnlyWithExcuse' /\ mpc' = "tail" /\ mpc # "stopped"
  <2>1. TxTypeOK'
    BY DEF TxInv, TxTypeOK, PutSample
  <2>2. RightOrTurnsNewer' /\ RefusedOnlyWithExcuse' /\ mpc' = "tail" /\ mpc # "stopped"
    BY DEF TxInv, RightOrTurnsNewer, RefusedOnlyWithExcuse, PutSample, NthPut
  <2>3. Forgotten'
    BY DEF TxInv, Forgotten, PutSample
  <2> QED
    BY <2>1, <2>2, <2>3
<1>2. Unexcused'
  BY <1>1 DEF TxInv, Unexcused, PutSample, Held, Full, Ahead, Capacity, Advance
<1>3. PICK n \in Nat : /\ RingInv(n)
                       /\ Turned \/ Early(n)
                       /\ tpc = "copy" => \E a \in Nat \ {0} : CopyFrom(n, a)
  BY <1>1 DEF TxInv
<1>4. RingInv(n)'
  <2>1. ASSUME NEW s \in Slots PROVE buffer'[s] = PutValue(PutIn(n, s)')
    <3>1. CASE s = head
      <4>1. PutIn(n, s)' = n + 1
        BY <1>1, <3>1 DEF PutSample, PutIn
      <4>2. buffer'[s] = NthPut(n + 1)
        BY <1>3, <3>1 DEF RingInv, PutSample, TxInv, TxTypeOK
      <4> QED
        BY <4>1, <4>2, PutValues
    <3>2. CASE s # head
      BY <1>3, <3>2, StoreIsTurnNewer DEF RingInv, PutSample, TxInv, TxTypeOK
    <3> QED
      BY <3>1, <3>2
  <2>2. data' = NthPut(n + 1) /\ Held' <= n /\ mpc' # "head"
    BY <1>1, <1>3 DEF RingInv, PutSample, Held, Full, Capacity
  <2> QED
    BY <2>1, <2>2 DEF RingInv, PutValue, NthPut
<1>5. (Turned \/ Early(n))'
  BY <1>1, <1>3 DEF Turned, Early, PutSample, Held, Full, Capacity, Advance
<1>6. tpc' = "copy" => \E a \in Nat \ {0} : CopyFrom(n, a)'
  <2>1. \A s \in Slots : PutIn(n, s)' \in {PutIn(n, s), PutIn(n, s) + Size}
    BY StoreIsTurnNewer DEF TxInv
  <2> QED
    BY <1>3, <2>1, CopyKept DEF TxInv, PutSample, locals
<1> QED
  BY <1>1, <1>2, <1>4, <1>5, <1>6 DEF TxInv

LEMMA PutTailInv == ASSUME TxInv, PutTail PROVE TxInv'
<1> USE DEF locals
<1>1. /\ TxTypeOK' /\ Forgotten'
      /\ RightOrTurnsNewer' /\ RefusedOnlyWithExcuse' /\ mpc' = "head" /\ mpc # "stopped"
  <2>1. TxTypeOK'
    BY RingFacts DEF TxInv, TxTypeOK, PutTail
  <2>2. RightOrTurnsNewer' /\ RefusedOnlyWithExcuse' /\ mpc' = "head" /\ mpc # "stopped"
    BY DEF TxInv, RightOrTurnsNewer, RefusedOnlyWithExcuse, PutTail, NthPut
  <2>3. Forgotten'
    BY DEF TxInv, Forgotten, PutTail
  <2> QED
    BY <2>1, <2>2, <2>3
<1>2. Unexcused'
  <2>1. CASE Full
    BY <2>1 DEF Unexcused, PutTail, TxInv, TxTypeOK
  <2>2. CASE ~Full
    BY <2>2 DEF TxInv, TxTypeOK, Unexcused, PutTail, Held, Full, Ahead, Capacity, Advance
  <2> QED
    BY <2>1, <2>2
<1>3. PICK n \in Nat : /\ RingInv(n)
                       /\ Turned \/ Early(n)
                       /\ tpc = "copy" => \E a \in Nat \ {0} : CopyFrom(n, a)
  BY <1>1 DEF TxInv
<1>4. Held' = (IF Full THEN Capacity - 1 ELSE Held) /\ ~Full'
  BY SizeAssumption, RoomAssumption
  DEF TxInv, TxTypeOK, PutTail, Held, Full, Capacity, Advance, Slots, Wanted
<1>5. RingInv(n)'
  <2>1. \A s \in Slots : buffer'[s] = PutValue(PutIn(n, s)')
    BY <1>3, TailMovesNoSample DEF RingInv, PutTail
  <2>2. data' = NthPut(n + 1) /\ Held' <= n
    BY <1>3, <1>4, RingFacts DEF RingInv, PutTail, TxInv, TxTypeOK
  <2> QED
    BY <1>4, <2>1, <2>2 DEF RingInv, PutValue, NthPut
<1>6. (Turned \/ Early(n))'
  <2>1. CASE Full
    BY <1>1, <1>4, <2>1 DEF Turned, Capacity
  <2>2. CASE ~Full
    <3>1. tail' = tail /\ Held # Capacity /\ ~Turned
      BY <2>2, RingFacts DEF PutTail, TxInv, TxTypeOK, Turned
    <3> QED
      BY <1>3, <3>1 DEF Early, PutTail
  <2> QED
    BY <2>1, <2>2
<1>7. tpc' = "copy" => \E a \in Nat \ {0} : CopyFrom(n, a)'
  BY <1>3, TailMovesNoSample, CopyKept DEF TxInv, PutTail
<1> QED
  BY <1>1, <1>2, <1>3, <1>5, <1>6, <1>7 DEF TxInv

LEMMA PutHeadInv == ASSUME TxInv, PutHead PROVE TxInv'
<1> USE DEF locals
<1>1. /\ TxTypeOK' /\ Forgotten'
      /\ RightOrTurnsNewer' /\ RefusedOnlyWithExcuse' /\ mpc' = "sample" /\ mpc # "stopped"
  <2>1. TxTypeOK'
    BY RingFacts, FileAssumption DEF TxInv, TxTypeOK, PutHead
  <2>2. RightOrTurnsNewer' /\ RefusedOnlyWithExcuse' /\ mpc' = "sample" /\ mpc # "stopped"
    BY DEF TxInv, RightOrTurnsNewer, RefusedOnlyWithExcuse, PutHead, NthPut
  <2>3. Forgotten'
    BY DEF TxInv, Forgotten, PutHead
  <2> QED
    BY <2>1, <2>2, <2>3
<1>2. PICK n \in Nat : /\ RingInv(n)
                       /\ Turned \/ Early(n)
                       /\ tpc = "copy" => \E a \in Nat \ {0} : CopyFrom(n, a)
  BY <1>1 DEF TxInv
<1>3. ~Full
  BY <1>2 DEF RingInv, PutHead
<1>4. Held' = Held + 1 /\ Held \in 0..Capacity /\ Held' \in 0..Capacity /\ Capacity' = Capacity
  BY <1>3, SizeAssumption DEF TxInv, TxTypeOK, PutHead, Held, Full, Capacity, Advance, Slots
<1>5. Unexcused'
  <2>1. \A h \in Slots : Ahead(h)' = Ahead(h) /\ Ahead(h) \in Int
    BY SizeAssumption DEF PutHead, Ahead, TxInv, TxTypeOK, Slots
  <2>2. head < tail => head' < tail'
    BY <1>3, SizeAssumption DEF PutHead, Full, Advance, TxInv, TxTypeOK, Slots
  <2>3. "head" \in DOMAIN seen => seen["head"] \in Slots
    BY DEF TxInv, TxTypeOK
  <2> QED
    BY <1>1, <1>4, <2>1, <2>2, <2>3 DEF TxInv, Unexcused, PutHead, Wanted, Capacity
<1>6. RingInv(n + 1)'
  <2>1. \A s \in Slots : buffer'[s] = PutValue(PutIn(n + 1, s)')
    BY <1>2, HeadMovesNoSample DEF RingInv, PutHead, TxInv
  <2>2. data' = NthPut(n + 1 + 1)
    BY <1>2, FileAssumption DEF RingInv, PutHead, NthPut
  <2>3. Held' <= n + 1
    BY <1>2, <1>4, SizeAssumption DEF RingInv, Capacity
  <2> QED
    BY <1>1, <2>1, <2>2, <2>3 DEF RingInv, PutValue, NthPut
<1>7. (Turned \/ Early(n + 1))'
  <2>1. CASE Turned
    <3>1. Held = Capacity - 1
      BY <1>3, <2>1, RingFacts DEF Turned, TxInv, TxTypeOK
    <3> QED
      BY <1>4, <3>1, SizeAssumption DEF Turned, Capacity
  <2>2. CASE Early(n)
    <3>1. head' = head + 1
      BY <1>3, <2>2 DEF Early, PutHead, Advance, Full
    <3>2. "head" \in DOMAIN seen => seen["head"] \in Nat
      BY SizeAssumption DEF TxInv, TxTypeOK, Slots
    <3> QED
      BY <2>2, <3>1, <3>2, WordModAssumption DEF Early, PutHead, TxInv, TxTypeOK, Slots
  <2> QED
    BY <1>2, <2>1, <2>2
<1>8. tpc' = "copy" => \E a \in Nat \ {0} : CopyFrom(n + 1, a)'
  <2>1. \A s \in Slots : PutIn(n + 1, s)' = PutIn(n, s)
    BY HeadMovesNoSample DEF TxInv
  <2> QED
    BY <1>2, <2>1, CopyKept DEF TxInv, PutHead
<1> QED
  BY <1>1, <1>5, <1>6, <1>7, <1>8 DEF TxInv

-----------------------------------------------------------------------------
\* A step of the transmit thread leaves the ring alone: what is left to show is what
\* it has loaded and copied.
LEMMA TransmitStep ==
  ASSUME TxInv, mpc # "stopped", UNCHANGED <<ring, main>>,
         TxTypeOK', Forgotten', RightOrTurnsNewer', RefusedOnlyWithExcuse', Unexcused',
         \A n \in Nat : RingInv(n) /\ Early(n) => Early(n)' \/ Turned,
         tpc' = "copy" => \/ tpc = "copy" /\ UNCHANGED <<from, oldest>>
                          \/ \A n \in Nat : RingInv(n) /\ (Turned \/ Early(n))
                               => \E a \in Nat \ {0} : CopyFrom(n, a)'
  PROVE  TxInv'
<1> USE DEF ring, main
<1>1. PICK n \in Nat : /\ RingInv(n)
                       /\ Turned \/ Early(n)
                       /\ tpc = "copy" => \E a \in Nat \ {0} : CopyFrom(n, a)
  BY DEF TxInv
<1>2. \A s \in Slots : PutIn(n, s)' = PutIn(n, s)
  BY DEF PutIn, Back
<1>3. RingInv(n)'
  BY <1>1, <1>2 DEF RingInv, Held, Full, Capacity, Advance, PutValue, NthPut
<1>4. (Turned \/ Early(n))'
  BY <1>1 DEF Turned, Held, Full, Capacity, Advance
<1>5. tpc' = "copy" => \E a \in Nat \ {0} : CopyFrom(n, a)'
  <2>1. ASSUME tpc = "copy", UNCHANGED <<from, oldest>>
        PROVE  \E a \in Nat \ {0} : CopyFrom(n, a)'
    BY <1>1, <1>2, <2>1, CopyKept DEF TxInv
  <2> QED
    BY <1>1, <2>1
<1> QED
  BY <1>1, <1>3, <1>4, <1>5 DEF TxInv

\* What was loaded is a slot.
LEMMA SeenType ==
  ASSUME TxTypeOK
  PROVE  /\ "head" \in DOMAIN seen => seen["head"] \in Slots
         /\ "tail" \in DOMAIN seen => seen["tail"] \in Slots
BY DEF TxTypeOK

LEMMA EmptySeen == seen' = <<>> => /\ DOMAIN seen' = {}
                                  /\ \E loaded \in SUBSET {"head", "tail"} : seen' \in [loaded -> Slots]
<1>1. <<>> \in [{} -> Slots]
  OBVIOUS
<1> QED
  BY <1>1

LEMMA LoadInv ==
  ASSUME TxInv, Load("head", head) \/ Load("tail", tail) PROVE TxInv'
<1> USE DEF locals, ring, main
<1>1. PICK f \in {"head", "tail"} : Load(f, IF f = "head" THEN head ELSE tail)
  OBVIOUS
<1>2. /\ DOMAIN seen' = DOMAIN seen \union {f}
      /\ seen'[f] = (IF f = "head" THEN head ELSE tail)
      /\ \A g \in DOMAIN seen : seen'[g] = seen[g]
  BY <1>1 DEF Load
<1>3. TxTypeOK' /\ mpc # "stopped"
  <2>1. PICK loaded \in SUBSET {"head", "tail"} : seen \in [loaded -> Slots]
    BY DEF TxInv, TxTypeOK
  <2>2. seen' \in [loaded \union {f} -> Slots]
    BY <1>1, <2>1 DEF Load, TxInv, TxTypeOK
  <2>3. loaded \union {f} \in SUBSET {"head", "tail"}
    OBVIOUS
  <2>4. \E now \in SUBSET {"head", "tail"} : seen' \in [now -> Slots]
    BY <2>2, <2>3
  <2> QED
    BY <1>1, <2>4 DEF Load, TxInv, TxTypeOK, Comparing
<1>4. RightOrTurnsNewer' /\ RefusedOnlyWithExcuse'
  BY <1>1 DEF Load, TxInv, RightOrTurnsNewer, RefusedOnlyWithExcuse, NthPut
<1>5. Unexcused'
  <2>1. UNCHANGED <<head, tail, tpc, size, excused>> /\ Held' = Held
    BY <1>1 DEF Load, Held, Full, Capacity, Advance
  <2>2. Held = Ahead(head) /\ Held \in Nat /\ head \in Slots /\ tail \in Slots
    BY RingFacts DEF TxInv, TxTypeOK, Capacity
  <2>3. \A h : Ahead(h)' = Ahead(h)
    BY <2>1 DEF Ahead
  <2> QED
    BY <1>2, <1>3, <2>1, <2>2, <2>3 DEF TxInv, Unexcused, Wanted
<1>6. \A n \in Nat : RingInv(n) /\ Early(n) => Early(n)'
  BY <1>1, <1>2, SizeAssumption DEF Load, Early, TxInv, TxTypeOK, Slots
<1>7. tpc' # "copy" /\ Forgotten'
  BY <1>1 DEF Load, Comparing, Forgotten
<1> QED
  BY <1>1, <1>3, <1>4, <1>5, <1>6, <1>7, TransmitStep DEF Load

LEMMA PollInv == ASSUME TxInv, Poll PROVE TxInv'
<1> USE DEF locals, ring, main
<1>1. TxTypeOK' /\ Forgotten' /\ mpc # "stopped"
  BY EmptySeen DEF Poll, Compare, TxInv, TxTypeOK, Comparing, Forgotten
<1>2. RightOrTurnsNewer' /\ RefusedOnlyWithExcuse' /\ Unexcused' /\ tpc' # "copy"
  BY DEF Poll, Compare, TxInv, RightOrTurnsNewer, RefusedOnlyWithExcuse, Unexcused, NthPut,
         Comparing
<1>3. \A n \in Nat : RingInv(n) /\ Early(n) => Early(n)'
  BY DEF Poll, Compare, Early
<1> QED
  BY <1>1, <1>2, <1>3, TransmitStep DEF Poll, Compare

LEMMA NumberInv == ASSUME TxInv, Number PROVE TxInv'
<1> USE DEF locals, ring, main
<1>1. TxTypeOK' /\ Forgotten' /\ mpc # "stopped"
  <2>1. seq' \in 0 .. SeqMod - 1
    BY SeqModAssumption DEF Number, TxInv, TxTypeOK
  <2> QED
    BY <2>1 DEF Number, TxInv, TxTypeOK, Comparing, Forgotten
<1>2. RightOrTurnsNewer' /\ RefusedOnlyWithExcuse' /\ tpc' # "copy"
  BY DEF Number, TxInv, RightOrTurnsNewer, RefusedOnlyWithExcuse, NthPut
<1>3. \A n \in Nat : RingInv(n) /\ Early(n) => Early(n)'
  BY DEF Number, Early
<1>4. DOMAIN seen = {}
  BY DEF Number, TxInv, Forgotten, Comparing
<1>5. Unexcused'
  <2>1. Held' = Held /\ Held \in Nat /\ DOMAIN seen' = {} /\ tpc' = "empty?"
    BY <1>4, RingFacts DEF Number, TxInv, TxTypeOK, Held, Full, Capacity, Advance
  <2>2. excused' = (Held < Wanted)
    BY DEF Number
  <2>3. CASE Held < Wanted
    BY <2>2, <2>3, Zenon DEF Unexcused
  <2>4. CASE ~(Held < Wanted)
    BY <2>1, <2>4 DEF Unexcused, Wanted
  <2> QED
    BY <2>3, <2>4
<1> QED
  BY <1>1, <1>2, <1>3, <1>5, TransmitStep DEF Number

\* The comparisons that lead to the size.
LEMMA PeekEmptyInv == ASSUME TxInv, PeekEmpty PROVE TxInv'
<1> USE DEF locals, ring, main
<1>1. TxTypeOK' /\ Forgotten' /\ mpc # "stopped" /\ tpc' # "copy"
  BY EmptySeen DEF PeekEmpty, Compare, TxInv, TxTypeOK, Comparing, Forgotten
<1>2. ~excused => seen["head"] # seen["tail"]
  BY SeenType, SizeAssumption
  DEF PeekEmpty, Compare, TxInv, TxTypeOK, Unexcused, Comparing, Ahead, Wanted, Slots
<1>3. RightOrTurnsNewer' /\ RefusedOnlyWithExcuse'
  BY <1>2 DEF PeekEmpty, Compare, TxInv, RightOrTurnsNewer, RefusedOnlyWithExcuse, NthPut
<1>4. Unexcused'
  <2>1. Held' = Held /\ DOMAIN seen' = {} /\ excused' = excused /\ tpc' \in {"refused", "full?"}
    BY EmptySeen DEF PeekEmpty, Compare, Held, Full, Capacity, Advance
  <2> QED
    BY <2>1 DEF PeekEmpty, Compare, TxInv, Unexcused, Comparing
<1>5. \A n \in Nat : RingInv(n) /\ Early(n) => Early(n)'
  BY EmptySeen DEF PeekEmpty, Compare, Early
<1> QED
  BY <1>1, <1>3, <1>4, <1>5, TransmitStep DEF PeekEmpty, Compare

LEMMA SizeFullInv == ASSUME TxInv, SizeFull PROVE TxInv'
<1> USE DEF locals, ring, main
<1>1. TxTypeOK' /\ Forgotten' /\ mpc # "stopped" /\ tpc' \in {"enough?", "wrapped?"}
  BY EmptySeen, SizeAssumption, WordModAssumption
  DEF SizeFull, Compare, TxInv, TxTypeOK, Comparing, Forgotten, Capacity
<1>2. RightOrTurnsNewer' /\ RefusedOnlyWithExcuse'
  BY <1>1 DEF SizeFull, Compare, TxInv, RightOrTurnsNewer, RefusedOnlyWithExcuse, NthPut
<1>3. tpc' = "enough?" => size' = Capacity /\ Advance(seen["head"]) = seen["tail"]
  BY DEF SizeFull
<1>4. Unexcused'
  <2>1. Held' = Held /\ DOMAIN seen' = {} /\ excused' = excused
    BY EmptySeen DEF SizeFull, Compare, Held, Full, Capacity, Advance
  <2>2. Capacity >= Wanted
    BY SizeAssumption, RoomAssumption DEF Capacity, Wanted
  <2> QED
    BY <1>1, <1>3, <2>1, <2>2 DEF SizeFull, Compare, TxInv, Unexcused, Comparing
<1>5. ASSUME NEW n \in Nat, Early(n) PROVE Early(n)'
  <2>1. tpc' = "enough?" => size' <= head
    BY <1>3, <1>5, SeenType, SizeAssumption
    DEF SizeFull, Compare, Early, TxInv, TxTypeOK, Capacity, Advance, Slots
  <2> QED
    BY <1>1, <1>5, <2>1, EmptySeen DEF SizeFull, Compare, Early
<1> QED
  BY <1>1, <1>2, <1>4, <1>5, TransmitStep DEF SizeFull, Compare

LEMMA SizeWhichInv == ASSUME TxInv, SizeWhich PROVE TxInv'
<1> USE DEF locals, ring, main
<1>1. TxTypeOK' /\ Forgotten' /\ mpc # "stopped" /\ tpc' \in {"straight", "wrapped"}
  BY EmptySeen DEF SizeWhich, Compare, TxInv, TxTypeOK, Comparing, Forgotten
<1>2. RightOrTurnsNewer' /\ RefusedOnlyWithExcuse'
  BY <1>1 DEF SizeWhich, Compare, TxInv, RightOrTurnsNewer, RefusedOnlyWithExcuse, NthPut
<1>3. Unexcused'
  <2>1. Held' = Held /\ DOMAIN seen' = {} /\ excused' = excused
    BY EmptySeen DEF SizeWhich, Compare, Held, Full, Capacity, Advance
  <2>2. tpc' = "wrapped" => seen["head"] < seen["tail"]
    BY SeenType DEF SizeWhich, Compare, TxInv, Slots
  <2>3. ~excused /\ tpc' = "wrapped" => head < tail
    BY <2>2, RingFacts, SeenType, SizeAssumption, SMTT(20)
    DEF SizeWhich, Compare, TxInv, TxTypeOK, Unexcused, Comparing, Ahead, Wanted, Slots
  <2> QED
    BY <1>1, <2>1, <2>3 DEF SizeWhich, Compare, TxInv, Unexcused, Comparing
<1>4. ASSUME NEW n \in Nat, Early(n) PROVE Early(n)'
  <2>1. seen["tail"] = 0 /\ seen["head"] \in Nat
    BY <1>4, SeenType, SizeAssumption DEF SizeWhich, Compare, Early, TxInv, Slots
  <2>2. tpc' = "straight"
    BY <2>1 DEF SizeWhich
  <2> QED
    BY <1>4, <2>2, EmptySeen DEF SizeWhich, Compare, Early
<1> QED
  BY <1>1, <1>2, <1>3, <1>4, TransmitStep DEF SizeWhich, Compare

\* The subtraction: without excuse it gives what is held, or it underflows and gives
\* more than any ring has.
LEMMA SizeOfInv ==
  ASSUME TxInv, SizeOf("straight", 0) \/ SizeOf("wrapped", Size) PROVE TxInv'
<1> USE DEF locals, ring, main
<1> DEFINE h == seen["head"]
           t == seen["tail"]
<1>1. mpc # "stopped" /\ tpc' = "enough?" /\ tpc \in {"straight", "wrapped"}
  BY DEF SizeOf, Compare, TxInv
<1>2. h \in Slots /\ t \in Slots
  BY SeenType DEF SizeOf, Compare, TxInv
<1>3. size' = Word(IF tpc = "wrapped" THEN Size + h - t ELSE h - t)
  BY <1>2, SizeAssumption DEF SizeOf, Compare, Slots
<1>4. size' \in 0..WordMod /\ (h >= t /\ tpc = "straight" => size' = h - t)
      /\ (h < t => size' >= Size \/ (tpc = "wrapped" /\ size' = Size + h - t))
  BY <1>1, <1>2, <1>3, SizeAssumption, WordModAssumption DEF Word, Slots
<1>5. TxTypeOK' /\ Forgotten'
  BY <1>4, EmptySeen DEF SizeOf, Compare, TxInv, TxTypeOK, Comparing, Forgotten
<1>6. RightOrTurnsNewer' /\ RefusedOnlyWithExcuse'
  BY <1>1 DEF SizeOf, Compare, TxInv, RightOrTurnsNewer, RefusedOnlyWithExcuse, NthPut
<1>7. Unexcused'
  <2>1. Held' = Held /\ DOMAIN seen' = {} /\ excused' = excused
    BY EmptySeen DEF SizeOf, Compare, Held, Full, Capacity, Advance
  <2>2. ~excused => /\ Held >= Wanted /\ t = tail
                    /\ Ahead(h) \in Wanted .. Held
                    /\ tpc = "wrapped" => h < tail
    BY <1>1 DEF SizeOf, Compare, TxInv, Unexcused, Comparing
  <2>3. ~excused => size' >= Wanted
    BY <1>1, <1>2, <1>4, <2>2, SizeAssumption, RoomAssumption DEF Ahead, Slots, Wanted
  <2> QED
    BY <1>1, <2>1, <2>2, <2>3 DEF Unexcused
<1>8. ASSUME NEW n \in Nat, Early(n) PROVE Early(n)'
  <2>1. t = 0 /\ h <= head /\ tpc = "straight"
    BY <1>1, <1>8 DEF SizeOf, Compare, Early
  <2>2. size' <= head
    BY <1>2, <1>4, <2>1 DEF Slots
  <2> QED
    BY <1>1, <1>8, <2>2, EmptySeen DEF SizeOf, Compare, Early
<1> QED
  BY <1>1, <1>5, <1>6, <1>7, <1>8, TransmitStep DEF SizeOf, Compare

LEMMA TooMuchAskedInv == ASSUME TxInv, TooMuchAsked PROVE TxInv'
<1> USE DEF locals, ring, main
<1>1. TxTypeOK' /\ Forgotten' /\ mpc # "stopped" /\ tpc' = "refused"
  BY DEF TooMuchAsked, TxInv, TxTypeOK, Comparing, Forgotten
<1>2. excused
  BY SizeAssumption DEF TooMuchAsked, TooMuch, TxInv, TxTypeOK, Unexcused, Wanted
<1>3. RightOrTurnsNewer' /\ RefusedOnlyWithExcuse' /\ Unexcused'
  BY <1>1, <1>2 DEF TooMuchAsked, TxInv, RightOrTurnsNewer, RefusedOnlyWithExcuse, Unexcused,
                    NthPut, Comparing
<1>4. \A n \in Nat : RingInv(n) /\ Early(n) => Early(n)'
  BY DEF TooMuchAsked, Early
<1> QED
  BY <1>1, <1>3, <1>4, TransmitStep DEF TooMuchAsked

-----------------------------------------------------------------------------
\* The copying.  As it begins, the slots it is to read hold samples of consecutive
\* puts: enough are held, or main is overwriting and has stored the last of them.
LEMMA StartCopyInOrder ==
  ASSUME TxInv, StartCopy, NEW n \in Nat, RingInv(n), Turned \/ Early(n)
  PROVE  \E a \in Nat \ {0} : CopyFrom(n, a)'
<1> USE DEF locals, ring, main
<1>0. Held \in 0..Capacity /\ Held = Ahead(head) /\ Held <= n
  BY RingFacts DEF TxInv, TxTypeOK, RingInv
<1>1. PICK a \in Nat \ {0} : a = n + 1 - Held /\ Held \in 0..Capacity /\ Held = Ahead(head)
  <2>1. n + 1 - Held \in Nat \ {0}
    BY <1>0, SizeAssumption DEF Capacity
  <2> QED
    BY <1>0, <2>1
<1>2. Held >= Wanted \/ (mpc = "head" /\ Held = Wanted - 1)
  <2>1. CASE Turned
    BY <1>1, <2>1, SizeAssumption, RoomAssumption DEF Turned, Capacity, Wanted
  <2>2. CASE Early(n)
    <3>1. size <= head /\ Held = head /\ size >= Wanted
      BY <1>1, <2>2, SizeAssumption
      DEF Early, StartCopy, TooMuch, Ahead, TxInv, TxTypeOK, Slots, Wanted
    <3> QED
      BY <1>1, <3>1 DEF Wanted, TxInv, TxTypeOK, Slots
  <2> QED
    BY <2>1, <2>2
<1>3. \A j \in 0 .. Wanted - 1 : PutIn(n, Slot(tail, j)) = a + j
  BY <1>1, <1>2, SizeAssumption, RoomAssumption
  DEF PutIn, Slot, Back, Ahead, Wanted, TxInv, TxTypeOK, Slots
<1>4. buffer[tail] = NthPut(a)
  <2>1. Slot(tail, 0) = tail /\ tail \in Slots
    BY SizeAssumption DEF Slot, TxInv, TxTypeOK, Slots
  <2>2. PutIn(n, tail) = a
    BY <1>1, <1>3, <2>1 DEF Wanted
  <2> QED
    BY <1>1, <2>1, <2>2, PutValues DEF RingInv
<1>5. from' = tail /\ oldest' = NthPut(a)
  BY <1>4 DEF StartCopy
<1>6. \A s : PutIn(n, s)' = PutIn(n, s)
  BY DEF StartCopy, PutIn, Back
<1>7. \A j \in 0 .. Wanted - 1 : PutIn(n, Slot(from, j))' = a + j
  BY <1>3, <1>5, <1>6 DEF Slot
<1>8. CopyFrom(n, a)'
  BY <1>5, <1>7 DEF CopyFrom, NthPut
<1> QED
  BY <1>1, <1>8

LEMMA StartCopyInv == ASSUME TxInv, StartCopy PROVE TxInv'
<1> USE DEF locals, ring, main
<1>1. TxTypeOK' /\ Forgotten' /\ mpc # "stopped" /\ tpc' = "copy"
  <2>1. buffer[tail] \in Sample \union {Unset} /\ taken' \in Seq(Sample \union {Unset})
    BY DEF StartCopy, TxInv, TxTypeOK
  <2> QED
    BY <2>1 DEF StartCopy, TxInv, TxTypeOK, Comparing, Forgotten
<1>2. RightOrTurnsNewer' /\ RefusedOnlyWithExcuse' /\ Unexcused'
  BY <1>1 DEF StartCopy, RightOrTurnsNewer, RefusedOnlyWithExcuse, Unexcused, Comparing
<1>3. \A n \in Nat : RingInv(n) /\ Early(n) => Early(n)'
  BY <1>1 DEF StartCopy, Early
<1> QED
  BY <1>1, <1>2, <1>3, StartCopyInOrder, TransmitStep DEF StartCopy

\* Each sample copied is the right one, or newer by turns.
LEMMA CopySampleInv == ASSUME TxInv, CopySample PROVE TxInv'
<1> USE DEF locals, ring, main
<1> DEFINE k == Len(taken)
<1>1. k \in 0 .. Wanted - 1 /\ Slot(from, k) \in Slots
  <2>1. taken \in Seq(Sample \union {Unset}) /\ from \in Slots
    BY DEF TxInv, TxTypeOK
  <2>2. k \in Nat /\ k < Wanted
    BY <2>1 DEF CopySample
  <2>3. k \in 0 .. Wanted - 1
    BY <2>2 DEF Wanted
  <2> QED
    BY <2>1, <2>3, SlotType
<1>2. PICK n \in Nat, a \in Nat \ {0} : RingInv(n) /\ CopyFrom(n, a)
  BY DEF TxInv, CopySample
<1>3. buffer[Slot(from, k)] = PutValue(PutIn(n, Slot(from, k)))
  BY <1>1, <1>2 DEF RingInv
<1>4. \/ buffer[Slot(from, k)] = NthPut(oldest + k)
      \/ buffer[Slot(from, k)] >= NthPut(oldest + k + Size)
  <2>1. PutIn(n, Slot(from, k)) \in Int
    BY <1>1, PutInType DEF TxInv
  <2>2. oldest = NthPut(a)
    BY <1>2 DEF CopyFrom
  <2>3. CASE PutIn(n, Slot(from, k)) = a + k
    BY <1>1, <1>3, <2>2, <2>3, FileAssumption DEF PutValue, NthPut
  <2>4. CASE PutIn(n, Slot(from, k)) >= a + k + Size
    BY <1>1, <1>3, <2>1, <2>2, <2>4, FileAssumption, SizeAssumption DEF PutValue, NthPut
  <2> QED
    BY <1>1, <1>2, <2>3, <2>4 DEF CopyFrom
<1>5. /\ Len(taken') = k + 1 /\ taken'[k + 1] = buffer[Slot(from, k)]
      /\ \A j \in 1..k : taken'[j] = taken[j]
      /\ taken' \in Seq(Sample \union {Unset})
  BY <1>1 DEF CopySample, TxInv, TxTypeOK
<1>6. TxTypeOK' /\ Forgotten' /\ mpc # "stopped" /\ tpc' = "copy"
  BY <1>5 DEF CopySample, TxInv, TxTypeOK, Comparing, Forgotten
<1>7. RightOrTurnsNewer'
  <2>1. oldest \in Int
    BY FileAssumption DEF TxInv, TxTypeOK
  <2>2. ASSUME NEW j \in 1 .. k + 1
        PROVE  \/ taken'[j] = NthPut(oldest + j - 1)
               \/ taken'[j] >= NthPut(oldest + j - 1 + Size)
    <3>1. CASE j = k + 1
      <4>1. oldest + j - 1 = oldest + k /\ oldest + j - 1 + Size = oldest + k + Size
        BY <1>1, <2>1, <3>1, SizeAssumption
      <4> QED
        BY <1>4, <1>5, <3>1, <4>1
    <3>2. CASE j # k + 1
      <4>1. j \in 1..k
        BY <1>1, <3>2
      <4> QED
        BY <1>5, <4>1 DEF TxInv, RightOrTurnsNewer
    <3> QED
      BY <3>1, <3>2
  <2>3. oldest' = oldest
    BY DEF CopySample
  <2> QED
    BY <1>5, <2>2, <2>3 DEF RightOrTurnsNewer, NthPut
<1>8. RefusedOnlyWithExcuse' /\ Unexcused' /\ UNCHANGED <<from, oldest>> /\ tpc = "copy"
  BY <1>6 DEF CopySample, RefusedOnlyWithExcuse, Unexcused, Comparing
<1>9. \A m \in Nat : RingInv(m) /\ Early(m) => Early(m)'
  BY <1>6 DEF CopySample, Early
<1> QED
  BY <1>6, <1>7, <1>8, <1>9, TransmitStep DEF CopySample

LEMMA EndOfCallInv == ASSUME TxInv, EndPeek \/ Return PROVE TxInv'
<1> USE DEF locals, ring, main
<1>1. TxTypeOK' /\ Forgotten' /\ mpc # "stopped" /\ tpc' \in {"send", "poll"}
  <2>1. 0 \in Slots /\ <<>> \in Seq(Sample \union {Unset})
    BY SizeAssumption DEF Slots
  <2> QED
    BY <2>1, WordModAssumption, SizeAssumption
    DEF EndPeek, Return, TxInv, TxTypeOK, Comparing, Forgotten
<1>2. RightOrTurnsNewer' /\ RefusedOnlyWithExcuse' /\ Unexcused'
  BY <1>1 DEF EndPeek, Return, TxInv, RightOrTurnsNewer, RefusedOnlyWithExcuse, Unexcused,
              NthPut, Comparing
<1>3. \A n \in Nat : RingInv(n) /\ Early(n) => Early(n)'
  BY <1>1 DEF EndPeek, Return, Early
<1> QED
  BY <1>1, <1>2, <1>3, TransmitStep DEF EndPeek, Return

LEMMA StopInv == ASSUME TxInv, Stop PROVE TxInv'
<1> USE DEF locals, ring
<1>1. TxTypeOK' /\ Forgotten' /\ mpc' = "stopped" /\ tpc' = "stopped"
  BY DEF Stop, TxInv, TxTypeOK, Forgotten
<1>2. RightOrTurnsNewer' /\ RefusedOnlyWithExcuse'
  BY <1>1 DEF Stop, TxInv, RightOrTurnsNewer, RefusedOnlyWithExcuse, NthPut
<1> QED
  BY <1>1, <1>2 DEF TxInv

-----------------------------------------------------------------------------
LEMMA TxInitInv == TxInit => TxInv
<1> SUFFICES ASSUME TxInit PROVE TxInv
  OBVIOUS
<1>1. TxTypeOK /\ Forgotten
  <2>1. 0 \in Slots /\ <<>> \in Seq(Sample \union {Unset}) /\ <<>> \in [{} -> Slots]
    BY SizeAssumption DEF Slots
  <2> QED
    BY <2>1, FileAssumption, WordModAssumption, SizeAssumption
    DEF TxInit, Init, TxTypeOK, Comparing, Forgotten
<1>2. RightOrTurnsNewer /\ RefusedOnlyWithExcuse /\ Unexcused
  BY DEF TxInit, RightOrTurnsNewer, RefusedOnlyWithExcuse, Unexcused
<1>3. RingInv(0)
  BY SizeAssumption, FileAssumption
  DEF TxInit, Init, RingInv, PutIn, Back, PutValue, NthPut, Slots, Held, Full, Advance, Capacity
<1>4. Early(0)
  BY DEF TxInit, Init, Early
<1> QED
  BY <1>1, <1>2, <1>3, <1>4 DEF TxInv, TxInit

LEMMA TxStep == TxInv /\ [TxNext]_txVars => TxInv'
<1> SUFFICES ASSUME TxInv, [TxNext]_txVars PROVE TxInv'
  OBVIOUS
<1>1. CASE Main
  BY <1>1, PutSampleInv, PutTailInv, PutHeadInv DEF Main
<1>2. CASE Transmit
  BY <1>2, LoadInv, PollInv, NumberInv, PeekEmptyInv, SizeFullInv, SizeWhichInv, SizeOfInv,
     TooMuchAskedInv, StartCopyInv, CopySampleInv, EndOfCallInv DEF Transmit
<1>3. CASE Stop
  BY <1>3, StopInv
<1>4. CASE UNCHANGED txVars
  BY <1>4 DEF txVars, ring, main, locals, TxInv, TxTypeOK, Forgotten, RightOrTurnsNewer,
              RefusedOnlyWithExcuse, Unexcused, RingInv, Turned, Early, CopyFrom, PutIn, Back,
              Ahead, Held, Full, Advance, Capacity, PutValue, NthPut, Slot
<1> QED
  BY <1>1, <1>2, <1>3, <1>4 DEF TxNext

LEMMA TxInvariant == IqTransmit => []TxInv
<1> QED
  BY TxInitInv, TxStep, PTL DEF IqTransmit

\* The fields of the session and of its two threads stay in their types.
THEOREM TransmitTypeCorrect == IqTransmit => []TxTypeOK
<1>1. TxInv => TxTypeOK
  BY DEF TxInv
<1> QED
  BY <1>1, TxInvariant, PTL

\* Whatever main overwrites while rcp_iq_transmit copies, each sample copied is the
\* right one or newer by whole turns of the ring.
THEOREM TransmitCopiesInOrder == IqTransmit => []RightOrTurnsNewer
<1>1. TxInv => RightOrTurnsNewer
  BY DEF TxInv
<1> QED
  BY <1>1, TxInvariant, PTL

\* A sequence number is spent for nothing only if too few samples were held, or main
\* overwrote one in the meantime.
THEOREM TransmitRefusesWithExcuse == IqTransmit => []RefusedOnlyWithExcuse
<1>1. TxInv => RefusedOnlyWithExcuse
  BY DEF TxInv
<1> QED
  BY <1>1, TxInvariant, PTL
=============================================================================
