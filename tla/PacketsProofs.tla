--------------------------- MODULE PacketsProofs ---------------------------
(***************************************************************************)
(* Proofs about the packets, in the order of the modules they are about:   *)
(* RtcpList, RtpPacket, RtcpSdes, FecPkt, and the module of them all; for  *)
(* any number of sources, any capacity and any size.                       *)
(***************************************************************************)
EXTENDS Packets, FiniteSetTheorems, SequenceTheorems, WellFoundedInduction, TLAPS

-----------------------------------------------------------------------------
\* RtcpList

\* The header length is the size of the packet.
LengthRight == length + 1 = PacketWords(kind, count, ext)

\* Types, and the length of every packet whose memory is sound and whose length is its own.
ListInv == /\ ListTypeOK
           /\ ~broken /\ ~stale => LengthRight
           /\ ~broken => heard = 0

LEMMA WidthType == ASSUME NEW k PROVE Width(k) \in Nat \ {0}
  BY ReportWordsAssumption DEF Width

LEMMA BaseType == ASSUME NEW k \in Kinds PROVE Base(k) \in Nat \ {0}
  BY DEF Base, Kinds

\* Bytes padded to words are the bytes and up to three more.
LEMMA PaddedBounds ==
  ASSUME NEW n \in Nat
  PROVE  /\ Padded(n) \in Nat
         /\ 4 * Padded(n) \in n .. n + 3
         /\ n % 4 = 0 => 4 * Padded(n) = n
  BY DEF Padded

\* Words are padded to themselves.
LEMMA PaddedWords == ASSUME NEW n \in Nat PROVE Padded(4 * n) = n
  BY DEF Padded

LEMMA TailType ==
  ASSUME NEW k, NEW e \in Nat \union {NoExt}
  PROVE  TailWords(k, e) \in Nat
  <1>1. CASE e = NoExt
    BY <1>1 DEF TailWords
  <1>2. CASE e # NoExt /\ k = "BYE"
    <2>1. e + 1 \in Nat
      BY <1>2
    <2> QED
      BY <1>2, <2>1, PaddedBounds DEF TailWords
  <1>3. CASE e # NoExt /\ k # "BYE"
    BY <1>3, PaddedBounds DEF TailWords
  <1> QED
    BY <1>1, <1>2, <1>3

\* A packet has at least one word.
LEMMA PacketWordsType ==
  ASSUME NEW k \in Kinds, NEW c \in Nat, NEW e \in Nat \union {NoExt}
  PROVE  PacketWords(k, c, e) \in Nat \ {0}
  <1>1. c * Width(k) \in Nat
    BY WidthType
  <1>2. TailWords(k, e) \in Nat
    BY TailType
  <1>3. Base(k) \in Nat \ {0}
    BY BaseType
  <1> QED
    BY <1>1, <1>2, <1>3 DEF PacketWords, Holds

\* What a packet holds before its tail.
LEMMA HoldsType ==
  ASSUME NEW k \in Kinds, NEW c \in Nat
  PROVE  Holds(k, c) \in Nat \ {0} /\ Holds(k, c) >= Base(k) /\ Base(k) \in Nat \ {0}
  <1>1. c * Width(k) \in Nat
    BY WidthType
  <1> QED
    BY <1>1, BaseType DEF Holds

\* A packet whose array was made has all of it.
LEMMA WholeArray ==
  ASSUME ListTypeOK, ~Hollow
  PROVE  Len(words) = count * Width(kind)
  <1>1. CASE count = 0
    BY <1>1, WidthType DEF ListTypeOK
  <1>2. CASE count # 0
    <2>1. count > 0 /\ words # <<>> /\ words \in Seq(Source)
      BY <1>2, MaxCountAssumption DEF ListTypeOK, Hollow
    <2>2. Len(words) # 0
      BY <2>1
    <2> QED
      BY <2>2 DEF ListTypeOK
  <1> QED
    BY <1>1, <1>2

LEMMA ElementType ==
  ASSUME NEW src \in Source
  PROVE  Element(src) \in Seq(Source) /\ Len(Element(src)) = Width(kind)
  <1>1. Width(kind) \in Nat
    BY WidthType
  <1>2. Element(src) \in [1..Width(kind) -> Source]
    BY DEF Element
  <1> QED
    BY <1>1, <1>2

\* The array after a removal: one element shorter.
LEMMA ShiftedType ==
  ASSUME ListTypeOK, ~Hollow, NEW i \in 1..count
  PROVE  /\ Shifted(i) \in Seq(Source)
         /\ Len(Shifted(i)) = (count - 1) * Width(kind)
  <1>1. count \in Nat \ {0} /\ Width(kind) \in Nat \ {0}
    BY WidthType, MaxCountAssumption DEF ListTypeOK
  <1> DEFINE W == Width(kind)
             n == (count - 1) * W
  <1>2. n \in Nat /\ n + W = count * W
    BY <1>1
  <1>3. ASSUME NEW w \in 1..n PROVE words[w] \in Source /\ words[w + W] \in Source
    <2>1. w \in 1..Len(words) /\ w + W \in 1..Len(words)
      BY <1>1, <1>2, WholeArray
    <2> QED
      BY <2>1, ElementOfSeq DEF ListTypeOK
  <1>4. Shifted(i) \in [1..n -> Source]
    BY <1>3 DEF Shifted
  <1> QED
    BY <1>2, <1>4

-----------------------------------------------------------------------------
LEMMA ListInitInv == ListInit => ListInv
  <1> SUFFICES ASSUME ListInit PROVE ListInv
    OBVIOUS
  <1>1. count * Width(kind) = 0
    BY WidthType DEF ListInit, Fresh
  <1>2. Base(kind) \in Nat \ {0}
    BY BaseType DEF ListInit, Fresh
  <1>3. words \in Seq(Source) /\ Len(words) = count * Width(kind)
    BY <1>1 DEF ListInit, Fresh
  <1>4. length \in Nat /\ count \in 0..MaxCount
    BY <1>2, MaxCountAssumption DEF ListInit, Fresh
  <1>5. ListTypeOK
    BY <1>3, <1>4 DEF ListInit, Fresh, ListTypeOK
  <1>6. LengthRight
    BY <1>1, <1>2 DEF ListInit, Fresh, LengthRight, PacketWords, Holds, TailWords
  <1> QED
    BY <1>5, <1>6 DEF ListInit, Fresh, ListInv

\* UpdateLength makes the length right whatever else a step did.
LEMMA LengthUpdated ==
  ASSUME kind' \in Kinds, count' \in Nat, ext' \in Nat \union {NoExt},
         UpdateLength
  PROVE  length' \in Nat /\ LengthRight' /\ stale' \in BOOLEAN
  <1>1. PacketWords(kind', count', ext') \in Nat \ {0}
    BY PacketWordsType
  <1>2. stale' \in BOOLEAN
    BY Zenon DEF UpdateLength
  <1> QED
    BY <1>1, <1>2 DEF UpdateLength, LengthRight

LEMMA AddInv ==
  ASSUME ListInv, NEW src \in Source, Add(src) PROVE ListInv'
  <1>1. count \in Nat /\ Width(kind) \in Nat
    BY WidthType, MaxCountAssumption DEF ListInv, ListTypeOK
  <1>2. count' \in 0..MaxCount
    BY <1>1, MaxCountAssumption DEF Add
  <1>3. words' \in Seq(Source) /\ Len(words') = Len(words) + Width(kind)
    BY ElementType, ConcatProperties DEF Add, ListInv, ListTypeOK
  <1>4. Len(words') = count' * Width(kind')
    BY <1>1, <1>3, WholeArray DEF Sound, Add, ListInv, ListTypeOK
  <1>5. length' \in Nat /\ LengthRight' /\ stale' \in BOOLEAN
    BY <1>2, LengthUpdated, MaxCountAssumption DEF Add, ListInv, ListTypeOK
  <1> QED
    BY <1>2, <1>3, <1>4, <1>5 DEF Add, ListInv, ListTypeOK

LEMMA AddWrapsInv ==
  ASSUME ListInv, NEW src \in Source, AddWraps(src) PROVE ListInv'
  <1>1. count' * Width(kind') = 0
    BY WidthType DEF AddWraps
  <1>2. length' \in Nat /\ stale' \in BOOLEAN
    BY LengthUpdated DEF AddWraps, ListInv, ListTypeOK
  <1> QED
    BY <1>1, <1>2, MaxCountAssumption DEF AddWraps, ListInv, ListTypeOK

LEMMA RemoveInv ==
  ASSUME ListInv, NEW src \in Source, NEW i \in 1..count, Remove(src, i) PROVE ListInv'
  <1>1. count \in Nat \ {0} /\ count <= MaxCount
    BY MaxCountAssumption DEF ListInv, ListTypeOK
  <1>2. count' \in 0..MaxCount
    BY <1>1, MaxCountAssumption DEF Remove
  <1>3. words' \in Seq(Source) /\ Len(words') = count' * Width(kind')
    BY ShiftedType DEF Remove, Sound, ListInv
  <1>4. length' \in Nat /\ LengthRight' /\ stale' \in BOOLEAN
    BY <1>2, LengthUpdated, MaxCountAssumption DEF Remove, ListInv, ListTypeOK
  <1>5. mixed' \in BOOLEAN
    <2>1. mixed' = (mixed \/ (kind # "BYE" /\ i < count))
      BY Zenon DEF Remove
    <2> QED
      BY <2>1, Zenon
  <1>7. broken' \in BOOLEAN
    <2>1. broken' = ((i - 1) * Width(kind) + Moved(i) > Len(words))
      BY Zenon DEF Remove, Spills
    <2> QED
      BY <2>1
  <1>6. /\ kind \in Kinds /\ ext \in Nat \union {NoExt} /\ (kind = "SR" /\ ext # NoExt => ext % 4 = 0)
        /\ members \subseteq Source /\ heard = 0
        /\ members' = members \ {src} /\ UNCHANGED <<kind, ext, heard>>
    BY DEF Remove, Sound, ListInv, ListTypeOK
  <1> QED
    BY <1>2, <1>3, <1>4, <1>5, <1>6, <1>7 DEF ListInv, ListTypeOK

LEMMA SetTailInv ==
  ASSUME ListInv, NEW size \in Sizes, SetTail(size) PROVE ListInv'
  <1>1. ext' \in Nat \union {NoExt}
    BY SizesAssumption DEF SetTail
  <1>2. length' \in Nat /\ LengthRight' /\ stale' \in BOOLEAN
    BY <1>1, LengthUpdated, MaxCountAssumption DEF SetTail, ListInv, ListTypeOK
  <1> QED
    BY <1>1, <1>2 DEF SetTail, ListInv, ListTypeOK

LEMMA ClearTailInv ==
  ASSUME ListInv, ClearTail PROVE ListInv'
  <1>1. length' \in Nat /\ LengthRight' /\ stale' \in BOOLEAN
    BY LengthUpdated, MaxCountAssumption DEF ClearTail, ListInv, ListTypeOK
  <1> QED
    BY <1>1 DEF ClearTail, ListInv, ListTypeOK

-----------------------------------------------------------------------------
\* What a parser takes for the tail is the tail in whole words.
LEMMA ParsedIsTail ==
  ASSUME ListTypeOK, LengthRight
  PROVE  ParsedExt = 4 * TailWords(kind, ext)
  <1>1. count * Width(kind) \in Nat /\ Base(kind) \in Nat /\ TailWords(kind, ext) \in Nat
    BY WidthType, BaseType, TailType, MaxCountAssumption DEF ListTypeOK
  <1>2. /\ length \in Nat
        /\ length + 1 = Base(kind) + count * Width(kind) + TailWords(kind, ext)
    BY DEF ListTypeOK, LengthRight, PacketWords, Holds
  <1>3. ASSUME NEW l \in Nat, NEW base \in Nat, NEW list \in Nat, NEW tail \in Nat,
               l + 1 = base + list + tail
        PROVE  4 * (l + 1 - (base + list)) = 4 * tail
    BY <1>3
  <1> QED
    BY <1>1, <1>2, <1>3 DEF ParsedExt, Holds

\* What the length leaves for a tail is a tail of that length.
LEMMA ToldTail ==
  ASSUME NEW c \in Nat, NEW l \in Nat, kind \in Kinds
  PROVE  /\ TailTold(c, l) \in Nat \union {NoExt}
         /\ TailTold(c, l) # NoExt => TailTold(c, l) % 4 = 0
         /\ kind # "BYE" /\ l + 1 >= Holds(kind, c) =>
              l + 1 = PacketWords(kind, c, TailTold(c, l))
  <1>1. PICK h \in Nat \ {0} : h = Holds(kind, c)
    BY HoldsType
  <1>2. CASE l + 1 <= h
    <2>1. TailTold(c, l) = NoExt
      BY <1>1, <1>2 DEF TailTold
    <2> QED
      BY <1>1, <1>2, <2>1 DEF PacketWords, TailWords
  <1>3. CASE ~(l + 1 <= h)
    <2>1. PICK t \in Nat \ {0} : t = l + 1 - h
      BY <1>1, <1>3
    <2>2. TailTold(c, l) = 4 * t
      BY <1>1, <1>3, <2>1 DEF TailTold
    <2>3. 4 * t \in Nat /\ (4 * t) % 4 = 0 /\ 4 * t # NoExt /\ l + 1 = h + t
      BY <1>1, <2>1 DEF NoExt
    <2>4. kind # "BYE" => TailWords(kind, 4 * t) = t
      BY <2>3, PaddedWords DEF TailWords
    <2> QED
      BY <1>1, <2>2, <2>3, <2>4 DEF PacketWords
  <1> QED
    BY <1>2, <1>3

LEMMA ArrivedType ==
  ASSUME NEW array \in Seq(Source), NEW n, kind \in Kinds
  PROVE  Arrived(array, n) \in Seq(Source) /\ Len(Arrived(array, n)) = Len(array)
  <1>1. Len(array) \in Nat /\ DOMAIN array = 1..Len(array)
    OBVIOUS
  <1>2. ASSUME NEW there
        PROVE  [w \in DOMAIN array |-> IF w <= there THEN array[w] ELSE ZeroSource]
                 \in [1..Len(array) -> Source]
    BY <1>1, ZeroSourceAssumption
  <1>3. Arrived(array, n) \in [1..Len(array) -> Source]
    BY <1>2 DEF Arrived
  <1> QED
    BY <1>1, <1>3

\* A parser leaves a packet of the right types, with the length of its words unless it
\* broke off or took the length as it came.
LEMMA ParseInv ==
  ASSUME ListInv, ~broken, NEW c \in 0..MaxCount, NEW array \in Seq(Source),
         Len(array) = c * Width(kind), NEW l \in Nat, NEW n \in Nat,
         ListParse(c, array, l, n), members' \subseteq Source, mixed' \in BOOLEAN
  PROVE  ListInv'
  <1>1. kind \in Kinds /\ c \in Nat
    BY MaxCountAssumption DEF ListInv, ListTypeOK
  <1>2. /\ kind' = kind /\ count' = c /\ length' = l
        /\ heard' = IF broken' THEN n ELSE 0
    BY DEF ListParse
  <1>3. Holds(kind, c) \in Nat /\ Base(kind) \in Nat
    BY <1>1, HoldsType
  <1>4. /\ TailTold(c, l) \in Nat \union {NoExt}
        /\ TailTold(c, l) # NoExt => TailTold(c, l) % 4 = 0
        /\ kind # "BYE" /\ l + 1 >= Holds(kind, c) =>
             l + 1 = PacketWords(kind, c, TailTold(c, l))
    BY <1>1, ToldTail
  <1> DEFINE Good == /\ words' \in Seq(Source) /\ Len(words') = c * Width(kind)
                     /\ ext' \in Nat \union {NoExt}
                     /\ kind = "SR" /\ ext' # NoExt => ext' % 4 = 0
                     /\ stale' \in BOOLEAN /\ broken' \in BOOLEAN
                     /\ ~broken' /\ ~stale' => l + 1 = PacketWords(kind, c, ext')
  <1>5. ASSUME ParseReport(c, array, l, n) PROVE Good
    <2>6. /\ stale' = (n < Holds(kind, c))
          /\ broken' = (\/ n < Base(kind)
                        \/ n >= Holds(kind, c) /\ (l + 1 < Holds(kind, c) \/ l + 1 > n))
      BY <1>5, Zenon DEF ParseReport
    <2>7. stale' \in BOOLEAN /\ (stale' <=> n < Holds(kind, c))
      <3>1. stale' = (n < Holds(kind, c))
        BY <2>6, Zenon
      <3>2. stale' \in BOOLEAN
        BY <3>1
      <3>3. stale' <=> n < Holds(kind, c)
        BY <3>1, Zenon
      <3> QED
        BY <3>2, <3>3
    <2>8. broken' \in BOOLEAN
      BY <2>6, Zenon
    <2>9. n >= Holds(kind, c) /\ l + 1 < Holds(kind, c) => broken'
      BY <2>6, Zenon
    <2>0. /\ stale' \in BOOLEAN /\ (stale' <=> n < Holds(kind, c))
          /\ broken' \in BOOLEAN
          /\ n >= Holds(kind, c) /\ l + 1 < Holds(kind, c) => broken'
      BY <2>7, <2>8, <2>9
    <2>1. /\ kind # "BYE"
          /\ words' = Arrived(array, n)
          /\ ext' = IF n < Holds(kind, c) THEN NoExt ELSE TailTold(c, l)
      BY <1>5 DEF ParseReport
    <2>2. words' \in Seq(Source) /\ Len(words') = c * Width(kind)
      BY <1>1, <2>1, ArrivedType
    <2>3. ~broken' /\ ~stale' => n >= Holds(kind, c) /\ l + 1 >= Holds(kind, c)
      BY <1>3, <2>0
    <2>4. ext' \in Nat \union {NoExt} /\ (ext' # NoExt => ext' % 4 = 0)
      BY <1>4, <2>1
    <2>5. ~broken' /\ ~stale' => l + 1 = PacketWords(kind, c, ext')
      BY <1>3, <1>4, <2>1, <2>3
    <2> QED
      BY <2>0, <2>2, <2>4, <2>5
  <1>6. ASSUME ParseApp(c, array, l, n) PROVE Good
    <2>4. stale' = (l + 1 < Base(kind)) /\ broken' = (n < Base(kind) \/ l + 1 > n)
      BY <1>6, Zenon DEF ParseApp
    <2>5. stale' \in BOOLEAN /\ (stale' <=> l + 1 < Base(kind))
      <3>1. stale' = (l + 1 < Base(kind))
        BY <2>4, Zenon
      <3>2. stale' \in BOOLEAN
        BY <3>1
      <3>3. stale' <=> l + 1 < Base(kind)
        BY <3>1, Zenon
      <3> QED
        BY <3>2, <3>3
    <2>6. broken' \in BOOLEAN
      BY <2>4, Zenon
    <2>0. stale' \in BOOLEAN /\ (stale' <=> l + 1 < Base(kind)) /\ broken' \in BOOLEAN
      BY <2>5, <2>6
    <2>1. kind = "APP" /\ c = 0 /\ words' = array /\ ext' = TailTold(c, l)
      BY <1>6 DEF ParseApp
    <2>2. Holds(kind, c) = Base(kind)
      BY <1>3, <2>1, WidthType DEF Holds
    <2>3. ~stale' => l + 1 = PacketWords(kind, c, ext')
      BY <1>3, <1>4, <2>0, <2>1, <2>2
    <2> QED
      BY <1>4, <2>0, <2>1, <2>3
  <1>7. ASSUME ParseBye(c, array, l, n) PROVE Good
    <2>0. stale' \in BOOLEAN /\ (stale' <=> l + 1 # Holds(kind, c)) /\ broken' \in BOOLEAN
      BY <1>7, Zenon DEF ParseBye
    <2>1. kind = "BYE" /\ words' = array /\ ext' = NoExt
      BY <1>7 DEF ParseBye
    <2>2. PacketWords(kind, c, ext') = Holds(kind, c)
      BY <1>3, <2>1 DEF PacketWords, TailWords
    <2>3. ~stale' => l + 1 = PacketWords(kind, c, ext')
      BY <2>0, <2>2
    <2> QED
      BY <2>0, <2>1, <2>3
  <1>8. Good
    BY <1>5, <1>6, <1>7, Zenon DEF ListParse
  <1> HIDE DEF Good
  <1>9. ListTypeOK'
    <2>1. heard' \in Nat
      BY <1>2, <1>8 DEF Good
    <2> QED
      BY <1>1, <1>2, <1>8, <2>1 DEF Good, ListTypeOK
  <1>10. ~broken' /\ ~stale' => LengthRight'
    BY <1>2, <1>8 DEF Good, LengthRight
  <1> QED
    BY <1>2, <1>9, <1>10 DEF ListInv

LEMMA ParseOwnInv ==
  ASSUME ListInv, NEW n \in 1 .. PacketWords(kind, count, ext), ParseOwn(n) PROVE ListInv'
  <1>1. /\ count \in 0..MaxCount /\ count \in Nat /\ words \in Seq(Source)
        /\ length \in Nat /\ members \subseteq Source /\ kind \in Kinds
    BY MaxCountAssumption DEF ListInv, ListTypeOK
  <1>2. ~broken /\ Len(words) = count * Width(kind)
    BY WholeArray DEF ListInv, ParseOwn, Sound
  <1>3. members' \subseteq Source /\ mixed' \in BOOLEAN
    <2>1. mixed \in BOOLEAN /\ mixed' = (mixed \/ n < Holds(kind, count)) /\ members' = members
      BY DEF ParseOwn, ListInv, ListTypeOK
    <2> QED
      BY <1>1, <2>1
  <1>4. n \in Nat
    OBVIOUS
  <1> QED
    BY <1>1, <1>2, <1>3, <1>4, ParseInv DEF ParseOwn

LEMMA Divided ==
  ASSUME NEW m \in Nat, NEW W \in Nat \ {0}
  PROVE  \E q \in Nat, r \in 0 .. W - 1 : q = m \div W /\ q * W + r = m
  <1>1. PICK q \in Nat : q = m \div W
    OBVIOUS
  <1>2. PICK r \in 0 .. W - 1 : r = m % W
    OBVIOUS
  <1>3. q * W + r = m
    BY <1>1, <1>2
  <1> QED
    BY <1>1, <1>3

\* A quotient and a remainder are the only ones.
LEMMA DivisionUnique ==
  ASSUME NEW n \in Nat \ {0}, NEW q1 \in Nat, NEW q2 \in Nat,
         NEW r1 \in 0 .. n - 1, NEW r2 \in 0 .. n - 1,
         q1 * n + r1 = q2 * n + r2
  PROVE  q1 = q2 /\ r1 = r2
  <1>1. (q1 - q2) * n = r2 - r1
    OBVIOUS
  <1>2. q1 - q2 > 0 => (q1 - q2) * n >= n
    OBVIOUS
  <1>3. q1 - q2 < 0 => (q1 - q2) * n <= -n
    OBVIOUS
  <1>4. q1 = q2
    BY <1>1, <1>2, <1>3
  <1> QED
    BY <1>1, <1>4

\* Where word w of element i is in an array of c elements of n words.
LEMMA Place ==
  ASSUME NEW c \in Nat, NEW n \in Nat, NEW i \in 1..c, NEW w \in 1..n
  PROVE  (i - 1) * n + w \in 1 .. c * n
  <1>1. PICK d \in Nat : c = i + d
    <2>1. c - i \in Nat /\ c = i + (c - i)
      OBVIOUS
    <2> QED
      BY <2>1
  <1>2. (i - 1) * n \in Nat /\ d * n \in Nat
    BY <1>1
  <1>3. c * n = (i - 1) * n + n + d * n
    BY <1>1
  <1> QED
    BY <1>2, <1>3

\* The array of c sources, of W words each.
SourcesOf(sources, c, W) == [w \in 1 .. c * W |-> sources[(w - 1) \div W + 1]]

LEMMA SourcesArray ==
  ASSUME NEW c \in Nat, NEW sources \in [1..c -> Source], NEW W \in Nat \ {0}
  PROVE  /\ SourcesOf(sources, c, W) \in Seq(Source) /\ Len(SourcesOf(sources, c, W)) = c * W
         /\ \A i \in 1..c : \A w \in 1..W :
              SourcesOf(sources, c, W)[(i - 1) * W + w] = sources[i]
  <1>0. PICK array : array = SourcesOf(sources, c, W)
    OBVIOUS
  <1>1. c * W \in Nat
    OBVIOUS
  <1>2. ASSUME NEW w \in 1 .. c * W PROVE (w - 1) \div W + 1 \in 1..c
    <2>1. PICK m \in Nat : m = w - 1 /\ m < c * W
      BY <1>1
    <2>2. PICK q \in Nat, r \in 0 .. W - 1 : q = m \div W /\ q * W + r = m
      BY Divided
    <2>4. q < c
      <3>1. SUFFICES ASSUME q >= c PROVE FALSE
        OBVIOUS
      <3>2. PICK d \in Nat : q = c + d
        <4>1. q - c \in Nat /\ q = c + (q - c)
          BY <3>1
        <4> QED
          BY <4>1
      <3>3. q * W = c * W + d * W /\ d * W \in Nat
        BY <3>2
      <3> QED
        BY <1>1, <2>1, <2>2, <3>3
    <2> QED
      BY <2>1, <2>2, <2>4
  <1>3. array \in [1 .. c * W -> Source]
    BY <1>0, <1>2 DEF SourcesOf
  <1>4. ASSUME NEW i \in 1..c, NEW w \in 1..W PROVE array[(i - 1) * W + w] = sources[i]
    <2>1. (i - 1) * W + w \in 1 .. c * W
      BY Place
    <2>2. PICK m \in Nat : m = (i - 1) * W + w - 1
      BY <2>1
    <2>3. PICK q \in Nat, r \in 0 .. W - 1 : q = m \div W /\ q * W + r = m
      BY Divided
    <2>5. q * W + r = (i - 1) * W + (w - 1)
      <3>1. PICK p \in Nat : p = (i - 1) * W
        OBVIOUS
      <3> QED
        BY <2>2, <2>3, <3>1
    <2>6. q = i - 1
      <3>1. i - 1 \in Nat /\ w - 1 \in 0 .. W - 1
        OBVIOUS
      <3>2. PICK p \in Nat, v \in 0 .. W - 1 : p = i - 1 /\ v = w - 1
        BY <3>1
      <3>3. q * W + r = p * W + v
        BY <2>5, <3>2
      <3>4. q = p
        BY <3>3, DivisionUnique
      <3> QED
        BY <3>2, <3>4
    <2>7. array[(i - 1) * W + w] = sources[m \div W + 1]
      BY <1>0, <2>1, <2>2 DEF SourcesOf
    <2> QED
      BY <2>3, <2>6, <2>7
  <1>5. array \in Seq(Source) /\ Len(array) = c * W
    BY <1>1, <1>3
  <1>6. \A i \in 1..c : \A w \in 1..W : array[(i - 1) * W + w] = sources[i]
    BY <1>4, Zenon
  <1> QED
    BY <1>0, <1>5, <1>6

LEMMA ParseForeignInv ==
  ASSUME ListInv, ~broken, NEW c \in 0..MaxCount, NEW sources \in [1..c -> Source],
         NEW l \in Nat, NEW n \in Nat, ParseForeign(sources, l, n)
  PROVE  ListInv'
  <1>1. c \in Nat /\ Len(sources) = c /\ Width(kind) \in Nat \ {0}
    BY WidthType, MaxCountAssumption
  <1>2. PICK array : array = [w \in 1 .. c * Width(kind) |-> sources[(w - 1) \div Width(kind) + 1]]
    OBVIOUS
  <1>3. array \in Seq(Source) /\ Len(array) = c * Width(kind)
    <2>1. PICK W \in Nat \ {0} : W = Width(kind)
      BY <1>1
    <2>2. array = SourcesOf(sources, c, W)
      BY <1>2, <2>1 DEF SourcesOf
    <2>3. array \in Seq(Source) /\ Len(array) = c * W
      BY <1>1, <2>2, SourcesArray
    <2> QED
      BY <2>1, <2>3
  <1>4. ListParse(c, array, l, n)
    BY <1>1, <1>2 DEF ParseForeign
  <1>5. members' \subseteq Source /\ mixed' \in BOOLEAN
    BY <1>1 DEF ParseForeign
  <1> QED
    BY <1>3, <1>4, <1>5, ParseInv

\* What is told and received: a count and a length, or a datagram.
LEMMA Received ==
  ASSUME ListInv, Receive
  PROVE  /\ Fresh
         /\ \E c \in 0..MaxCount : \E l \in Nat :
              \/ ParseHeaderOnly(c, l)
              \/ \E sources \in [1..c -> Source], n \in Nat \ {0} : ParseForeign(sources, l, n)
  <1>1. PICK c \in 0..MaxCount : \E l \in 0 .. Holds(kind, c) + MaxBeyond :
               \/ ParseHeaderOnly(c, l)
               \/ \E sources \in [1..c -> Source], n \in 1 .. Holds(kind, c) + MaxBeyond :
                    ParseForeign(sources, l, n)
    BY DEF Receive
  <1>2. PICK l \in 0 .. Holds(kind, c) + MaxBeyond :
               \/ ParseHeaderOnly(c, l)
               \/ \E sources \in [1..c -> Source], n \in 1 .. Holds(kind, c) + MaxBeyond :
                    ParseForeign(sources, l, n)
    BY <1>1
  <1>3. l \in Nat /\ \A n \in 1 .. Holds(kind, c) + MaxBeyond : n \in Nat \ {0}
    OBVIOUS
  <1> QED
    BY <1>2, <1>3 DEF Receive

LEMMA ReceiveInv == ASSUME ListInv, Receive PROVE ListInv'
  <1>1. PICK c \in 0..MaxCount : \E l \in Nat :
               \/ ParseHeaderOnly(c, l)
               \/ \E sources \in [1..c -> Source], n \in Nat \ {0} : ParseForeign(sources, l, n)
    BY Received
  <1>2. PICK l \in Nat :
               \/ ParseHeaderOnly(c, l)
               \/ \E sources \in [1..c -> Source], n \in Nat \ {0} : ParseForeign(sources, l, n)
    BY <1>1
  <1>3. Fresh /\ ~broken
    BY Received DEF Fresh
  <1>4. ASSUME ParseHeaderOnly(c, l) PROVE ListInv'
    <2>1. words' = <<>> /\ count' = c /\ length' = l /\ stale' = TRUE
      BY <1>3, <1>4 DEF ParseHeaderOnly, Fresh
    <2>2. words' \in Seq(Source) /\ Len(words') = 0
      BY <2>1
    <2> QED
      BY <1>4, <2>1, <2>2 DEF ParseHeaderOnly, ListInv, ListTypeOK
  <1>5. ASSUME NEW sources \in [1..c -> Source], NEW n \in Nat \ {0}, ParseForeign(sources, l, n)
        PROVE  ListInv'
    BY <1>3, <1>5, ParseForeignInv
  <1> QED
    BY <1>2, <1>4, <1>5

LEMMA UseHollowInv ==
  ASSUME ListInv, UseHollow PROVE ListInv'
  BY DEF UseHollow, ListInv, ListTypeOK, LengthRight

LEMMA ListRecreateInv == ASSUME ListInv, ListRecreate PROVE ListInv'
  <1>1. kind' \in Kinds /\ ListInit'
    BY DEF ListRecreate, ListInv, ListTypeOK, ListInit, Fresh, Base
  <1>2. ListInit' => ListInv'
    BY ListInitInv, PTL
  <1> QED
    BY <1>1, <1>2

LEMMA StutterInv ==
  ASSUME ListInv, UNCHANGED listVars PROVE ListInv'
  BY DEF ListInv, ListTypeOK, LengthRight, listVars

LEMMA NextInv == ListInv /\ [ListNext]_listVars => ListInv'
  <1> SUFFICES ASSUME ListInv, [ListNext]_listVars PROVE ListInv'
    OBVIOUS
  <1>1. ASSUME NEW src \in Source, Add(src) PROVE ListInv'
    BY <1>1, AddInv
  <1>2. ASSUME NEW src \in Source, AddWraps(src) PROVE ListInv'
    BY <1>2, AddWrapsInv
  <1>3. ASSUME NEW src \in Source, NEW i \in 1..count, Remove(src, i) PROVE ListInv'
    BY <1>3, RemoveInv
  <1>4. ASSUME NEW size \in Sizes, SetTail(size) PROVE ListInv'
    BY <1>4, SetTailInv
  <1>5. CASE ClearTail
    BY <1>5, ClearTailInv
  <1>6. ASSUME NEW n \in 1 .. PacketWords(kind, count, ext), ParseOwn(n) PROVE ListInv'
    BY <1>6, ParseOwnInv
  <1>7. CASE UNCHANGED listVars
    BY <1>7, StutterInv
  <1>8. CASE Receive
    BY <1>8, ReceiveInv
  <1>9. CASE UseHollow \/ ListRecreate
    BY <1>9, UseHollowInv, ListRecreateInv
  <1> QED
    BY <1>1, <1>2, <1>3, <1>4, <1>5, <1>6, <1>7, <1>8, <1>9
    DEF ListNext, AddRefused, RemoveUnknown, SetExt, SetMessage, SetData, SetTailRefused,
        ClearExt, ClearMessage, ClearData, ListSerializeRefused

LEMMA InvRoundTrip == ListInv => RoundTrip
  <1> SUFFICES ASSUME ListInv, ~broken, ~stale PROVE
                 /\ length + 1 = PacketWords(kind, count, ext)
                 /\ kind = "SR" /\ ext # NoExt => ParsedExt = ext
                 /\ kind \in {"RR", "APP"} /\ ext # NoExt => ParsedExt \in ext .. ext + 3
                 /\ kind # "BYE" /\ ext = NoExt => ParsedExt = 0
    BY DEF RoundTrip
  <1>1. ListTypeOK /\ LengthRight
    BY DEF ListInv
  <1>2. ParsedExt = 4 * TailWords(kind, ext)
    BY <1>1, ParsedIsTail
  <1>3. kind # "BYE" /\ ext # NoExt =>
          /\ ext \in Nat
          /\ TailWords(kind, ext) = Padded(ext)
    BY <1>1 DEF ListTypeOK, TailWords
  <1>4. ext = NoExt => TailWords(kind, ext) = 0
    BY DEF TailWords
  <1>5. length + 1 = PacketWords(kind, count, ext)
    BY <1>1 DEF LengthRight
  <1>6. kind # "BYE" /\ ext = NoExt => ParsedExt = 0
    BY <1>2, <1>4
  <1>7. ASSUME kind # "BYE", ext # NoExt
        PROVE  /\ ParsedExt \in ext .. ext + 3
               /\ kind = "SR" => ParsedExt = ext
    <2>1. ext \in Nat /\ ParsedExt = 4 * Padded(ext)
      BY <1>2, <1>3, <1>7
    <2>2. kind = "SR" => ext % 4 = 0
      BY <1>1, <1>7 DEF ListTypeOK
    <2> QED
      BY <2>1, <2>2, PaddedBounds
  <1> QED
    BY <1>5, <1>6, <1>7

\* Types of the RTCP packets with a list or a tail, for every number of sources and every
\* size of report.
THEOREM ListTypeCorrect == RtcpList => []ListTypeOK
  <1>1. ListInv => ListTypeOK
    BY DEF ListInv
  <1> QED
    BY ListInitInv, NextInv, <1>1, PTL DEF RtcpList

\* What is serialized is read back: the header length that every operation
\* recomputes is right in every reachable state.
THEOREM ListRoundTrip == RtcpList => []RoundTrip
  BY ListInitInv, NextInv, InvRoundTrip, PTL DEF RtcpList

-----------------------------------------------------------------------------
\* A removal moves words past the end of the array only if there are more reports
\* than words in a report.
LEMMA RemoveInside ==
  ASSUME ListInv, ~Hollow, NEW i \in 1..count, kind = "BYE" \/ count <= ReportWords
  PROVE  ~Spills(i)
  <1>1. count \in Nat /\ count <= MaxCount /\ Len(words) = count * Width(kind)
    BY MaxCountAssumption, WholeArray DEF ListInv, ListTypeOK
  <1>2. CASE kind = "BYE"
    BY <1>1, <1>2 DEF Spills, Moved, Index, Width
  <1>3. CASE kind # "BYE"
    <2>1. Width(kind) = ReportWords /\ Moved(i) = count
      BY <1>1, <1>3, ReportWordsAssumption DEF Width, Moved, Index
    <2>2. (i - 1) * ReportWords <= (count - 1) * ReportWords
      BY <1>1, ReportWordsAssumption
    <2>3. (count - 1) * ReportWords + ReportWords = count * ReportWords
      BY <1>1, ReportWordsAssumption
    <2> QED
      BY <1>1, <1>3, <2>1, <2>2, <2>3, ReportWordsAssumption DEF Spills
  <1> QED
    BY <1>2, <1>3

\* A parser that breaks has met a BYE that is not its sources and no more, or another
\* datagram of fewer words than its length says, or a length of fewer than its list has.
LEMMA ParseBreaks ==
  ASSUME kind \in Kinds, NEW c \in 0..MaxCount, NEW array, NEW l \in Nat, NEW n \in Nat \ {0},
         ListParse(c, array, l, n), broken'
  PROVE  \/ kind = "BYE" /\ heard' \notin {0, Holds(kind, count')}
         \/ kind # "BYE" /\ heard' > 0
              /\ (length' + 1 > heard' \/ length' + 1 < Holds(kind, count'))
  <1>1. count' = c /\ length' = l /\ heard' = n
    BY DEF ListParse
  <1>2. /\ Holds(kind, c) \in Nat \ {0} /\ Holds(kind, c) >= Base(kind)
        /\ Base(kind) \in Nat
    BY HoldsType, MaxCountAssumption
  <1>3. CASE ParseReport(c, array, l, n)
    <2>1. /\ kind # "BYE"
          /\ n < Base(kind) \/ l + 1 < Holds(kind, c) \/ l + 1 > n
      BY <1>3 DEF ParseReport
    <2> QED
      BY <1>1, <1>2, <2>1
  <1>4. CASE ParseApp(c, array, l, n)
    <2>1. kind # "BYE" /\ (n < Base(kind) \/ l + 1 > n)
      BY <1>4 DEF ParseApp
    <2> QED
      BY <1>1, <1>2, <2>1
  <1>5. CASE ParseBye(c, array, l, n)
    BY <1>1, <1>2, <1>5 DEF ParseBye
  <1> QED
    BY <1>3, <1>4, <1>5 DEF ListParse

\* Memory outside the array is written in the known cases only.
THEOREM ListWritesInside == RtcpList => WritesInside
  <1> DEFINE Told == \/ kind = "BYE" /\ heard' \notin {0, Holds(kind, count')}
                     \/ kind # "BYE" /\ heard' > 0
                          /\ (length' + 1 > heard' \/ length' + 1 < Holds(kind, count'))
             Allowed == \/ broken
                        \/ count = MaxCount /\ count' = 0
                        \/ kind # "BYE" /\ count > ReportWords
                        \/ Hollow
                        \/ Told
  <1>1. ListInv /\ [ListNext]_listVars => [broken' => Allowed]_listVars
    <2> SUFFICES ASSUME ListInv, ListNext, broken', ~broken PROVE Allowed
      BY DEF Hollow
    <2>1. ASSUME NEW src \in Source, AddWraps(src) PROVE Allowed
      BY <2>1 DEF AddWraps
    <2>2. ASSUME NEW src \in Source, NEW i \in 1..count, Remove(src, i) PROVE Allowed
      <3>1. Spills(i) /\ ~Hollow
        BY <2>2, Zenon DEF Remove, Sound
      <3>2. ~(kind = "BYE" \/ count <= ReportWords)
        BY <3>1, RemoveInside
      <3> QED
        BY <3>2, ReportWordsAssumption, MaxCountAssumption DEF ListInv, ListTypeOK
    <2>3. ASSUME NEW c \in 0..MaxCount, NEW array, NEW l \in Nat, NEW n \in Nat \ {0},
                 ListParse(c, array, l, n)
          PROVE  Told
      BY <2>3, ParseBreaks DEF ListInv, ListTypeOK
    <2>4. ASSUME NEW n \in 1 .. PacketWords(kind, count, ext), ParseOwn(n) PROVE Told
      <3>1. count \in 0..MaxCount /\ length \in Nat /\ n \in Nat \ {0}
        BY DEF ListInv, ListTypeOK
      <3> QED
        BY <2>3, <2>4, <3>1 DEF ParseOwn
    <2>5. CASE Receive
      <3>1. PICK c \in 0..MaxCount : \E l \in Nat :
                   \/ ParseHeaderOnly(c, l)
                   \/ \E sources \in [1..c -> Source], n \in Nat \ {0} : ParseForeign(sources, l, n)
        BY <2>5, Received
      <3>2. PICK l \in Nat :
                   \/ ParseHeaderOnly(c, l)
                   \/ \E sources \in [1..c -> Source], n \in Nat \ {0} : ParseForeign(sources, l, n)
        BY <3>1
      <3>3. ~ParseHeaderOnly(c, l)
        BY DEF ParseHeaderOnly
      <3>4. PICK sources \in [1..c -> Source], n \in Nat \ {0} : ParseForeign(sources, l, n)
        BY <3>2, <3>3
      <3>5. c \in Nat /\ Len(sources) = c
        BY MaxCountAssumption
      <3>6. \E array : ListParse(c, array, l, n)
        BY <3>4, <3>5 DEF ParseForeign
      <3> QED
        BY <2>3, <3>6
    <2>6. CASE UseHollow
      BY <2>6 DEF UseHollow
    <2> HIDE DEF Told
    <2> QED
      BY <2>1, <2>2, <2>4, <2>5, <2>6
      DEF ListNext, listVars, AddRefused, Add, RemoveUnknown, SetTail, SetExt, SetMessage, SetData,
          SetTailRefused, ClearTail, ClearExt, ClearMessage, ClearData,
          ListSerializeRefused, ListRecreate
  <1> QED
    BY ListInitInv, NextInv, <1>1, PTL DEF RtcpList, WritesInside
-----------------------------------------------------------------------------
\* ListsMembers, with what its induction needs: no source is listed twice.
ListsOnce == /\ ListsMembers
             /\ \A i, j \in 1..count : Ssrc(i) = Ssrc(j) => i = j
             /\ IsFiniteSet(members)

KeepInv == ListInv /\ (Sound /\ ~mixed => ListsOnce)

\* A word of what is appended.
LEMMA AppendedWord ==
  ASSUME NEW S, NEW s \in Seq(S), NEW t \in Seq(S), NEW w \in 1..Len(t)
  PROVE  (s \o t)[Len(s) + w] = t[w]
  BY ConcatProperties, LenProperties

LEMMA InitOnce == ListInit => ListsOnce
  <1> SUFFICES ASSUME ListInit PROVE ListsOnce
    OBVIOUS
  <1>1. 1..count = {} /\ members = {} /\ count = 0
    BY DEF ListInit, Fresh
  <1> QED
    BY <1>1, FS_EmptySet DEF ListsOnce, ListsMembers

LEMMA AddOnce ==
  ASSUME ListInv, ListsOnce, NEW src \in Source, Add(src) PROVE ListsOnce'
  <1> DEFINE W == Width(kind)
             Now(i) == words'[(i - 1) * W + 1]
  <1>1. /\ count \in Nat /\ W \in Nat \ {0} /\ count' = count + 1 /\ kind' = kind
        /\ words \in Seq(Source) /\ Len(words) = count * W
        /\ Element(src) \in Seq(Source) /\ Len(Element(src)) = W
    BY WidthType, WholeArray, ElementType, MaxCountAssumption DEF ListInv, ListTypeOK, Sound, Add
  <1>2. ASSUME NEW i \in 1..count, NEW w \in 1..W
        PROVE  words'[(i - 1) * W + w] = words[(i - 1) * W + w]
    <2>1. (i - 1) * W + w \in 1..Len(words)
      BY <1>1, Place
    <2> QED
      BY <1>1, <2>1, ConcatProperties DEF Add
  <1>3. ASSUME NEW w \in 1..W PROVE words'[(count' - 1) * W + w] = src
    <2>1. (count' - 1) * W + w = Len(words) + w
      BY <1>1
    <2>2. w \in 1..Len(Element(src))
      BY <1>1
    <2>3. (words \o Element(src))[Len(words) + w] = Element(src)[w]
      BY <1>1, <2>2, AppendedWord
    <2>4. Element(src)[w] = src
      BY DEF Element
    <2> QED
      BY <2>1, <2>3, <2>4 DEF Add
  <1>4. 1 \in 1..W
    BY <1>1
  <1>5. \A i \in 1..count : Now(i) = Ssrc(i)
    BY <1>2, <1>4 DEF Ssrc
  <1>6. Now(count + 1) = src
    BY <1>1, <1>3, <1>4
  <1>7. src \notin members
    BY DEF Add, Listed, ListsOnce, ListsMembers
  <1>8. 1..count' = (1..count) \union {count + 1}
    BY <1>1
  <1>9. \A i \in 1..count' : \A w \in 1..W : words'[(i - 1) * W + w] = Now(i)
    <2>1. ASSUME NEW i \in 1..count, NEW w \in 1..W
          PROVE  words'[(i - 1) * W + w] = Now(i)
      <3>1. words[(i - 1) * W + w] = Ssrc(i)
        BY DEF ListsOnce, ListsMembers
      <3> QED
        BY <1>2, <1>5, <3>1
    <2>2. \A w \in 1..W : words'[(count' - 1) * W + w] = Now(count + 1)
      BY <1>3, <1>6
    <2>3. SUFFICES ASSUME NEW i \in 1..count', NEW w \in 1..W
                   PROVE  words'[(i - 1) * W + w] = Now(i)
      OBVIOUS
    <2>4. i \in 1..count \/ i = count + 1
      BY <1>8
    <2>5. CASE i \in 1..count
      BY <2>1, <2>5
    <2>6. CASE i = count + 1
      <3>1. i = count' /\ Now(i) = Now(count + 1)
        BY <1>1, <2>6
      <3>2. words'[(count' - 1) * W + w] = Now(count + 1)
        BY <2>2
      <3> QED
        BY <3>1, <3>2
    <2> QED
      BY <2>4, <2>5, <2>6
  <1>10. {Now(i) : i \in 1..count'} = members'
    <2>1. {Ssrc(i) : i \in 1..count} = members /\ members' = members \union {src}
      BY DEF Add, ListsOnce, ListsMembers
    <2>2. {Now(i) : i \in 1..count} = {Ssrc(i) : i \in 1..count}
      BY <1>5
    <2>3. {Now(i) : i \in 1..count'} = {Now(i) : i \in 1..count} \union {Now(count + 1)}
      BY <1>8
    <2> QED
      BY <1>6, <2>1, <2>2, <2>3
  <1>11. Cardinality(members') = count' /\ IsFiniteSet(members')
    BY <1>1, <1>7, FS_AddElement, SMTT(20) DEF Add, ListsOnce, ListsMembers
  <1>12. \A i, j \in 1..count' : Now(i) = Now(j) => i = j
    <2>1. \A i \in 1..count : Now(i) # src
      BY <1>5 DEF Add, Listed
    <2>2. \A i, j \in 1..count : Now(i) = Now(j) => i = j
      BY <1>5 DEF ListsOnce
    <2> QED
      BY <1>6, <1>8, <2>1, <2>2
  <1>13. Width(kind)' = W /\ \A i \in 1..count' : Ssrc(i)' = Now(i)
    BY <1>1 DEF Ssrc
  <1>14. \A i \in 1..count' : \A w \in 1..W : words'[(i - 1) * W + w] = Ssrc(i)'
    BY <1>9, <1>13
  <1>15. {Ssrc(i)' : i \in 1..count'} = members'
    BY <1>10, <1>13
  <1>16. \A i, j \in 1..count' : Ssrc(i)' = Ssrc(j)' => i = j
    BY <1>12, <1>13
  <1> HIDE DEF W
  <1> QED
    BY <1>11, <1>13, <1>14, <1>15, <1>16 DEF ListsOnce, ListsMembers

\* A removal that moves whole elements: the elements after the one remixed are
\* each one place earlier.
LEMMA RemoveOnce ==
  ASSUME ListInv, ListsOnce, NEW src \in Source, NEW i \in 1..count, Remove(src, i),
         kind = "BYE" \/ i = count
  PROVE  ListsOnce'
  <1> DEFINE W == Width(kind)
             Was(j) == IF j < i THEN j ELSE j + 1
  <1>1. /\ count \in Nat \ {0} /\ W \in Nat \ {0} /\ count' = count - 1 /\ kind' = kind
        /\ count' \in Nat
    BY WidthType, MaxCountAssumption DEF ListInv, ListTypeOK, Remove
  <1>2. \A j \in 1..count' : Was(j) \in 1..count /\ Was(j) # i
    BY <1>1
  <1>3. ASSUME NEW j \in 1..count', NEW w \in 1..W
        PROVE  words'[(j - 1) * W + w] = words[(Was(j) - 1) * W + w]
    <2>1. (j - 1) * W + w \in 1 .. (count - 1) * W
      BY <1>1, Place
    <2>2. words' = Shifted(i)
      BY DEF Remove
    <2>3. CASE kind = "BYE"
      <3>. W = 1
        BY <2>3 DEF Width
      <3>1. w = 1 /\ (j - 1) * W + w = j /\ (Was(j) - 1) * W + w = Was(j)
        BY <1>1, <1>2, <2>3
      <3>2. (i - 1) * W + 1 = i /\ (i - 1) * W + Moved(i) = count
        BY <1>1, <2>3 DEF Moved, Index
      <3>3. j \in 1 .. (count - 1) * W
        BY <2>1, <3>1
      <3>4. Shifted(i)[j] = IF j \in i .. count THEN words[j + 1] ELSE words[j]
        BY <3>1, <3>2, <3>3 DEF Shifted
      <3> QED
        BY <1>1, <2>2, <3>1, <3>4
    <2>4. CASE i = count
      <3>1. Was(j) = j
        BY <1>1, <2>4
      <3>2. (j - 1) * W + w \notin (i - 1) * W + 1 .. (i - 1) * W + Moved(i)
        BY <1>1, <2>1, <2>4
      <3> QED
        BY <2>1, <2>2, <3>1, <3>2 DEF Shifted
    <2> QED
      BY <2>3, <2>4
  <1>4. 1 \in 1..W
    BY <1>1
  <1>5. \A j \in 1..count' : Ssrc(j)' = Ssrc(Was(j))
    BY <1>1, <1>3, <1>4 DEF Ssrc
  <1>6. \A j \in 1..count : \A w \in 1..W : words[(j - 1) * W + w] = Ssrc(j)
    BY DEF ListsOnce, ListsMembers
  <1>7. \A j \in 1..count' : \A w \in 1..W : words'[(j - 1) * W + w] = Ssrc(j)'
    BY <1>2, <1>3, <1>5, <1>6
  <1>8. Ssrc(i) = src /\ members' = members \ {src}
    BY DEF Remove, IsFirst
  <1>9. {Ssrc(j) : j \in 1..count} = members
    BY DEF ListsOnce, ListsMembers
  <1>10. \A j, k \in 1..count : Ssrc(j) = Ssrc(k) => j = k
    BY DEF ListsOnce
  <1>11. {Ssrc(j)' : j \in 1..count'} = members'
    <2>1. ASSUME NEW m \in members' PROVE \E j \in 1..count' : Ssrc(j)' = m
      <3>1. PICK k \in 1..count : Ssrc(k) = m
        BY <1>8, <1>9
      <3>2. k # i
        BY <1>8, <3>1
      <3>3. \E j \in 1..count' : Was(j) = k
        <4>1. CASE k < i
          BY <1>1, <4>1
        <4>2. CASE k > i
          <5>1. k - 1 \in 1..count' /\ Was(k - 1) = k
            BY <1>1, <4>2
          <5> QED
            BY <5>1
        <4> QED
          BY <1>1, <3>2, <4>1, <4>2
      <3> QED
        BY <1>5, <3>1, <3>3
    <2>2. ASSUME NEW j \in 1..count' PROVE Ssrc(j)' \in members'
      BY <1>2, <1>5, <1>8, <1>9, <1>10
    <2> QED
      BY <2>1, <2>2
  <1>12. src \in members
    BY <1>8, <1>9
  <1>13. Cardinality(members') = count' /\ IsFiniteSet(members')
    BY <1>1, <1>8, <1>12, FS_RemoveElement DEF ListsOnce, ListsMembers
  <1>14. \A j, k \in 1..count' : Ssrc(j)' = Ssrc(k)' => j = k
    <2>1. \A j, k \in 1..count' : Was(j) = Was(k) => j = k
      BY <1>1
    <2> QED
      BY <1>2, <1>5, <1>10, <2>1
  <1> QED
    BY <1>1, <1>7, <1>11, <1>13, <1>14 DEF ListsOnce, ListsMembers

LEMMA SameOnce ==
  ASSUME ListsOnce, UNCHANGED <<kind, count, words, members>> PROVE ListsOnce'
  BY DEF ListsOnce, ListsMembers, Ssrc

\* A datagram whose sources are all there is stored as it came.
LEMMA ArrivedWhole ==
  ASSUME kind \in Kinds, NEW c \in Nat, NEW array \in Seq(Source),
         Len(array) = c * Width(kind), NEW n \in Nat, n >= Holds(kind, c)
  PROVE  Arrived(array, n) = array
  <1>1. PICK W \in Nat \ {0} : W = Width(kind)
    BY WidthType
  <1>2. PICK m \in Nat : m = n - Base(kind) /\ m >= c * W
    <2>1. PICK p \in Nat, b \in Nat : p = c * W /\ b = Base(kind) /\ n >= b + p
      BY <1>1, BaseType DEF Holds
    <2> QED
      BY <2>1
  <1>3. PICK q \in Nat, r \in 0 .. W - 1 : q = m \div W /\ q * W + r = m
    BY Divided
  <1>6. q >= c
    <2>1. SUFFICES ASSUME q < c PROVE FALSE
      OBVIOUS
    <2>2. PICK d \in Nat : c = q + 1 + d
      <3>1. c - q - 1 \in Nat /\ c = q + 1 + (c - q - 1)
        BY <2>1
      <3> QED
        BY <3>1
    <2>3. c * W = q * W + W + d * W /\ d * W \in Nat
      BY <2>2
    <2>4. PICK p \in Nat, v \in Nat, u \in Nat : p = q * W /\ v = c * W /\ u = d * W
      BY <2>3
    <2>5. v = p + W + u /\ p + r = m /\ m >= v
      BY <1>2, <1>3, <2>3, <2>4
    <2> QED
      BY <2>5
  <1>7. q * W >= c * W
    <2>1. PICK d \in Nat : q = c + d
      <3>1. q - c \in Nat /\ q = c + (q - c)
        BY <1>6
      <3> QED
        BY <3>1
    <2>2. q * W = c * W + d * W /\ d * W \in Nat
      BY <2>1
    <2> QED
      BY <2>2
  <1>8. q * W \in Nat /\ DOMAIN array = 1 .. c * W
    BY <1>1
  <1>9. Arrived(array, n) = [w \in DOMAIN array |-> IF w <= q * W THEN array[w] ELSE ZeroSource]
    BY <1>1, <1>2, <1>3 DEF Arrived
  <1>10. \A w \in DOMAIN array : w <= q * W
    BY <1>7, <1>8
  <1> QED
    BY <1>9, <1>10

\* What a parser that did not break stored.
LEMMA ParseStores ==
  ASSUME ListInv, ~broken, NEW c \in 0..MaxCount, NEW array \in Seq(Source),
         Len(array) = c * Width(kind), NEW l \in Nat, NEW n \in Nat,
         ListParse(c, array, l, n), n >= Holds(kind, c)
  PROVE  words' = array /\ kind' = kind /\ count' = c
  <1>1. kind \in Kinds /\ c \in Nat
    BY MaxCountAssumption DEF ListInv, ListTypeOK
  <1>2. Arrived(array, n) = array
    BY <1>1, ArrivedWhole
  <1> QED
    BY <1>2 DEF ListParse, ParseReport, ParseApp, ParseBye

LEMMA ParseOwnOnce ==
  ASSUME KeepInv, NEW n \in 1 .. PacketWords(kind, count, ext), ParseOwn(n), ~mixed'
  PROVE  ListsOnce'
  <1>1. /\ count \in 0..MaxCount /\ words \in Seq(Source) /\ length \in Nat /\ n \in Nat
        /\ kind \in Kinds
    BY MaxCountAssumption DEF KeepInv, ListInv, ListTypeOK
  <1>2. Sound /\ ~broken /\ Len(words) = count * Width(kind)
    BY WholeArray DEF KeepInv, ListInv, ParseOwn, Sound
  <1>3. ~mixed /\ ~(n < Holds(kind, count)) /\ members' = members
    BY Zenon DEF ParseOwn
  <1>4. n >= Holds(kind, count)
    BY <1>1, <1>3, HoldsType, MaxCountAssumption
  <1>5. words' = words /\ kind' = kind /\ count' = count
    BY <1>1, <1>2, <1>4, ParseStores DEF KeepInv, ParseOwn
  <1> QED
    BY <1>2, <1>3, <1>5, SameOnce DEF KeepInv

\* Different values of a function are as many as its arguments.
LEMMA ImageCount ==
  ASSUME NEW c \in Nat, NEW T, NEW f \in [1..c -> T],
         \A t \in T : \E i \in 1..c : f[i] = t,
         \A i, j \in 1..c : f[i] = f[j] => i = j
  PROVE  IsFiniteSet(T) /\ Cardinality(T) = c
  <1>3. ExistsBijection(1..c, T)
    BY DEF ExistsBijection, Bijection, Injection, Surjection, IsInjective
  <1>4. IsFiniteSet(1..c) /\ Cardinality(1..c) = c
    BY FS_Interval
  <1> QED
    BY <1>3, <1>4, FS_Bijection

LEMMA ForeignOnce ==
  ASSUME ListInv, ~broken, NEW c \in 0..MaxCount, NEW sources \in [1..c -> Source],
         NEW l \in Nat, NEW n \in Nat, ParseForeign(sources, l, n), ~mixed'
  PROVE  ListsOnce'
  <1>0. c \in Nat /\ Len(sources) = c /\ Width(kind) \in Nat \ {0} /\ kind \in Kinds
    BY WidthType, MaxCountAssumption DEF ListInv, ListTypeOK
  <1>1. /\ c \in Nat /\ Len(sources) = c /\ Width(kind) \in Nat \ {0} /\ kind \in Kinds
        /\ Holds(kind, c) \in Nat
    BY <1>0, HoldsType
  <1>2. PICK array : array = [w \in 1 .. c * Width(kind) |-> sources[(w - 1) \div Width(kind) + 1]]
    OBVIOUS
  <1>3. /\ array \in Seq(Source) /\ Len(array) = c * Width(kind)
        /\ \A i \in 1..c : \A w \in 1..Width(kind) : array[(i - 1) * Width(kind) + w] = sources[i]
    <2>1. PICK W \in Nat \ {0} : W = Width(kind)
      BY <1>1
    <2>2. array = SourcesOf(sources, c, W)
      BY <1>2, <2>1 DEF SourcesOf
    <2>3. SourcesOf(sources, c, W) \in Seq(Source) /\ Len(SourcesOf(sources, c, W)) = c * W
      BY <1>1, SourcesArray
    <2>4. \A i \in 1..c : \A w \in 1..W :
            SourcesOf(sources, c, W)[(i - 1) * W + w] = sources[i]
      BY ONLY c \in Nat, sources \in [1..c -> Source], W \in Nat \ {0}, SourcesArray, Zenon
    <2>5. array \in Seq(Source) /\ Len(array) = c * W
      BY ONLY <2>2, <2>3, Zenon
    <2>6. \A i \in 1..c : \A w \in 1..W : array[(i - 1) * W + w] = sources[i]
      BY ONLY <2>2, <2>4, Zenon
    <2> QED
      BY ONLY <2>1, <2>5, <2>6, Zenon
  <1>4. ListParse(c, array, l, n) /\ members' = {sources[i] : i \in 1..c}
    BY <1>1, <1>2 DEF ParseForeign
  <1>5. /\ ~(n < Holds(kind, c))
        /\ \A i \in 1..c : \A j \in 1 .. i - 1 : sources[i] # sources[j]
    BY <1>1 DEF ParseForeign
  <1>6. words' = array /\ kind' = kind /\ count' = c
    BY <1>1, <1>3, <1>4, <1>5, ParseStores
  <1>7. \A i, j \in 1..c : sources[i] = sources[j] => i = j
    BY <1>1, <1>5
  <1>8. IsFiniteSet(members') /\ Cardinality(members') = c
    <2>1. sources \in [1..c -> members'] /\ \A t \in members' : \E i \in 1..c : sources[i] = t
      BY <1>4
    <2> QED
      BY <1>1, <1>7, <2>1, ImageCount
  <1>9. Width(kind)' = Width(kind) /\ 1 \in 1..Width(kind)
    BY <1>1, <1>6
  <1>10. \A i \in 1..c : Ssrc(i)' = sources[i]
    BY <1>3, <1>6, <1>9 DEF Ssrc
  <1>11. \A i \in 1..count' : \A w \in 1..Width(kind)' :
           words'[(i - 1) * Width(kind)' + w] = Ssrc(i)'
    BY <1>3, <1>6, <1>9, <1>10
  <1>12. {Ssrc(i)' : i \in 1..count'} = members'
    BY <1>4, <1>6, <1>10
  <1>13. \A i, j \in 1..count' : Ssrc(i)' = Ssrc(j)' => i = j
    BY <1>6, <1>7, <1>10
  <1> QED
    BY <1>6, <1>8, <1>11, <1>12, <1>13 DEF ListsOnce, ListsMembers

LEMMA NextKeep == KeepInv /\ [ListNext]_listVars => KeepInv'
  <1> SUFFICES ASSUME KeepInv, [ListNext]_listVars, ListInv', Sound', ~mixed'
               PROVE  ListsOnce'
    BY NextInv DEF KeepInv
  <1>0. ~broken' /\ ~Hollow'
    BY DEF Sound
  <1>1. ASSUME NEW src \in Source, Add(src) PROVE ListsOnce'
    BY <1>1, AddOnce DEF Add, KeepInv
  <1>2. ASSUME NEW src \in Source, AddWraps(src) PROVE ListsOnce'
    BY <1>0, <1>2 DEF AddWraps
  <1>3. ASSUME NEW src \in Source, NEW i \in 1..count, Remove(src, i) PROVE ListsOnce'
    <2>1. Sound /\ kind' = kind
      BY <1>3 DEF Remove
    <2>2. ~mixed /\ ~(kind # "BYE" /\ i < count)
      BY <1>3, Zenon DEF Remove
    <2>3. ~(i < count) => i = count
      BY MaxCountAssumption DEF KeepInv, ListInv, ListTypeOK
    <2>4. kind = "BYE" \/ i = count
      BY <2>2, <2>3
    <2> QED
      BY <1>3, <2>1, <2>2, <2>4, RemoveOnce DEF KeepInv
  <1>4. CASE UNCHANGED <<kind, count, words, members, mixed, broken>>
    <2>1. Sound /\ ~mixed
      BY <1>0, <1>4 DEF Sound, Hollow
    <2> QED
      BY <1>4, <2>1, SameOnce DEF KeepInv
  <1>5. CASE UNCHANGED listVars
    BY <1>4, <1>5 DEF listVars
  <1>6. CASE ClearTail
    BY <1>4, <1>6 DEF ClearTail
  <1>7. ASSUME NEW size \in Sizes, SetTail(size) PROVE ListsOnce'
    BY <1>4, <1>7 DEF SetTail
  <1>8. ASSUME NEW n \in 1 .. PacketWords(kind, count, ext), ParseOwn(n) PROVE ListsOnce'
    BY <1>8, ParseOwnOnce
  <1>9. CASE Receive
    <2>1. Fresh /\ ~broken
      BY <1>9, Received DEF KeepInv, Fresh
    <2>2. PICK c \in 0..MaxCount : \E l \in Nat :
                 \/ ParseHeaderOnly(c, l)
                 \/ \E sources \in [1..c -> Source], n \in Nat \ {0} : ParseForeign(sources, l, n)
      BY <1>9, Received DEF KeepInv
    <2>3. PICK l \in Nat :
                 \/ ParseHeaderOnly(c, l)
                 \/ \E sources \in [1..c -> Source], n \in Nat \ {0} : ParseForeign(sources, l, n)
      BY <2>2
    <2>4. ASSUME ParseHeaderOnly(c, l) PROVE ListsOnce'
      <3>1. count' = c /\ words' = <<>> /\ members' = {}
        BY <2>1, <2>4 DEF ParseHeaderOnly, Fresh
      <3>2. 1..count' = {} /\ count' = 0
        BY <1>0, <3>1, MaxCountAssumption DEF Hollow
      <3> QED
        BY <3>1, <3>2, FS_EmptySet DEF ListsOnce, ListsMembers
    <2>5. ASSUME NEW sources \in [1..c -> Source], NEW n \in Nat \ {0},
                 ParseForeign(sources, l, n)
          PROVE  ListsOnce'
      BY <2>1, <2>5, ForeignOnce DEF KeepInv
    <2> QED
      BY <2>3, <2>4, <2>5
  <1>10. CASE UseHollow
    BY <1>0, <1>10 DEF UseHollow
  <1>11. CASE ListRecreate
    <2>1. count' = 0 /\ words' = <<>> /\ members' = {} /\ 1..count' = {}
      BY <1>11 DEF ListRecreate
    <2> QED
      BY <2>1, FS_EmptySet DEF ListsOnce, ListsMembers
  <1> QED
    BY <1>1, <1>2, <1>3, <1>5, <1>6, <1>7, <1>8, <1>9, <1>10, <1>11
    DEF ListNext, AddRefused, RemoveUnknown, SetExt, SetMessage, SetData, SetTailRefused,
        ClearExt, ClearMessage, ClearData, ListSerializeRefused

\* A BYE, and a report that only ever lost its last element, list exactly the
\* sources that were added and not remixed, for every size of report.
THEOREM ListKeepsOthers == RtcpList => []KeepsOthers
  <1>1. ListInit => KeepInv
    BY ListInitInv, InitOnce DEF KeepInv
  <1>2. KeepInv => KeepsOthers
    BY DEF KeepInv, KeepsOthers, ListsOnce
  <1> QED
    BY <1>1, NextKeep, <1>2, PTL DEF RtcpList
-----------------------------------------------------------------------------
\* RtpPacket
Distinct(s) == \A i, j \in DOMAIN s : s[i] = s[j] => i = j

\* The header: no source twice, no count without its data, and one not used is empty.
HeaderInv ==
  /\ Distinct(csrc)
  /\ extdata = "freed" => extcount = 0
  /\ use = "new" => /\ cc = 0 /\ csrc = <<>> /\ ~x
                    /\ extdata = "null" /\ extcount = 0
                    /\ payload = NoPayload
                    /\ ~spoiled

\* The history and the list, unless the last parse failed.
SourcesInv == ~spoiled => InArray /\ Sources = added

Word == Csrc \union {Datum} \union Nat
Datagram == [words : Seq(Word), cc : 0 .. WireMod - 1, x : BOOLEAN, damaged : BOOLEAN,
             sent : {<<>>} \union (Seq(Csrc) \X Nat \X Nat)]

\* The words before a datagram's count are sources, none twice.
Leads(d) ==
  /\ \A i \in 1..d.cc : i <= Len(d.words) => d.words[i] \in Csrc
  /\ \A i, j \in 1..d.cc :
       i <= Len(d.words) /\ j <= Len(d.words) /\ d.words[i] = d.words[j] => i = j

\* A datagram that is whole and whose sources all count says what was sent.
Tells(d) == /\ d.cc = Len(d.sent[1])
            /\ d.x <=> d.sent[2] > 0
            /\ Len(d.words) = d.cc + (IF d.x THEN 1 + d.sent[2] ELSE 0) + d.sent[3]
            /\ \A i \in 1..d.cc : d.words[i] = d.sent[1][i]
            /\ d.x => d.words[d.cc + 1] = d.sent[2]

DatagramInv ==
  /\ datagram \in Datagram
  /\ Leads(datagram)
  /\ datagram # NoDatagram /\ ~datagram.damaged => datagram.sent # <<>>
  /\ datagram # NoDatagram /\ ~datagram.damaged /\ Len(datagram.sent[1]) < WireMod => Tells(datagram)

RtpInv == /\ RtpTypeOK /\ HeaderInv /\ SourcesInv /\ DatagramInv
          /\ ReceivesWhatWasSent /\ FaultsHaveCauses

-----------------------------------------------------------------------------
LEMMA PrefixFacts ==
  ASSUME NEW S, NEW s \in Seq(S), NEW n \in 0..Len(s)
  PROVE  /\ SubSeq(s, 1, n) \in Seq(S)
         /\ Len(SubSeq(s, 1, n)) = n
         /\ \A i \in 1..n : SubSeq(s, 1, n)[i] = s[i]
  BY SubSeqProperties

\* What is before a place and what follows it, put together.
LEMMA WithoutPlace ==
  ASSUME NEW S, NEW s \in Seq(S), NEW k \in 1..Len(s), NEW n \in k..Len(s),
         NEW t, t = SubSeq(s, 1, k - 1) \o SubSeq(s, k + 1, n)
  PROVE  /\ t \in Seq(S) /\ Len(t) = n - 1
         /\ \A i \in 1..n - 1 : t[i] = IF i < k THEN s[i] ELSE s[i + 1]
  <1>1. k - 1 \in 0..Len(s) /\ Len(s) \in Nat
    OBVIOUS
  <1>a. PICK a : a = SubSeq(s, 1, k - 1)
    OBVIOUS
  <1>b. PICK b : b = SubSeq(s, k + 1, n)
    OBVIOUS
  <1>2. a \in Seq(S) /\ Len(a) = k - 1 /\ \A i \in 1..k - 1 : a[i] = s[i]
    BY <1>1, <1>a, PrefixFacts
  <1>3. b \in Seq(S) /\ Len(b) = n - k /\ \A i \in 1..n - k : b[i] = s[k + i]
    <2>1. \A i \in k + 1..n : s[i] \in S
      BY <1>1
    <2>2. k + 1 \in Int /\ n \in Int
      BY <1>1
    <2>3. /\ b \in Seq(S)
          /\ Len(b) = IF k + 1 <= n THEN n - (k + 1) + 1 ELSE 0
          /\ \A i \in 1..n - (k + 1) + 1 : b[i] = s[k + 1 + i - 1]
      BY <1>b, <2>1, <2>2, SubSeqProperties
    <2> QED
      BY <2>2, <2>3
  <1>4. t \in Seq(S) /\ Len(t) = n - 1
        /\ \A i \in 1..n - 1 : t[i] = IF i <= k - 1 THEN a[i] ELSE b[i - (k - 1)]
    <2>1. t = a \o b
      BY <1>a, <1>b
    <2>2. /\ t \in Seq(S) /\ Len(t) = Len(a) + Len(b)
          /\ \A i \in 1..Len(a) + Len(b) :
               t[i] = IF i <= Len(a) THEN a[i] ELSE b[i - Len(a)]
      <3>1. a \in Seq(S) /\ b \in Seq(S)
        BY <1>2, <1>3
      <3>2. a \o b \in Seq(S) /\ Len(a \o b) = Len(a) + Len(b)
        BY <3>1, ConcatProperties
      <3>3. ASSUME NEW i \in 1..Len(a) + Len(b)
            PROVE  (a \o b)[i] = IF i <= Len(a) THEN a[i] ELSE b[i - Len(a)]
        BY <3>1, ConcatProperties
      <3> QED
        BY <2>1, <3>2, <3>3
    <2>3. Len(a) = k - 1 /\ Len(a) + Len(b) = n - 1
      BY <1>2, <1>3
    <2> QED
      BY <2>2, <2>3
  <1>5. ASSUME NEW i \in 1..n - 1 PROVE t[i] = IF i < k THEN s[i] ELSE s[i + 1]
    <2>1. CASE i < k
      BY <2>1, <1>2, <1>4
    <2>2. CASE i >= k
      <3>1. i - (k - 1) \in 1..n - k /\ k + (i - (k - 1)) = i + 1
        BY <2>2
      <3>2. t[i] = b[i - (k - 1)]
        <4>1. ~(i <= k - 1)
          BY <2>2
        <4> QED
          BY <4>1, <1>4
      <3> QED
        BY <2>2, <3>1, <3>2, <1>3
    <2> QED
      BY <2>1, <2>2
  <1> QED
    BY <1>4, <1>5

\* A sequence stays without repetition when a place is left out.
LEMMA WithoutPlaceDistinct ==
  ASSUME NEW S, NEW s \in Seq(S), Distinct(s), NEW k \in 1..Len(s), NEW n \in k..Len(s),
         NEW t, t = SubSeq(s, 1, k - 1) \o SubSeq(s, k + 1, n)
  PROVE  Distinct(t)
  <1>1. /\ t \in Seq(S) /\ Len(t) = n - 1
        /\ \A i \in 1..n - 1 : t[i] = IF i < k THEN s[i] ELSE s[i + 1]
    BY WithoutPlace
  <1>2. \A i, j \in 1..Len(s) : s[i] = s[j] => i = j
    BY DEF Distinct
  <1>3. ASSUME NEW i \in 1..n - 1, NEW j \in 1..n - 1, t[i] = t[j]
        PROVE  i = j
    <2> DEFINE p(u) == IF u < k THEN u ELSE u + 1
    <2>1. p(i) \in 1..Len(s) /\ p(j) \in 1..Len(s) /\ t[i] = s[p(i)] /\ t[j] = s[p(j)]
      BY <1>1, SMTT(20)
    <2>2. p(i) = p(j)
      BY <2>1, <1>2, <1>3
    <2> QED
      BY <2>2
  <1>4. DOMAIN t = 1..n - 1
    BY <1>1
  <1> QED
    BY <1>3, <1>4 DEF Distinct

LEMMA DropType ==
  ASSUME NEW S, NEW s \in Seq(S), NEW e
  PROVE  Drop(s, e) \in Seq(S)
  <1> DEFINE places == {k \in DOMAIN s : s[k] = e}
             k == CHOOSE k \in places : TRUE
  <1>1. CASE places = {}
    BY <1>1 DEF Drop
  <1>2. CASE places # {}
    <2>1. k \in 1..Len(s)
      BY <1>2
    <2>2. Len(s) \in k..Len(s)
      BY <2>1
    <2>3. SubSeq(s, 1, k - 1) \o SubSeq(s, k + 1, Len(s)) \in Seq(S)
      BY <2>1, <2>2, WithoutPlace
    <2> QED
      BY <1>2, <2>3 DEF Drop
  <1> QED
    BY <1>1, <1>2

LEMMA DropsItsPlace ==
  ASSUME NEW S, NEW s \in Seq(S), Distinct(s), NEW i \in 1..Len(s)
  PROVE  Drop(s, s[i]) = SubSeq(s, 1, i - 1) \o SubSeq(s, i + 1, Len(s))
  <1>1. {k \in DOMAIN s : s[k] = s[i]} = {i}
    BY DEF Distinct
  <1>2. (CHOOSE k \in {i} : TRUE) = i
    OBVIOUS
  <1> QED
    BY <1>1, <1>2 DEF Drop

-----------------------------------------------------------------------------
LEMMA SourcesFacts ==
  ASSUME RtpTypeOK, Distinct(csrc), InArray
  PROVE  /\ Sources \in Seq(Csrc) /\ Len(Sources) = cc
         /\ \A i \in 1..cc : Sources[i] = csrc[i]
         /\ Distinct(Sources)
         /\ cc = Len(csrc) => Sources = csrc
  <1>1. cc \in 0..Len(csrc) /\ csrc \in Seq(Csrc)
    <2>1. cc \in 0 .. CcMod - 1 /\ csrc \in Seq(Csrc) /\ cc <= Len(csrc)
      BY DEF RtpTypeOK, InArray
    <2> QED
      BY <2>1, CcAssumption
  <1>2. /\ Sources \in Seq(Csrc) /\ Len(Sources) = cc
        /\ \A i \in 1..cc : Sources[i] = csrc[i]
    BY <1>1, PrefixFacts DEF Sources
  <1>3. Distinct(Sources)
    <2>1. DOMAIN Sources = 1..cc /\ 1..cc \subseteq DOMAIN csrc
      BY <1>1, <1>2
    <2> QED
      BY <1>2, <2>1 DEF Distinct
  <1>4. cc = Len(csrc) => Sources = csrc
    BY <1>1, <1>2, SeqEqual
  <1> QED
    BY <1>2, <1>3, <1>4

LEMMA RtpInitInv == RtpInit => RtpInv
  <1> SUFFICES ASSUME RtpInit PROVE RtpInv
    OBVIOUS
  <1> USE DEF RtpInit
  <1>1. RtpTypeOK
    <2>1. 0 \in 0 .. CcMod - 1
      BY CcAssumption
    <2>2. <<>> \in Seq(Csrc)
      OBVIOUS
    <2> QED
      BY <2>1, <2>2 DEF RtpTypeOK
  <1>2. HeaderInv
    BY DEF HeaderInv, Distinct
  <1>3. SourcesInv
    <2>1. InArray
      BY DEF InArray
    <2> QED
      BY <2>1, SubSeqEmpty DEF SourcesInv, Sources
  <1>4. DatagramInv
    <2>1. datagram \in Datagram
      BY CcAssumption DEF NoDatagram, Datagram
    <2>2. Leads(datagram)
      BY DEF NoDatagram, Leads
    <2> QED
      BY <2>1, <2>2 DEF DatagramInv
  <1>5. ReceivesWhatWasSent /\ FaultsHaveCauses
    BY DEF ReceivesWhatWasSent, FaultsHaveCauses
  <1> QED
    BY <1>1, <1>2, <1>3, <1>4, <1>5 DEF RtpInv

\* Steps that leave what is on its way alone.
LEMMA SameDatagram ==
  ASSUME RtpInv, UNCHANGED datagram
  PROVE  DatagramInv'
  BY DEF RtpInv, DatagramInv, Leads, Tells

\* A list that is one source longer.
LEMMA AddCsrcInv == ASSUME RtpInv, NEW src \in Csrc, AddCsrc(src) PROVE RtpInv'
  <1> USE DEF RtpInv, AddCsrc, Edit
  <1>1. cc \in Nat /\ cc + 1 \in 0 .. CcMod - 1
    <2>1. cc \in 0 .. CcMod - 1 /\ CcMod \in Nat \ {0} /\ (cc + 1) % CcMod # 0
      <3>1. cc \in 0 .. CcMod - 1 /\ (cc + 1) % CcMod # 0
        BY DEF RtpTypeOK
      <3> QED
        BY <3>1, CcAssumption
    <2>2. CcMod % CcMod = 0
      BY <2>1
    <2>3. cc + 1 # CcMod
      BY <2>1, <2>2
    <2> QED
      BY <2>1, <2>3
  <1>2. /\ Sources \in Seq(Csrc) /\ Len(Sources) = cc /\ Distinct(Sources)
        /\ \A i \in 1..cc : Sources[i] # src
    <2>1. Sources \in Seq(Csrc) /\ Len(Sources) = cc /\ Distinct(Sources)
      BY SourcesFacts DEF HeaderInv
    <2> QED
      BY <2>1 DEF Finds
  <1>3. /\ csrc' \in Seq(Csrc) /\ Len(csrc') = cc + 1
        /\ \A i \in 1..cc : csrc'[i] = Sources[i]
        /\ csrc'[cc + 1] = src
    BY <1>2, AppendProperties
  <1>4. Distinct(csrc')
    <2>1. DOMAIN csrc' = 1 .. cc + 1 /\ DOMAIN Sources = 1..cc
      BY <1>1, <1>2, <1>3
    <2>2. ASSUME NEW i \in 1 .. cc + 1, NEW j \in 1 .. cc + 1, csrc'[i] = csrc'[j]
          PROVE  i = j
      <3>1. CASE i = cc + 1 \/ j = cc + 1
        BY <1>1, <1>2, <1>3, <2>2, <3>1
      <3>2. CASE i \in 1..cc /\ j \in 1..cc
        BY <1>2, <1>3, <2>1, <2>2, <3>2 DEF Distinct
      <3> QED
        BY <1>1, <3>1, <3>2
    <2> QED
      BY <2>1, <2>2 DEF Distinct
  <1>5. RtpTypeOK'
    <2>1. added \in Seq(Csrc) /\ added' = IF spoiled THEN <<>> ELSE Append(added, src)
      BY DEF RtpTypeOK
    <2>2. added' \in Seq(Csrc)
      BY <2>1, AppendProperties
    <2> QED
      BY <1>1, <1>3, <2>2 DEF RtpTypeOK
  <1>6. HeaderInv'
    BY <1>4 DEF HeaderInv
  <1>7. SourcesInv'
    <2> SUFFICES ASSUME ~spoiled PROVE InArray' /\ Sources' = added'
      BY DEF SourcesInv
    <2>1. added' = csrc'
      BY DEF SourcesInv
    <2>2. cc' = Len(csrc')
      BY <1>3
    <2>3. InArray'
      BY <1>1, <2>2 DEF InArray
    <2>4. SubSeq(csrc', 1, cc') = csrc'
      <3>1. cc' \in 0..Len(csrc')
        BY <1>1, <2>2
      <3> QED
        BY <1>3, <2>2, <3>1, PrefixFacts, SeqEqual
    <2> QED
      BY <2>1, <2>3, <2>4 DEF Sources
  <1>8. DatagramInv'
    BY SameDatagram
  <1>9. ReceivesWhatWasSent' /\ FaultsHaveCauses'
    BY DEF ReceivesWhatWasSent, FaultsHaveCauses, Running
  <1> QED
    BY <1>5, <1>6, <1>7, <1>8, <1>9

LEMMA RemoveCsrcInv ==
  ASSUME RtpInv, NEW src \in Csrc, NEW i \in 1..Len(csrc), RemoveCsrc(src, i)
  PROVE  RtpInv'
  <1> USE DEF RtpInv, RemoveCsrc, Edit
  <1>1. /\ cc \in 0 .. CcMod - 1 /\ csrc \in Seq(Csrc) /\ cc \in 0..Len(csrc)
        /\ i \in 1..cc /\ CcMod \in Nat
    <2>1. /\ cc \in 0 .. CcMod - 1 /\ csrc \in Seq(Csrc) /\ cc <= Len(csrc) /\ i <= cc
      BY DEF RtpTypeOK, InArray
    <2> QED
      BY <2>1, CcAssumption
  <1>2. /\ csrc' \in Seq(Csrc) /\ Len(csrc') = cc - 1
        /\ \A j \in 1..cc - 1 : csrc'[j] = IF j < i THEN csrc[j] ELSE csrc[j + 1]
    BY <1>1, WithoutPlace
  <1>3. Distinct(csrc')
    <2>1. Distinct(csrc) /\ csrc' = SubSeq(csrc, 1, i - 1) \o SubSeq(csrc, i + 1, cc)
      BY DEF HeaderInv
    <2>2. cc \in i..Len(csrc)
      BY <1>1
    <2> QED
      BY <1>1, <2>1, <2>2, WithoutPlaceDistinct
  <1>4. RtpTypeOK'
    <2>1. added' \in Seq(Csrc)
      BY DropType DEF RtpTypeOK
    <2>2. cc' \in 0 .. CcMod - 1
      BY <1>1
    <2> QED
      BY <1>2, <2>1, <2>2 DEF RtpTypeOK
  <1>5. HeaderInv'
    BY <1>3 DEF HeaderInv
  <1>6. SourcesInv'
    <2> SUFFICES ASSUME ~spoiled PROVE InArray' /\ Sources' = added'
      BY DEF SourcesInv
    <2>1. PICK t \in Seq(Csrc) : t = csrc'
      BY <1>2
    <2>a. PICK n \in Nat : n = cc' /\ n = Len(t)
      BY <1>1, <1>2, <2>1
    <2>2. InArray'
      BY <2>1, <2>a DEF InArray
    <2>3. Sources' = csrc'
      <3>1. n \in 0..Len(t)
        BY <2>a
      <3>2. SubSeq(t, 1, n) = t
        BY <2>a, <3>1, PrefixFacts, SeqEqual
      <3> QED
        BY <2>1, <2>a, <3>2 DEF Sources
    <2>4. added' = csrc'
      <3>1. PICK s : s = Sources
        OBVIOUS
      <3>2. /\ s \in Seq(Csrc) /\ Len(s) = cc /\ Distinct(s) /\ s = added
            /\ \A j \in 1..cc : s[j] = csrc[j]
        BY <3>1, SourcesFacts DEF HeaderInv, SourcesInv
      <3>3. added' = SubSeq(s, 1, i - 1) \o SubSeq(s, i + 1, cc)
        <4>1. i \in 1..Len(s) /\ s[i] = src
          BY <1>1, <3>2
        <4> QED
          BY <3>2, <4>1, DropsItsPlace
      <3>4. /\ added' \in Seq(Csrc) /\ Len(added') = cc - 1
            /\ \A j \in 1..cc - 1 : added'[j] = IF j < i THEN s[j] ELSE s[j + 1]
        <4>1. i \in 1..Len(s) /\ cc \in i..Len(s)
          BY <1>1, <3>2
        <4>2. PICK u : u = SubSeq(s, 1, i - 1) \o SubSeq(s, i + 1, cc)
          OBVIOUS
        <4>3. /\ u \in Seq(Csrc) /\ Len(u) = cc - 1
              /\ \A j \in 1..cc - 1 : u[j] = IF j < i THEN s[j] ELSE s[j + 1]
          <5>1. s \in Seq(Csrc)
            BY <3>2
          <5> HIDE DEF RtpInv, RemoveCsrc, Edit
          <5>2. u \in Seq(Csrc) /\ Len(u) = cc - 1
            BY <5>1, <4>1, <4>2, WithoutPlace
          <5>3. ASSUME NEW j \in 1..cc - 1 PROVE u[j] = IF j < i THEN s[j] ELSE s[j + 1]
            BY <5>1, <4>1, <4>2, WithoutPlace
          <5> QED
            BY <5>2, <5>3
        <4> QED
          BY <3>3, <4>2, <4>3
      <3>5. ASSUME NEW j \in 1..cc - 1 PROVE added'[j] = csrc'[j]
        <4>1. j \in 1..cc /\ j + 1 \in 1..cc
          BY <1>1
        <4> QED
          BY <1>2, <3>2, <3>4, <4>1
      <3> QED
        BY <1>2, <3>4, <3>5, SeqEqual
    <2> QED
      BY <2>2, <2>3, <2>4
  <1>7. DatagramInv'
    BY SameDatagram
  <1>8. ReceivesWhatWasSent' /\ FaultsHaveCauses'
    BY DEF ReceivesWhatWasSent, FaultsHaveCauses, Running
  <1> QED
    BY <1>4, <1>5, <1>6, <1>7, <1>8

LEMMA RecreateInv == ASSUME RtpInv, Recreate PROVE RtpInv'
  <1> USE DEF RtpInv, Recreate
  <1>1. CASE extdata = "freed"
    <2>1. fault' = "double free" /\ UNCHANGED <<header, payload, use, spoiled, datagram>>
      BY <1>1
    <2> HIDE DEF Recreate
    <2>2. RtpTypeOK' /\ HeaderInv' /\ SourcesInv'
      BY <2>1 DEF header, RtpTypeOK, HeaderInv, SourcesInv, InArray, Sources
    <2>3. DatagramInv'
      BY <2>1, SameDatagram
    <2>4. ReceivesWhatWasSent'
      BY <2>1 DEF header, ReceivesWhatWasSent, Sent, Sources, SendsExt, Payload
    <2>5. FaultsHaveCauses'
      BY <1>1, <2>1 DEF header, FaultsHaveCauses
    <2> QED
      BY <2>2, <2>3, <2>4, <2>5
  <1>2. CASE extdata # "freed"
    <2>1. /\ cc' = 0 /\ csrc' = <<>> /\ x' = FALSE /\ extdata' = "null" /\ extcount' = 0
          /\ added' = <<>> /\ payload' = NoPayload /\ use' = "new" /\ spoiled' = FALSE
          /\ UNCHANGED <<fault, datagram>>
      BY <1>2 DEF EmptyHeader
    <2>2. fault = "none"
      BY DEF Running
    <2> HIDE DEF Recreate
    <2>3. RtpTypeOK'
      <3>1. 0 \in 0 .. CcMod - 1
        BY CcAssumption
      <3>2. <<>> \in Seq(Csrc)
        OBVIOUS
      <3> QED
        BY <2>1, <3>1, <3>2 DEF RtpTypeOK
    <2>4. HeaderInv'
      BY <2>1 DEF HeaderInv, Distinct
    <2>5. SourcesInv'
      <3>1. InArray'
        BY <2>1 DEF InArray
      <3>2. SubSeq(<<>>, 1, 0) = <<>>
        BY SubSeqEmpty
      <3> QED
        BY <2>1, <3>1, <3>2 DEF SourcesInv, Sources
    <2>6. DatagramInv'
      BY <2>1, SameDatagram
    <2>7. ReceivesWhatWasSent' /\ FaultsHaveCauses'
      BY <2>1, <2>2 DEF ReceivesWhatWasSent, FaultsHaveCauses
    <2> QED
      BY <2>3, <2>4, <2>5, <2>6, <2>7
  <1> QED
    BY <1>1, <1>2

LEMMA FindBeyondInv == ASSUME RtpInv, FindBeyond PROVE RtpInv'
  <1> USE DEF RtpInv
  <1>1. fault' = "overread" /\ UNCHANGED <<header, payload, use, spoiled, datagram>>
    BY DEF FindBeyond
  <1>2. spoiled
    BY DEF FindBeyond, SourcesInv
  <1>3. RtpTypeOK' /\ HeaderInv' /\ SourcesInv'
    BY <1>1 DEF header, RtpTypeOK, HeaderInv, SourcesInv, InArray, Sources
  <1>4. DatagramInv'
    BY <1>1, SameDatagram
  <1>5. ReceivesWhatWasSent'
    BY <1>1 DEF header, ReceivesWhatWasSent, Sent, Sources, SendsExt, Payload
  <1>6. FaultsHaveCauses'
    BY <1>1, <1>2 DEF header, FaultsHaveCauses
  <1> QED
    BY <1>3, <1>4, <1>5, <1>6

\* The list is one short of full, since the count has no more bits.
LEMMA AddCsrcWrapsInv == ASSUME RtpInv, NEW src, AddCsrcWraps(src) PROVE RtpInv'
  <1> USE DEF RtpInv
  <1>1. /\ fault' = "wild store" /\ use' = "used"
        /\ UNCHANGED <<header, payload, spoiled, datagram>>
    BY DEF AddCsrcWraps, Edit
  <1>2. cc = CcMod - 1
    <2>1. cc \in 0 .. CcMod - 1 /\ CcMod \in Nat \ {0} /\ (cc + 1) % CcMod = 0
      <3>1. cc \in 0 .. CcMod - 1 /\ (cc + 1) % CcMod = 0
        BY DEF AddCsrcWraps, RtpTypeOK
      <3> QED
        BY <3>1, CcAssumption
    <2>2. cc + 1 < CcMod => (cc + 1) % CcMod = cc + 1
      BY <2>1
    <2> QED
      BY <2>1, <2>2
  <1>3. RtpTypeOK' /\ HeaderInv' /\ SourcesInv'
    BY <1>1 DEF header, RtpTypeOK, HeaderInv, SourcesInv, InArray, Sources
  <1>4. DatagramInv'
    BY <1>1, SameDatagram
  <1>5. ReceivesWhatWasSent'
    BY <1>1 DEF ReceivesWhatWasSent
  <1>6. FaultsHaveCauses'
    BY <1>1, <1>2 DEF header, FaultsHaveCauses
  <1> QED
    BY <1>3, <1>4, <1>5, <1>6

\* Calls that change the extension, x or the payload of a packet, which is then used.
LEMMA ExtensionInv ==
  ASSUME RtpInv, Edit, UNCHANGED <<cc, csrc, added>>,
         x' \in BOOLEAN, extdata' \in {"null", "set", "freed"}, extcount' \in Nat,
         payload' \in Nat \union {NoPayload},
         extdata' = "freed" => extcount' = 0,
         fault' = "none" \/ (fault' = "double free" /\ extdata' = "freed")
  PROVE  RtpInv'
  <1> USE DEF RtpInv, Edit
  <1>1. RtpTypeOK' /\ HeaderInv' /\ SourcesInv'
    BY DEF RtpTypeOK, HeaderInv, SourcesInv, InArray, Sources
  <1>2. DatagramInv'
    BY SameDatagram
  <1>3. ReceivesWhatWasSent'
    BY DEF ReceivesWhatWasSent
  <1>4. FaultsHaveCauses'
    BY DEF FaultsHaveCauses
  <1> QED
    BY <1>1, <1>2, <1>3, <1>4

LEMMA ParseShortInv == ASSUME RtpInv, ParseShort PROVE RtpInv'
  <1> USE DEF RtpInv
  <1>1. /\ cc' = datagram.cc /\ x' = datagram.x /\ added' = <<>> /\ spoiled' = TRUE
        /\ use' = "used" /\ fault = "none"
        /\ UNCHANGED <<csrc, extdata, extcount, payload, datagram, fault>>
    BY DEF ParseShort, Running
  <1>2. datagram.cc \in 0 .. CcMod - 1 /\ datagram.x \in BOOLEAN
    <2>1. datagram.cc \in 0 .. WireMod - 1 /\ datagram.x \in BOOLEAN
      BY DEF DatagramInv, Datagram
    <2> QED
      BY <2>1, CcAssumption
  <1>3. RtpTypeOK'
    <2>1. <<>> \in Seq(Csrc)
      OBVIOUS
    <2> QED
      BY <1>1, <1>2, <2>1 DEF RtpTypeOK
  <1>4. HeaderInv' /\ SourcesInv'
    BY <1>1 DEF HeaderInv, SourcesInv
  <1>5. DatagramInv'
    BY <1>1, SameDatagram
  <1>6. ReceivesWhatWasSent' /\ FaultsHaveCauses'
    BY <1>1 DEF ReceivesWhatWasSent, FaultsHaveCauses
  <1> QED
    BY <1>3, <1>4, <1>5, <1>6

\* What is cut still begins with the sources, and is no longer whole.
LEMMA CutInv == ASSUME RtpInv, NEW n \in 0 .. Room, Cut(n) PROVE RtpInv'
  <1> USE DEF RtpInv
  <1>1. /\ n < Len(datagram.words)
        /\ datagram' = [datagram EXCEPT !.words = SubSeq(datagram.words, 1, n), !.damaged = TRUE]
        /\ fault = "none"
        /\ UNCHANGED <<header, payload, use, spoiled, fault>>
    BY DEF Cut, Running
  <1>2. datagram \in Datagram /\ Leads(datagram)
    BY DEF DatagramInv
  <1>3. PICK w \in Seq(Word) : w = datagram.words
    BY <1>2 DEF Datagram
  <1>4. n \in 0..Len(w)
    BY <1>1, <1>3, BoundAssumption
  <1>5. PICK u : u = SubSeq(w, 1, n)
    OBVIOUS
  <1>6. u \in Seq(Word) /\ Len(u) = n /\ \A i \in 1..n : u[i] = w[i]
    BY <1>4, <1>5, PrefixFacts
  <1>7. /\ datagram'.words = u /\ datagram'.damaged = TRUE /\ datagram'.cc = datagram.cc
        /\ datagram' \in Datagram
    BY <1>1, <1>2, <1>3, <1>5, <1>6 DEF Datagram
  <1>8. Leads(datagram')
    <2>1. datagram.cc \in Nat
      BY <1>2, CcAssumption DEF Datagram
    <2>2. ASSUME NEW i \in 1..datagram.cc, i <= n
          PROVE  i \in 1..n /\ i <= Len(w)
      BY <1>4, <2>1, <2>2
    <2> QED
      BY <1>2, <1>3, <1>6, <1>7, <2>1, <2>2 DEF Leads
  <1>9. DatagramInv'
    BY <1>7, <1>8 DEF DatagramInv
  <1>10. RtpTypeOK' /\ HeaderInv' /\ SourcesInv'
    BY <1>1 DEF header, RtpTypeOK, HeaderInv, SourcesInv, InArray, Sources
  <1>11. ReceivesWhatWasSent' /\ FaultsHaveCauses'
    BY <1>1, <1>7 DEF ReceivesWhatWasSent, FaultsHaveCauses
  <1> QED
    BY <1>9, <1>10, <1>11

\* A sequence after another, by place.
LEMMA OneThenOther ==
  ASSUME NEW S, NEW s \in Seq(S), NEW t \in Seq(S)
  PROVE  /\ s \o t \in Seq(S) /\ Len(s \o t) = Len(s) + Len(t)
         /\ \A i \in 1..Len(s) + Len(t) : (s \o t)[i] = IF i <= Len(s) THEN s[i] ELSE t[i - Len(s)]
  BY ConcatProperties

\* The words of a packet: its sources, its extension with the count first, its payload.
LEMMA SentWords ==
  ASSUME RtpTypeOK, Distinct(csrc), csrc # <<>> => InArray, ~Misplaced,
         NEW S, S = IF csrc = <<>> THEN <<>> ELSE Sources,
         NEW W, W = SentHeader \o Data(Payload)
  PROVE  /\ S \in Seq(Csrc) /\ Distinct(S) /\ Len(S) = IF csrc = <<>> THEN 0 ELSE cc
         /\ W \in Seq(Word)
         /\ Len(W) = Len(S) + (IF SendsExt THEN 1 + extcount ELSE 0) + Payload
         /\ \A i \in 1..Len(S) : W[i] = S[i]
         /\ SendsExt => W[Len(S) + 1] = extcount
  <1>1. S \in Seq(Csrc) /\ Distinct(S) /\ Len(S) = IF csrc = <<>> THEN 0 ELSE cc
    <2>1. CASE csrc = <<>>
      BY <2>1 DEF Distinct
    <2>2. CASE csrc # <<>>
      BY <2>2, SourcesFacts
    <2> QED
      BY <2>1, <2>2
  <1>2. extcount \in Nat /\ Payload \in Nat
    BY DEF RtpTypeOK, Payload
  <1>3. \A n \in Nat : Data(n) \in Seq(Word) /\ Len(Data(n)) = n
    <2> SUFFICES ASSUME NEW n \in Nat PROVE Data(n) \in Seq(Word) /\ Len(Data(n)) = n
      OBVIOUS
    <2>1. Data(n) \in [1..n -> Word]
      BY DEF Data, Word
    <2> QED
      BY <2>1
  <1>4. PICK E : E = IF SendsExt THEN <<extcount>> \o Data(extcount) ELSE <<>>
    OBVIOUS
  <1>5. /\ E \in Seq(Word) /\ Len(E) = (IF SendsExt THEN 1 + extcount ELSE 0)
        /\ SendsExt => E[1] = extcount
    <2>1. CASE ~SendsExt
      BY <1>4, <2>1
    <2>2. CASE SendsExt
      <3>1. PICK D \in Seq(Word) : D = Data(extcount) /\ Len(D) = extcount
        BY <1>2, <1>3
      <3>2. E = <<extcount>> \o D
        BY <1>4, <2>2, <3>1
      <3>3. <<extcount>> \in Seq(Word) /\ Len(<<extcount>>) = 1 /\ <<extcount>>[1] = extcount
        BY <1>2 DEF Word
      <3>4. /\ E \in Seq(Word) /\ Len(E) = 1 + extcount
            /\ E[1] = extcount
        BY <1>2, <3>1, <3>2, <3>3, ConcatProperties
      <3> QED
        BY <2>2, <3>4
    <2> QED
      BY <2>1, <2>2
  <1>6. PICK D \in Seq(Word) : D = Data(Payload) /\ Len(D) = Payload
    BY <1>2, <1>3
  <1>7. S \in Seq(Word)
    <2>1. Csrc \subseteq Word
      BY DEF Word
    <2> QED
      BY <1>1, <2>1
  <1>8. PICK H : H = S \o E
    OBVIOUS
  <1>9. /\ H \in Seq(Word) /\ Len(H) = Len(S) + Len(E)
        /\ \A i \in 1..Len(S) + Len(E) : H[i] = IF i <= Len(S) THEN S[i] ELSE E[i - Len(S)]
    <2>1. S \in Seq(Word) /\ E \in Seq(Word)
      BY <1>5, <1>7
    <2>2. /\ S \o E \in Seq(Word) /\ Len(S \o E) = Len(S) + Len(E)
          /\ \A i \in 1..Len(S) + Len(E) :
               (S \o E)[i] = IF i <= Len(S) THEN S[i] ELSE E[i - Len(S)]
      BY <2>1, OneThenOther, ZenonT(40)
    <2> QED
      BY <1>8, <2>2, Zenon
  <1>10. W = H \o D
    BY <1>4, <1>6, <1>8 DEF SentHeader
  <1>11. /\ W \in Seq(Word) /\ Len(W) = Len(H) + Len(D)
         /\ \A i \in 1..Len(H) + Len(D) : W[i] = IF i <= Len(H) THEN H[i] ELSE D[i - Len(H)]
    <2>1. H \o D \in Seq(Word) /\ Len(H \o D) = Len(H) + Len(D)
      BY <1>6, <1>9, ConcatProperties
    <2>2. ASSUME NEW i \in 1..Len(H) + Len(D)
          PROVE  (H \o D)[i] = IF i <= Len(H) THEN H[i] ELSE D[i - Len(H)]
      BY <1>6, <1>9, ConcatProperties
    <2> QED
      BY <1>10, <2>1, <2>2
  <1>12. Len(S) \in Nat /\ Len(E) \in Nat /\ Len(D) \in Nat
    BY <1>5, <1>6, <1>7
  <1>13. Len(W) = Len(S) + (IF SendsExt THEN 1 + extcount ELSE 0) + Payload
    BY <1>5, <1>6, <1>9, <1>11
  <1>14. ASSUME NEW i \in 1..Len(S) PROVE W[i] = S[i]
    <2>1. i \in 1..Len(S) + Len(E) /\ i <= Len(S)
      BY <1>12
    <2>2. i \in 1..Len(H) + Len(D) /\ i <= Len(H)
      BY <1>9, <1>12
    <2> QED
      BY <1>9, <1>11, <2>1, <2>2
  <1>15. ASSUME SendsExt PROVE W[Len(S) + 1] = extcount
    <2>1. Len(E) >= 1 /\ E[1] = extcount
      BY <1>2, <1>5, <1>15
    <2>a. PICK p \in Nat : p = Len(S) + 1
      BY <1>12
    <2>b. p \in 1..Len(S) + Len(E) /\ ~(p <= Len(S)) /\ p - Len(S) = 1
      BY <1>12, <2>1, <2>a
    <2>2. H[p] = E[1]
      BY <1>9, <2>b
    <2>c. p \in 1..Len(H) + Len(D) /\ p <= Len(H)
      BY <1>9, <1>12, <2>b
    <2>3. W[p] = H[p]
      BY <1>11, <2>c
    <2> QED
      BY <2>1, <2>2, <2>3, <2>a
  <1> QED
    BY <1>1, <1>11, <1>13, <1>14, <1>15

\* A misplaced extension leaves words that go on a wire.
LEMMA MisplacedWords ==
  ASSUME RtpTypeOK, Misplaced PROVE SentHeader \o Data(Payload) \in Seq(Word)
  <1>1. extcount \in Nat /\ Payload \in Nat /\ cc \in Nat
    <2>1. extcount \in Nat /\ Payload \in Nat
      BY DEF RtpTypeOK, Payload
    <2>2. cc \in 0 .. CcMod - 1
      BY DEF RtpTypeOK
    <2> QED
      BY <2>1, <2>2, CcAssumption
  <1>2. ASSUME NEW n \in Nat PROVE Data(n) \in Seq(Word) /\ Len(Data(n)) = n
    <2>1. Data(n) \in [1..n -> Word]
      BY DEF Data, Word
    <2> QED
      BY <2>1
  <1>3. PICK E : E = <<extcount>> \o Data(extcount)
    OBVIOUS
  <1>4. E \in Seq(Word) /\ Len(E) = 1 + extcount
    <2>1. PICK D \in Seq(Word) : D = Data(extcount) /\ Len(D) = extcount
      BY <1>1, <1>2
    <2>2. <<extcount>> \in Seq(Word) /\ Len(<<extcount>>) = 1
      BY <1>1 DEF Word
    <2> QED
      BY <1>1, <1>3, <2>1, <2>2, ConcatProperties
  <1>5. PICK Z : Z = [i \in 1..cc |-> 0]
    OBVIOUS
  <1>6. Z \in Seq(Word) /\ Len(Z) = cc
    <2>1. Z \in [1..cc -> Word]
      BY <1>5 DEF Word
    <2> QED
      BY <1>1, <1>5, <2>1
  <1>7. PICK A \in Seq(Word) : A = Z \o E /\ Len(A) = cc + 1 + extcount
    <2>1. Z \o E \in Seq(Word) /\ Len(Z \o E) = Len(Z) + Len(E)
      BY <1>4, <1>6, ConcatProperties
    <2>2. Len(Z \o E) = cc + 1 + extcount
      BY <1>1, <1>4, <1>6, <2>1
    <2> QED
      BY <2>1, <2>2
  <1>8. PICK p : p = 1 + extcount
    OBVIOUS
  <1>9. p \in 0..Len(A)
    BY <1>1, <1>7, <1>8
  <1>10. SubSeq(A, 1, p) \in Seq(Word)
    BY <1>9, PrefixFacts
  <1>11. SentHeader = SubSeq(A, 1, p)
    BY <1>3, <1>5, <1>7, <1>8, Zenon DEF SentHeader, Misplaced
  <1>12. Data(Payload) \in Seq(Word)
    BY <1>1, <1>2
  <1> QED
    BY <1>10, <1>11, <1>12, ConcatProperties

\* A datagram sent is whole and says what was sent, if the count of sources fits and the
\* extension has its place.
LEMMA SerializeInv == ASSUME RtpInv, Serialize PROVE RtpInv'
  <1> USE DEF RtpInv
  <1>1. /\ fault = "none"
        /\ UNCHANGED <<header, payload, use, spoiled>>
        /\ fault' = IF csrc # <<>> /\ ~InArray THEN "overread"
                    ELSE IF SendsExt /\ extdata = "freed" THEN "use after free"
                    ELSE IF SendsExt /\ extcount >= IndexMod THEN "endless loop"
                    ELSE IF Misplaced /\ cc + 1 + extcount > Room THEN "overwrite"
                    ELSE "none"
    BY DEF Serialize, Running
  <1>2. ~(SendsExt /\ extdata = "freed")
    BY DEF SendsExt, HeaderInv
  <1> DEFINE beyond == csrc # <<>> /\ ~InArray
             endless == SendsExt /\ extcount >= IndexMod
             placeless == Misplaced /\ cc + 1 + extcount > Room
  <1>0. Misplaced => spoiled
    <2>1. cc \in 0 .. CcMod - 1
      BY DEF RtpTypeOK
    <2>2. Misplaced => ~InArray
      BY <2>1, CcAssumption DEF Misplaced, InArray
    <2> QED
      BY <2>2 DEF SourcesInv
  <1>3. CASE beyond \/ endless \/ placeless
    <2>1. \/ fault' = "overread" /\ spoiled
          \/ fault' = "endless loop" /\ extcount >= IndexMod
          \/ fault' = "overwrite" /\ spoiled
      <3>1. CASE beyond
        <4>1. spoiled
          BY <3>1 DEF SourcesInv
        <4>2. fault' = "overread"
          BY <1>1, <3>1
        <4> QED
          BY <4>1, <4>2
      <3>2. CASE ~beyond /\ endless
        BY <1>1, <1>2, <3>2
      <3>3. CASE ~beyond /\ ~endless /\ placeless
        BY <1>0, <1>1, <1>2, <3>3
      <3> QED
        BY <1>3, <3>1, <3>2, <3>3
    <2>2. UNCHANGED datagram
      BY <2>1 DEF Serialize
    <2>3. RtpTypeOK' /\ HeaderInv' /\ SourcesInv'
      BY <1>1, <2>1 DEF header, RtpTypeOK, HeaderInv, SourcesInv, InArray, Sources
    <2>4. DatagramInv'
      BY <2>2, SameDatagram
    <2>5. ReceivesWhatWasSent'
      BY <1>1, <2>2 DEF header, ReceivesWhatWasSent, Sent, Sources, SendsExt, Payload
    <2>6. FaultsHaveCauses'
      BY <1>1, <2>1 DEF header, FaultsHaveCauses
    <2> QED
      BY <2>3, <2>4, <2>5, <2>6
  <1>5. CASE ~beyond /\ ~endless /\ ~placeless /\ Misplaced
    <2>1. fault' = "none"
      BY <1>1, <1>2, <1>5
    <2>2. PICK W \in Seq(Word) : W = SentHeader \o Data(Payload)
      BY <1>5, MisplacedWords
    <2>3. csrc = <<>> /\ SendsExt /\ extcount \in Nat /\ Payload \in Nat
      BY <1>5 DEF Misplaced, RtpTypeOK, Payload
    <2>4. Sent = <<(<<>>), extcount, Payload>>
      BY <2>3 DEF Sent
    <2>5. datagram' = [words |-> W, cc |-> 0, x |-> TRUE, damaged |-> TRUE,
                       sent |-> <<(<<>>), extcount, Payload>>]
      BY <1>5, <2>1, <2>2, <2>3, <2>4 DEF Serialize
    <2>6. datagram' \in Datagram
      <3>1. <<(<<>>), extcount, Payload>> \in Seq(Csrc) \X Nat \X Nat
        <4>1. <<>> \in Seq(Csrc)
          OBVIOUS
        <4> QED
          BY <2>3, <4>1
      <3> QED
        BY <2>5, <3>1, CcAssumption DEF Datagram
    <2>7. Leads(datagram')
      BY <2>5 DEF Leads
    <2>8. DatagramInv'
      BY <2>5, <2>6, <2>7 DEF DatagramInv
    <2>9. RtpTypeOK' /\ HeaderInv' /\ SourcesInv'
      BY <1>1, <2>1 DEF header, RtpTypeOK, HeaderInv, SourcesInv, InArray, Sources
    <2>10. ReceivesWhatWasSent'
      BY <2>5 DEF ReceivesWhatWasSent
    <2>11. FaultsHaveCauses'
      BY <2>1 DEF FaultsHaveCauses
    <2> QED
      BY <2>8, <2>9, <2>10, <2>11
  <1>4. CASE ~beyond /\ ~endless /\ ~Misplaced
    <2>1. fault' = "none"
      BY <1>1, <1>2, <1>4
    <2>2. PICK S : S = IF csrc = <<>> THEN <<>> ELSE Sources
      OBVIOUS
    <2>3. PICK W : W = SentHeader \o Data(Payload)
      OBVIOUS
    <2>4. PICK n : n = IF csrc = <<>> THEN 0 ELSE cc % WireMod
      OBVIOUS
    <2>5. PICK flag \in BOOLEAN : flag = SendsExt
      BY DEF SendsExt
    <2>6. PICK extension : extension = IF SendsExt THEN extcount ELSE 0
      OBVIOUS
    <2>7. Sent = <<S, extension, Payload>>
      BY <2>2, <2>6 DEF Sent
    <2>8. datagram' = [words |-> W, cc |-> n, x |-> flag, damaged |-> FALSE,
                       sent |-> <<S, extension, Payload>>]
      <3>1. Misplaced = FALSE
        BY <1>4 DEF Misplaced
      <3> QED
        BY <2>1, <2>3, <2>4, <2>5, <2>7, <3>1 DEF Serialize
    <2>9. /\ S \in Seq(Csrc) /\ Distinct(S) /\ Len(S) = IF csrc = <<>> THEN 0 ELSE cc
          /\ W \in Seq(Word)
          /\ Len(W) = Len(S) + (IF SendsExt THEN 1 + extcount ELSE 0) + Payload
          /\ \A i \in 1..Len(S) : W[i] = S[i]
          /\ SendsExt => W[Len(S) + 1] = extcount
      BY <1>4, <2>2, <2>3, SentWords DEF HeaderInv
    <2>10. extension \in Nat /\ Payload \in Nat /\ (flag <=> extension > 0)
      <3>1. extcount \in Nat /\ Payload \in Nat
        BY DEF RtpTypeOK, Payload
      <3>2. SendsExt => extcount > 0
        BY DEF SendsExt
      <3>3. CASE SendsExt
        BY <2>5, <2>6, <3>1, <3>2, <3>3
      <3>4. CASE ~SendsExt
        BY <2>5, <2>6, <3>1, <3>4
      <3> QED
        BY <3>3, <3>4
    <2>11. n \in 0 .. WireMod - 1 /\ n <= Len(S) /\ (Len(S) < WireMod => n = Len(S))
      <3>1. cc \in Nat
        <4>1. cc \in 0 .. CcMod - 1
          BY DEF RtpTypeOK
        <4> QED
          BY <4>1, CcAssumption
      <3>2. /\ cc % WireMod \in 0 .. WireMod - 1 /\ cc % WireMod <= cc
            /\ cc < WireMod => cc % WireMod = cc
        BY <3>1, CcAssumption
      <3> QED
        BY <2>4, <2>9, <3>1, <3>2, CcAssumption
    <2>12. datagram' \in Datagram
      BY <2>8, <2>9, <2>10, <2>11 DEF Datagram
    <2>13. Leads(datagram')
      <3>1. datagram'.cc = n /\ datagram'.words = W
        BY <2>8
      <3>2. \A i \in 1..n : i \in 1..Len(S) /\ i \in DOMAIN S /\ W[i] = S[i] /\ S[i] \in Csrc
        BY <2>9, <2>11
      <3> QED
        BY <2>9, <3>1, <3>2 DEF Leads, Distinct
    <2>14. Len(S) < WireMod => Tells(datagram')
      <3> SUFFICES ASSUME Len(S) < WireMod PROVE Tells(datagram')
        OBVIOUS
      <3>1. n = Len(S)
        BY <2>11
      <3>2. Len(W) = n + (IF flag THEN 1 + extension ELSE 0) + Payload
        BY <2>5, <2>6, <2>9, <3>1
      <3>3. flag => W[n + 1] = extension
        BY <2>5, <2>6, <2>9, <3>1
      <3> QED
        BY <2>8, <2>9, <2>10, <3>1, <3>2, <3>3 DEF Tells
    <2>15. DatagramInv'
      BY <2>8, <2>12, <2>13, <2>14 DEF DatagramInv
    <2>16. RtpTypeOK' /\ HeaderInv' /\ SourcesInv'
      BY <1>1, <2>1 DEF header, RtpTypeOK, HeaderInv, SourcesInv, InArray, Sources
    <2>17. ReceivesWhatWasSent'
      <3>1. Sent' = Sent
        BY <1>1 DEF header, Sent, Sources, SendsExt, Payload
      <3> QED
        BY <2>7, <2>8, <3>1 DEF ReceivesWhatWasSent
    <2>18. FaultsHaveCauses'
      BY <2>1 DEF FaultsHaveCauses
    <2> QED
      BY <2>15, <2>16, <2>17, <2>18
  <1> QED
    BY <1>3, <1>4, <1>5

\* Reading too far has one of its causes: a whole datagram, whose sources all count,
\* has the words it announces.
LEMMA ParseBeyondInv ==
  ASSUME RtpInv, NEW read \in 0 .. Room, Parse(read),
         datagram.cc + (IF datagram.x THEN 1 + read ELSE 0) > Len(datagram.words)
  PROVE  RtpInv'
  <1> USE DEF RtpInv
  <1>1. fault' = "overread" /\ UNCHANGED <<header, payload, use, spoiled, datagram>>
    BY DEF Parse
  <1>2. datagram \in Datagram /\ datagram # NoDatagram
    BY DEF Parse, DatagramInv
  <1>3. ASSUME ~datagram.damaged, Len(datagram.sent[1]) < WireMod PROVE FALSE
    <2>1. Tells(datagram) /\ datagram.sent # <<>>
      BY <1>2, <1>3 DEF DatagramInv
    <2>2. PICK c \in Nat : c = datagram.cc
      BY <1>2, CcAssumption DEF Datagram
    <2>3. PICK w \in Seq(Word) : w = datagram.words
      BY <1>2 DEF Datagram
    <2>4. datagram.sent \in Seq(Csrc) \X Nat \X Nat
      BY <1>2, <2>1 DEF Datagram
    <2>5. PICK e \in Nat, p \in Nat : e = datagram.sent[2] /\ p = datagram.sent[3]
      BY <2>4
    <2>6. /\ Len(w) = c + (IF datagram.x THEN 1 + e ELSE 0) + p
          /\ datagram.x => w[c + 1] = e
      BY <2>1, <2>2, <2>3, <2>5 DEF Tells
    <2>7. c + (IF datagram.x THEN 1 + read ELSE 0) > Len(w)
      BY <2>2, <2>3
    <2>8. CASE datagram.x
      <3>1. c < Len(w)
        BY <2>6, <2>8
      <3>2. read \in Announced(w[c + 1])
        BY <2>2, <2>3, <2>8, <3>1 DEF Parse
      <3>3. read = e
        BY <2>6, <2>8, <3>2, WordAssumption DEF Announced
      <3> QED
        BY <2>6, <2>7, <2>8, <3>3
    <2>9. CASE ~datagram.x
      BY <2>6, <2>7, <2>9
    <2> QED
      BY <2>8, <2>9
  <1>4. spoiled \/ datagram.damaged \/ Len(datagram.sent[1]) >= WireMod
    <2> SUFFICES ASSUME ~datagram.damaged PROVE Len(datagram.sent[1]) >= WireMod
      OBVIOUS
    <2>1. datagram.sent \in Seq(Csrc) \X Nat \X Nat
      BY <1>2 DEF DatagramInv, Datagram
    <2>2. Len(datagram.sent[1]) \in Nat
      BY <2>1
    <2> QED
      BY <1>3, <2>2, CcAssumption
  <1>5. RtpTypeOK' /\ HeaderInv' /\ SourcesInv'
    BY <1>1 DEF header, RtpTypeOK, HeaderInv, SourcesInv, InArray, Sources
  <1>6. DatagramInv'
    BY <1>1, SameDatagram
  <1>7. ReceivesWhatWasSent'
    BY <1>1 DEF header, ReceivesWhatWasSent, Sent, Sources, SendsExt, Payload
  <1>8. FaultsHaveCauses'
    BY <1>1, <1>4 DEF header, FaultsHaveCauses
  <1> QED
    BY <1>5, <1>6, <1>7, <1>8

\* A datagram that holds what it announces is taken.
LEMMA ParseTakenInv ==
  ASSUME RtpInv, NEW read \in 0 .. Room, Parse(read),
         ~(datagram.cc + (IF datagram.x THEN 1 + read ELSE 0) > Len(datagram.words))
  PROVE  RtpInv'
  <1> USE DEF RtpInv
  <1>1. /\ ParseHeader(read)
        /\ payload' = IF payload # NoPayload THEN payload
                      ELSE Len(datagram.words) - HeaderWords(cc, x)'
        /\ use' = IF use = "new" THEN "received" ELSE "used"
        /\ spoiled' = FALSE /\ fault = "none" /\ UNCHANGED <<fault, datagram>>
        /\ datagram # NoDatagram
        /\ IF datagram.x /\ datagram.cc < Len(datagram.words)
           THEN read \in Announced(datagram.words[datagram.cc + 1])
           ELSE read = 0
    BY DEF Parse, Running
  <1>2. datagram \in Datagram /\ Leads(datagram)
    BY DEF DatagramInv
  <1>3. PICK c \in 0 .. WireMod - 1 : c = datagram.cc
    BY <1>2 DEF Datagram
  <1>4. PICK w \in Seq(Word) : w = datagram.words
    BY <1>2 DEF Datagram
  <1>5. PICK flag \in BOOLEAN : flag = datagram.x
    BY <1>2 DEF Datagram
  <1>6. c \in Nat /\ c \in 0 .. CcMod - 1 /\ read \in Nat /\ Len(w) \in Nat
    BY <1>3, <1>4, CcAssumption, BoundAssumption
  <1>7. c + (IF flag THEN 1 + read ELSE 0) <= Len(w)
    BY <1>3, <1>4, <1>5, <1>6
  <1>8. /\ cc' = c /\ x' = flag
        /\ csrc' = IF c > 0 THEN SubSeq(w, 1, c) ELSE csrc
        /\ added' = IF c > 0 THEN csrc' ELSE <<>>
        /\ extdata' = IF flag THEN "set" ELSE extdata
        /\ extcount' = IF flag THEN read ELSE extcount
    BY <1>1, <1>3, <1>4, <1>5 DEF ParseHeader, Take
  <1>9. PICK t : t = SubSeq(w, 1, c)
    OBVIOUS
  <1>10. t \in Seq(Csrc) /\ Len(t) = c /\ Distinct(t) /\ \A i \in 1..c : t[i] = w[i]
    <2>1. c \in 0..Len(w)
      BY <1>6, <1>7
    <2>2. t \in Seq(Word) /\ Len(t) = c /\ \A i \in 1..c : t[i] = w[i]
      BY <1>9, <2>1, PrefixFacts
    <2>3. \A i \in 1..c : i <= Len(w)
      BY <1>6, <1>7
    <2>4. /\ \A i \in 1..c : w[i] \in Csrc
          /\ \A i, j \in 1..c : w[i] = w[j] => i = j
      BY <1>2, <1>3, <1>4, <2>3 DEF Leads
    <2>5. \A i \in 1..c : t[i] \in Csrc
      BY <2>2, <2>4
    <2>6. t \in Seq(Csrc)
      BY <1>6, <2>2, <2>5
    <2>7. DOMAIN t = 1..c
      BY <1>6, <2>2
    <2> QED
      BY <2>2, <2>4, <2>6, <2>7 DEF Distinct
  <1>11. csrc' \in Seq(Csrc) /\ Distinct(csrc')
    BY <1>8, <1>9, <1>10 DEF RtpTypeOK, HeaderInv
  <1>12. PICK room : room = HeaderWords(cc, x)'
    OBVIOUS
  <1>13. room = (IF csrc' # <<>> THEN c ELSE 0)
                + (IF flag /\ extdata' # "null" /\ extcount' > 0 THEN 1 + extcount' ELSE 0)
    BY <1>8, <1>12 DEF HeaderWords
  <1>14. room \in 0..Len(w)
    <2>1. CASE flag
      BY <1>6, <1>7, <1>8, <1>13, <2>1
    <2>2. CASE ~flag
      BY <1>6, <1>7, <1>8, <1>13, <2>2
    <2> QED
      BY <2>1, <2>2
  <1>15. RtpTypeOK'
    <2>1. added' \in Seq(Csrc)
      BY <1>8, <1>11
    <2>2. payload' \in Nat \union {NoPayload}
      <3>1. Len(w) - room \in Nat
        BY <1>6, <1>14
      <3> QED
        BY <1>1, <1>4, <1>12, <3>1 DEF RtpTypeOK
    <2>3. extdata' \in {"null", "set", "freed"} /\ extcount' \in Nat
      BY <1>6, <1>8 DEF RtpTypeOK
    <2> QED
      BY <1>1, <1>6, <1>8, <1>11, <2>1, <2>2, <2>3 DEF RtpTypeOK
  <1>16. HeaderInv'
    BY <1>1, <1>8, <1>11 DEF HeaderInv
  <1>17. SourcesInv'
    <2>1. CASE c > 0
      <3>1. csrc' = t /\ added' = t /\ cc' = c
        BY <1>8, <1>9, <2>1
      <3>2. InArray'
        BY <1>6, <1>10, <3>1 DEF InArray
      <3>3. SubSeq(t, 1, c) = t
        <4>1. c \in 0..Len(t)
          BY <1>6, <1>10
        <4> QED
          BY <1>10, <4>1, PrefixFacts, SeqEqual
      <3> QED
        BY <3>1, <3>2, <3>3 DEF SourcesInv, Sources
    <2>2. CASE c = 0
      <3>1. cc' = 0 /\ added' = <<>>
        BY <1>8, <2>2
      <3>2. InArray'
        BY <1>11, <3>1 DEF InArray
      <3>3. SubSeq(csrc', 1, 0) = <<>>
        BY SubSeqEmpty
      <3> QED
        BY <3>1, <3>2, <3>3 DEF SourcesInv, Sources
    <2> QED
      BY <1>6, <2>1, <2>2
  <1>18. DatagramInv'
    BY <1>1, SameDatagram
  <1>19. FaultsHaveCauses'
    BY <1>1 DEF FaultsHaveCauses
  <1>20. ReceivesWhatWasSent'
    <2> SUFFICES ASSUME use = "new", ~datagram.damaged, Len(datagram.sent[1]) < WireMod
                 PROVE  Sent' = datagram.sent
      BY <1>1 DEF ReceivesWhatWasSent
    <2>1. csrc = <<>> /\ extdata = "null" /\ extcount = 0 /\ payload = NoPayload
      BY DEF HeaderInv
    <2>2. Tells(datagram) /\ datagram.sent # <<>>
      BY <1>1 DEF DatagramInv
    <2>3. datagram.sent \in Seq(Csrc) \X Nat \X Nat
      BY <1>2, <2>2 DEF Datagram
    <2>4. PICK s \in Seq(Csrc), e \in Nat, p \in Nat : datagram.sent = <<s, e, p>>
      BY <2>3
    <2>5. /\ c = Len(s) /\ (flag <=> e > 0)
          /\ Len(w) = c + (IF flag THEN 1 + e ELSE 0) + p
          /\ \A i \in 1..c : w[i] = s[i]
          /\ flag => w[c + 1] = e
      <3>1. datagram.sent[1] = s /\ datagram.sent[2] = e /\ datagram.sent[3] = p
        BY <2>4
      <3>2. c = Len(s) /\ \A i \in 1..c : w[i] = s[i]
        BY <2>2, <3>1, <1>3, <1>4 DEF Tells
      <3>3. (flag <=> e > 0) /\ (flag => w[c + 1] = e)
        BY <2>2, <3>1, <1>3, <1>4, <1>5 DEF Tells
      <3>4. Len(w) = c + (IF flag THEN 1 + e ELSE 0) + p
        BY <2>2, <3>1, <1>3, <1>4, <1>5 DEF Tells
      <3> QED
        BY <3>2, <3>3, <3>4
    <2>6. flag => read = e
      <3> SUFFICES ASSUME flag PROVE read = e
        OBVIOUS
      <3>1. c < Len(w)
        BY <1>6, <2>5
      <3>2. read \in Announced(w[c + 1])
        BY <1>1, <1>3, <1>4, <1>5, <3>1
      <3> QED
        BY <2>5, <3>2, WordAssumption DEF Announced
    <2>7. t = s
      BY <1>10, <2>5, SeqEqual
    <2>8. s = IF csrc' = <<>> THEN <<>> ELSE Sources'
      <3>1. CASE c > 0
        <4>1. csrc' = t /\ t # <<>> /\ SubSeq(t, 1, c) = t
          <5>1. csrc' = t
            BY <1>8, <1>9, <3>1
          <5>2. t # <<>>
            BY <1>10, <3>1
          <5>3. c \in 0..Len(t) /\ c = Len(t)
            BY <1>6, <1>10
          <5>4. SubSeq(t, 1, c) = t
            BY <1>10, <5>3, PrefixFacts, SeqEqual
          <5> QED
            BY <5>1, <5>2, <5>4
        <4> QED
          BY <1>8, <2>7, <4>1 DEF Sources
      <3>2. CASE c = 0
        <4>1. csrc' = <<>>
          BY <1>8, <2>1, <3>2
        <4>2. s = <<>>
          <5>1. Len(s) = 0 /\ <<>> \in Seq(Csrc) /\ Len(<<>>) = 0
            BY <2>5, <3>2
          <5>2. \A i \in 1..Len(s) : s[i] = <<>>[i]
            BY <5>1
          <5> QED
            BY <5>1, <5>2, SeqEqual
        <4> QED
          BY <4>1, <4>2
      <3> QED
        BY <1>6, <3>1, <3>2
    <2>9. e = IF SendsExt' THEN extcount' ELSE 0
      <3>1. SendsExt' <=> flag /\ extdata' # "null" /\ extcount' > 0
        BY <1>8 DEF SendsExt
      <3>2. CASE flag
        BY <1>8, <2>5, <2>6, <3>1, <3>2
      <3>3. CASE ~flag
        BY <2>5, <3>1, <3>3
      <3> QED
        BY <3>2, <3>3
    <2>10. p = Payload'
      <3>1. (IF csrc' # <<>> THEN c ELSE 0) = c
        <4>1. CASE c > 0
          <5>1. csrc' = t /\ Len(t) > 0
            BY <1>8, <1>9, <1>10, <4>1
          <5>2. csrc' # <<>>
            BY <5>1
          <5> QED
            BY <5>2
        <4>2. CASE c = 0
          BY <4>2
        <4> QED
          BY <1>6, <4>1, <4>2
      <3>2. room = c + (IF flag THEN 1 + e ELSE 0)
        <4>1. CASE flag
          <5>1. extdata' = "set" /\ extcount' = e /\ e > 0
            BY <1>8, <2>5, <2>6, <4>1
          <5> QED
            BY <1>13, <3>1, <4>1, <5>1
        <4>2. CASE ~flag
          BY <1>6, <1>13, <3>1, <4>2
        <4> QED
          BY <4>1, <4>2
      <3>3. payload' = p
        <4>1. payload' = Len(w) - room
          BY <1>1, <1>4, <1>12, <2>1
        <4> QED
          BY <1>6, <2>5, <3>2, <4>1
      <3> QED
        BY <3>3 DEF Payload, NoPayload
    <2> QED
      BY <2>4, <2>8, <2>9, <2>10 DEF Sent
  <1> QED
    BY <1>15, <1>16, <1>17, <1>18, <1>19, <1>20

LEMMA RtpStep == ASSUME RtpInv, [RtpNext]_rtpVars PROVE RtpInv'
  <1>1. CASE Recreate
    BY <1>1, RecreateInv
  <1>2. CASE FindBeyond
    BY <1>2, FindBeyondInv
  <1>a. /\ x \in BOOLEAN /\ extdata \in {"null", "set", "freed"} /\ extcount \in Nat
        /\ payload \in Nat \union {NoPayload}
        /\ extdata = "freed" => extcount = 0
    BY DEF RtpInv, RtpTypeOK, HeaderInv
  <1>3. CASE SetX
    <2>1. /\ Edit /\ fault' = "none" /\ x' = ~x
          /\ UNCHANGED <<cc, csrc, extdata, extcount, added, payload>>
      BY <1>3 DEF SetX, Edit, Running
    <2>2. x' \in BOOLEAN
      BY <2>1, Zenon
    <2>3. /\ UNCHANGED <<cc, csrc, added>> /\ x' \in BOOLEAN
          /\ extdata' \in {"null", "set", "freed"} /\ extcount' \in Nat
          /\ payload' \in Nat \union {NoPayload}
          /\ extdata' = "freed" => extcount' = 0
      BY <1>a, <2>1, <2>2
    <2> QED
      BY <2>1, <2>3, ExtensionInv
  <1>4. ASSUME NEW size \in ExtSizes, SetExtension(size) PROVE RtpInv'
    <2>1. /\ Edit /\ fault' = "none" /\ extdata' = "set" /\ extcount' = size
          /\ UNCHANGED <<cc, csrc, x, added, payload>>
      BY <1>4 DEF SetExtension, Edit, Running
    <2>2. /\ UNCHANGED <<cc, csrc, added>> /\ x' \in BOOLEAN
          /\ extdata' \in {"null", "set", "freed"} /\ extcount' \in Nat
          /\ payload' \in Nat \union {NoPayload}
          /\ extdata' = "freed" => extcount' = 0
      BY <1>a, <2>1, IndexAssumption
    <2> QED
      BY <2>1, <2>2, ExtensionInv
  <1>5. CASE ClearExtension
    <2>1. /\ Edit /\ fault' \in {"none", "double free"} /\ extdata' = "freed" /\ extcount' = 0
          /\ UNCHANGED <<cc, csrc, x, added, payload>>
      BY <1>5 DEF ClearExtension, Edit, Running
    <2> QED
      BY <1>a, <2>1, ExtensionInv
  <1>6. ASSUME NEW size \in ExtSizes, SetPayload(size) PROVE RtpInv'
    <2>1. /\ Edit /\ fault' = "none" /\ payload' = size
          /\ UNCHANGED <<cc, csrc, x, extdata, extcount, added>>
      BY <1>6 DEF SetPayload, Edit, Running, header
    <2>2. /\ UNCHANGED <<cc, csrc, added>> /\ x' \in BOOLEAN
          /\ extdata' \in {"null", "set", "freed"} /\ extcount' \in Nat
          /\ payload' \in Nat \union {NoPayload}
          /\ extdata' = "freed" => extcount' = 0
      BY <1>a, <2>1, IndexAssumption
    <2> QED
      BY <2>1, <2>2, ExtensionInv
  <1>7. CASE ClearPayload \/ ParseBad
    <2>1. /\ Edit /\ fault' = "none" /\ payload' \in {payload, NoPayload}
          /\ UNCHANGED <<cc, csrc, x, extdata, extcount, added>>
      BY <1>7 DEF ClearPayload, ParseBad, Edit, Running, header
    <2>2. /\ UNCHANGED <<cc, csrc, added>> /\ x' \in BOOLEAN
          /\ extdata' \in {"null", "set", "freed"} /\ extcount' \in Nat
          /\ payload' \in Nat \union {NoPayload}
          /\ extdata' = "freed" => extcount' = 0
      BY <1>a, <2>1
    <2> QED
      BY <2>1, <2>2, ExtensionInv
  <1>8. CASE Serialize
    BY <1>8, SerializeInv
  <1>9. CASE ParseShort
    BY <1>9, ParseShortInv
  <1>10. ASSUME NEW src \in Csrc, AddCsrc(src) \/ AddCsrcWraps(src) PROVE RtpInv'
    BY <1>10, AddCsrcInv, AddCsrcWrapsInv
  <1>11. ASSUME NEW src \in Csrc, NEW i \in 1..Len(csrc), RemoveCsrc(src, i) PROVE RtpInv'
    BY <1>11, RemoveCsrcInv
  <1>12. ASSUME NEW n \in 0 .. Room, Cut(n) PROVE RtpInv'
    BY <1>12, CutInv
  <1>13. ASSUME NEW read \in 0 .. Room, Parse(read) PROVE RtpInv'
    BY <1>13, ParseBeyondInv, ParseTakenInv
  <1>14. CASE UNCHANGED rtpVars
    <2>1. UNCHANGED <<cc, csrc, x, extdata, extcount, added, payload, use, spoiled,
                      datagram, fault>>
      BY <1>14 DEF rtpVars, header
    <2>2. RtpTypeOK' /\ HeaderInv' /\ SourcesInv'
      BY <2>1 DEF RtpInv, RtpTypeOK, HeaderInv, SourcesInv, InArray, Sources
    <2>3. DatagramInv'
      BY <2>1, SameDatagram
    <2>4. ReceivesWhatWasSent' /\ FaultsHaveCauses'
      BY <2>1 DEF RtpInv, ReceivesWhatWasSent, Sent, Sources, SendsExt, Payload,
                  FaultsHaveCauses
    <2> QED
      BY <2>2, <2>3, <2>4 DEF RtpInv
  <1>15. CASE SetExtensionRefused \/ SetPayloadRefused \/ SerializeRefused
    BY <1>14, <1>15 DEF SetExtensionRefused, SetPayloadRefused, SerializeRefused
  <1>16. ASSUME NEW src \in Csrc, AddCsrcRefused(src) PROVE RtpInv'
    BY <1>14, <1>16 DEF AddCsrcRefused
  <1> QED
    BY <1>1, <1>2, <1>3, <1>4, <1>5, <1>6, <1>7, <1>8, <1>9, <1>10, <1>11, <1>12, <1>13,
       <1>14, <1>15, <1>16 DEF RtpNext

LEMMA RtpInvariant == RtpPacket => []RtpInv
  <1>1. RtpInit => RtpInv
    BY RtpInitInv
  <1>2. RtpInv /\ [RtpNext]_rtpVars => RtpInv'
    BY RtpStep
  <1> QED
    BY <1>1, <1>2, PTL DEF RtpPacket

\* Type correctness of an RTP packet, for any number of sources and sizes.
THEOREM RtpTypeCorrect == RtpPacket => []RtpTypeOK
  <1>1. RtpInv => RtpTypeOK
    BY DEF RtpInv
  <1> QED
    BY <1>1, RtpInvariant, PTL

\* A new packet that takes a whole datagram, whose sources all count, would send the same.
THEOREM RtpReceivesWhatWasSent == RtpPacket => []ReceivesWhatWasSent
  <1>1. RtpInv => ReceivesWhatWasSent
    BY DEF RtpInv
  <1> QED
    BY <1>1, RtpInvariant, PTL

\* The first cc words are the sources added and not removed, unless a parse failed.
THEOREM RtpListsAdded == RtpPacket => []ListsAdded
  <1>1. RtpInv => ListsAdded
    <2> SUFFICES ASSUME RtpInv, ~spoiled
                 PROVE  /\ InArray /\ Sources = added
                        /\ \A i, j \in 1..cc : added[i] = added[j] => i = j
      BY DEF ListsAdded
    <2>1. InArray /\ Sources = added
      BY DEF RtpInv, SourcesInv
    <2>2. Len(Sources) = cc /\ Distinct(Sources) /\ Sources \in Seq(Csrc)
      BY <2>1, SourcesFacts DEF RtpInv, HeaderInv
    <2>3. DOMAIN Sources = 1..cc
      BY <2>2
    <2> QED
      BY <2>1, <2>2, <2>3 DEF Distinct
  <1> QED
    BY <1>1, RtpInvariant, PTL

\* No call on a packet runs into undefined behaviour but for its four causes.
THEOREM RtpFaultsHaveCauses == RtpPacket => []FaultsHaveCauses
  <1>1. RtpInv => FaultsHaveCauses
    BY DEF RtpInv
  <1> QED
    BY <1>1, RtpInvariant, PTL

-----------------------------------------------------------------------------
\* RtcpSdes
NatPairs == {p \in Nat \X Nat : p[1] < p[2]}

\* Every set of naturals that is not empty has a least one.
LEMMA LeastNatural ==
  ASSUME NEW T \in SUBSET Nat, T # {}
  PROVE  \E n \in T : \A m \in T : n <= m
  <1>1. IsWellFoundedOn(NatPairs, Nat)
    BY NatLessThanWellFounded DEF OpToRel, NatPairs
  <1>2. \E n \in T : \A m \in T : ~(<<m, n>> \in NatPairs)
    BY <1>1, WFMin, Zenon
  <1>3. PICK n \in T : \A m \in T : ~(<<m, n>> \in NatPairs)
    BY <1>2
  <1>4. ASSUME NEW m \in T PROVE n <= m
    <2>1. m < n => <<m, n>> \in NatPairs
      BY DEF NatPairs
    <2>2. ~(<<m, n>> \in NatPairs)
      BY <1>3
    <2> QED
      BY <2>1, <2>2
  <1> QED
    BY <1>4

\* Induction on the naturals up to a bound, over the members of a set.
LEMMA InductionUpTo ==
  ASSUME NEW N \in Nat, NEW T, 0 \in T, \A n \in 1..N : n - 1 \in T => n \in T
  PROVE  0..N \subseteq T
  <1> SUFFICES ASSUME (0..N) \ T # {} PROVE FALSE
    OBVIOUS
  <1>1. (0..N) \ T \in SUBSET Nat
    OBVIOUS
  <1>2. PICK n \in (0..N) \ T : \A m \in (0..N) \ T : n <= m
    BY <1>1, LeastNatural
  <1>3. n \in 1..N /\ n - 1 \in 0..N /\ n - 1 \notin (0..N) \ T
    BY <1>2
  <1> QED
    BY <1>2, <1>3

\* The sums of the first terms of a sequence, up to the n-th.
Sums(terms, sum, n) == /\ sum \in [0..n -> Nat] /\ sum[0] = 0
                       /\ \A k \in 1..n : sum[k] = sum[k - 1] + terms[k]

LEMMA SumsExist ==
  ASSUME NEW terms \in Seq(Nat), NEW N \in 0..Len(terms)
  PROVE  \E sum : Sums(terms, sum, N)
  <1> DEFINE T == {n \in 0..N : \E sum : Sums(terms, sum, n)}
  <1>0. N \in Nat /\ \A k \in 1..N : terms[k] \in Nat
    OBVIOUS
  <1>1. 0 \in T
    <2>1. Sums(terms, [k \in 0..0 |-> 0], 0)
      BY DEF Sums
    <2> QED
      BY <1>0, <2>1
  <1>2. ASSUME NEW n \in 1..N, n - 1 \in T PROVE n \in T
    <2>1. PICK sum : Sums(terms, sum, n - 1)
      BY <1>2
    <2>2. /\ \A k \in 0..n - 1 : sum[k] \in Nat
          /\ sum[0] = 0
          /\ \A k \in 1..n - 1 : sum[k] = sum[k - 1] + terms[k]
      BY <2>1 DEF Sums
    <2>3. PICK last \in Nat : last = sum[n - 1] + terms[n]
      <3>1. n - 1 \in 0..n - 1 /\ n \in 1..N
        BY <1>0
      <3> QED
        BY <1>0, <2>2, <3>1, SMTT(20)
    <2>4. PICK more : more = [k \in 0..n |-> IF k = n THEN last ELSE sum[k]]
      OBVIOUS
    <2>5. more \in [0..n -> Nat] /\ more[0] = 0
      BY <1>0, <2>2, <2>3, <2>4
    <2>6. ASSUME NEW k \in 1..n PROVE more[k] = more[k - 1] + terms[k]
      BY <1>0, <2>2, <2>3, <2>4, SMTT(20)
    <2>7. Sums(terms, more, n)
      BY <2>5, <2>6 DEF Sums
    <2> QED
      BY <1>0, <2>7
  <1>3. 0..N \subseteq T
    <2> HIDE DEF T
    <2> QED
      BY <1>0, <1>1, <1>2, InductionUpTo
  <1> QED
    BY <1>0, <1>3

\* Total is the last of the sums.
LEMMA TotalIs ==
  ASSUME NEW terms \in Seq(Nat), NEW g, Sums(terms, g, Len(terms))
  PROVE  Total(terms) = g[Len(terms)] /\ Total(terms) \in Nat
  <1> DEFINE sum[n \in 0..Len(terms)] == IF n = 0 THEN 0 ELSE sum[n - 1] + terms[n]
             Body(f) == [n \in 0..Len(terms) |-> IF n = 0 THEN 0 ELSE f[n - 1] + terms[n]]
  <1>0. Len(terms) \in Nat /\ Len(terms) \in 0..Len(terms)
    OBVIOUS
  <1>1. sum = CHOOSE f : f = Body(f)
    BY DEF sum
  <1>2. \E f : f = Body(f)
    <2>1. \A n \in 0..Len(terms) : g[n] = IF n = 0 THEN 0 ELSE g[n - 1] + terms[n]
      BY <1>0 DEF Sums
    <2>2. g = [n \in 0..Len(terms) |-> g[n]]
      BY DEF Sums
    <2> QED
      BY <2>1, <2>2
  <1>3. sum = Body(sum)
    BY <1>1, <1>2
  <1>4. PICK f : f = sum
    OBVIOUS
  <1>5. \A n \in 0..Len(terms) : f[n] = IF n = 0 THEN 0 ELSE f[n - 1] + terms[n]
    BY <1>3, <1>4
  <1> DEFINE T == {n \in 0..Len(terms) : f[n] = g[n]}
  <1>6. 0 \in T
    BY <1>0, <1>5 DEF Sums
  <1>7. ASSUME NEW n \in 1..Len(terms), n - 1 \in T PROVE n \in T
    BY <1>0, <1>5, <1>7 DEF Sums
  <1>8. 0..Len(terms) \subseteq T
    <2> HIDE DEF T
    <2> QED
      BY <1>0, <1>6, <1>7, InductionUpTo
  <1>9. f[Len(terms)] = g[Len(terms)] /\ g[Len(terms)] \in Nat
    BY <1>0, <1>8 DEF Sums
  <1> QED
    BY <1>4, <1>9 DEF Total, sum

\* A sum of naturals is a natural.
LEMMA TotalType ==
  ASSUME NEW terms \in Seq(Nat)
  PROVE  Total(terms) \in Nat
  <1>1. PICK f : Sums(terms, f, Len(terms))
    BY SumsExist
  <1> QED
    BY <1>1, TotalIs

\* A sum is that of all terms but the last, and the last.
LEMMA TotalLast ==
  ASSUME NEW n \in Nat, NEW terms \in [1 .. n + 1 -> Nat],
         NEW first \in [1..n -> Nat], \A k \in 1..n : first[k] = terms[k]
  PROVE  Total(terms) = Total(first) + terms[n + 1] /\ Total(first) \in Nat
  <1>1. /\ terms \in Seq(Nat) /\ Len(terms) = n + 1
        /\ first \in Seq(Nat) /\ Len(first) = n
    OBVIOUS
  <1>2. PICK f : Sums(terms, f, n + 1)
    BY <1>1, SumsExist
  <1>3. PICK g : g = [k \in 0..n |-> f[k]]
    OBVIOUS
  <1>4. Sums(first, g, n)
    <2>1. g \in [0..n -> Nat] /\ g[0] = 0
      BY <1>2, <1>3 DEF Sums
    <2>2. ASSUME NEW k \in 1..n PROVE g[k] = g[k - 1] + first[k]
      <3>1. k \in 0..n /\ k - 1 \in 0..n /\ k \in 1 .. n + 1
        OBVIOUS
      <3>2. f[k] = f[k - 1] + terms[k]
        BY <1>2, <3>1 DEF Sums
      <3> QED
        BY <1>3, <3>1, <3>2
    <2> QED
      BY <2>1, <2>2 DEF Sums
  <1>5. Total(terms) = f[n + 1] /\ Total(first) = g[n] /\ Total(first) \in Nat
    BY <1>1, <1>2, <1>4, TotalIs
  <1>6. f[n + 1] = f[n] + terms[n + 1]
    <2>1. n + 1 \in 1 .. n + 1 /\ (n + 1) - 1 = n
      OBVIOUS
    <2> QED
      BY <1>2, <2>1 DEF Sums
  <1>7. g[n] = f[n]
    BY <1>3
  <1> QED
    BY <1>5, <1>6, <1>7

LEMMA TotalEmpty == ASSUME NEW terms, Len(terms) = 0 PROVE Total(terms) = 0
  <1> DEFINE sum[n \in 0..0] == IF n = 0 THEN 0 ELSE sum[n - 1] + terms[n]
             Body(f) == [n \in 0..0 |-> IF n = 0 THEN 0 ELSE f[n - 1] + terms[n]]
  <1>1. sum = CHOOSE f : f = Body(f)
    BY DEF sum
  <1>2. [n \in 0..0 |-> 0] = Body([n \in 0..0 |-> 0])
    OBVIOUS
  <1>3. sum = Body(sum)
    BY <1>1, <1>2
  <1>4. sum[0] = 0
    BY <1>3
  <1> QED
    BY <1>4 DEF Total, sum

-----------------------------------------------------------------------------
\* No two entries of one source.
IdsOnce == \A i, j \in DOMAIN srcs : srcs[i].id = srcs[j].id => i = j

\* ItemsAsSet, whatever has come to harm.
ItemsKept ==
  /\ Items(srcs) \subseteq wanted
  /\ \A w \in wanted \ Items(srcs) : <<w[1], w[2]>> \in dropped

TypesOnce(items) == \A k, m \in DOMAIN items : items[k].type = items[m].type => k = m
AllTypesOnce == \A i \in DOMAIN srcs : TypesOnce(srcs[i].items)

\* No source has two items of a type, whatever was received; the other parts of
\* ItemsAsSet are lost with the first datagram that has a source twice.
SdesInv == /\ SdesTypeOK /\ AllTypesOnce
           /\ ~strange => IdsOnce /\ ItemsKept
           /\ HarmHasCauses

LEMMA ItemBytesType ==
  ASSUME NEW items \in Seq(SdesItem)
  PROVE  ItemBytes(items) \in Nat
  <1> DEFINE terms == [k \in 1..Len(items) |-> 2 + items[k].len]
  <1>1. ASSUME NEW k \in 1..Len(items) PROVE 2 + items[k].len \in Nat
    <2>0. items[k] \in SdesItem
      OBVIOUS
    <2>1. items[k].len \in Lengths
      BY <2>0 DEF SdesItem
    <2>2. items[k].len \in Nat
      BY <2>1, LengthsAssumption
    <2> QED
      BY <2>2
  <1>2. terms \in Seq(Nat)
    <2>1. Len(items) \in Nat /\ terms \in [1..Len(items) -> Nat]
      BY <1>1
    <2> QED
      BY <2>1
  <1> QED
    BY <1>2, TotalType DEF ItemBytes

\* The parser's steps and the serializer's entries are of the same bytes: five and the
\* items', up to a word's boundary.
LEMMA StepsAreEntries ==
  ASSUME NEW e \in SdesEntry
  PROVE  /\ SteppedOver(e) = EntryBytes(e)
         /\ EntryBytes(e) \in Nat /\ EndMark(e) \in Nat /\ EndMark(e) < EntryBytes(e)
  <1>1. PICK b \in Nat : b = ItemBytes(e.items)
    BY ItemBytesType DEF SdesEntry
  <1>2. (4 + b) + 4 - ((4 + b) % 4) = ((5 + b + 3) \div 4) * 4
    OBVIOUS
  <1>3. ((5 + b + 3) \div 4) * 4 \in Nat /\ 4 + b < ((5 + b + 3) \div 4) * 4
    OBVIOUS
  <1> QED
    BY <1>1, <1>2, <1>3 DEF SteppedOver, EntryBytes, EndMark

\* The entries before the last are stepped over where they end.
LEMMA BytesBeforeLast ==
  ASSUME NEW entries \in Seq(SdesEntry), entries # <<>>
  PROVE  /\ entries[Len(entries)] \in SdesEntry
         /\ BeforeLast(entries) \in Nat
         /\ SdesBytes(entries) = BeforeLast(entries) + EntryBytes(entries[Len(entries)])
  <1>1. PICK n \in Nat : Len(entries) = n + 1
    <2>1. Len(entries) \in Nat \ {0}
      OBVIOUS
    <2>2. Len(entries) - 1 \in Nat /\ Len(entries) = (Len(entries) - 1) + 1
      BY <2>1
    <2> QED
      BY <2>2
  <1>2. \A i \in 1 .. n + 1 : entries[i] \in SdesEntry
    BY <1>1
  <1>3. PICK terms : terms = [i \in 1 .. n + 1 |-> EntryBytes(entries[i])]
    OBVIOUS
  <1>4. PICK first : first = [i \in 1..n |-> SteppedOver(entries[i])]
    OBVIOUS
  <1>5. terms \in [1 .. n + 1 -> Nat]
    BY <1>2, <1>3, StepsAreEntries
  <1>6. first \in [1..n -> Nat] /\ \A i \in 1..n : first[i] = terms[i]
    BY <1>2, <1>3, <1>4, StepsAreEntries
  <1>7. Total(terms) = Total(first) + terms[n + 1] /\ Total(first) \in Nat
    BY <1>5, <1>6, TotalLast
  <1>8. SdesBytes(entries) = 4 + Total(terms)
    BY <1>1, <1>3 DEF SdesBytes
  <1>9. BeforeLast(entries) = 4 + Total(first)
    <2>1. Len(entries) - 1 = n
      BY <1>1
    <2> QED
      BY <1>4, <2>1 DEF BeforeLast
  <1>10. terms[n + 1] = EntryBytes(entries[n + 1]) /\ terms[n + 1] \in Nat
    BY <1>3, <1>5
  <1>11. PICK t \in Nat, u \in Nat : t = Total(first) /\ u = terms[n + 1]
    BY <1>7, <1>10
  <1>12. SdesBytes(entries) = (4 + t) + u /\ BeforeLast(entries) = 4 + t
    BY <1>7, <1>8, <1>9, <1>11
  <1> QED
    BY <1>1, <1>2, <1>10, <1>11, <1>12

\* The parser looks at no more than a whole datagram has.
LEMMA ReadsInside ==
  ASSUME NEW entries \in Seq(SdesEntry)
  PROVE  /\ SdesBytes(entries) \in Nat /\ ReadTo(entries) \in Nat
         /\ ReadTo(entries) <= SdesBytes(entries)
  <1>1. CASE entries = <<>>
    <2>1. Total([i \in 1..Len(entries) |-> EntryBytes(entries[i])]) = 0
      <3>1. Len([i \in 1..Len(entries) |-> EntryBytes(entries[i])]) = 0
        BY <1>1
      <3> QED
        BY <3>1, TotalEmpty
    <2> QED
      BY <1>1, <2>1 DEF SdesBytes, ReadTo
  <1>2. CASE entries # <<>>
    <2>1. PICK last \in SdesEntry, before \in Nat :
                 /\ last = entries[Len(entries)] /\ before = BeforeLast(entries)
                 /\ SdesBytes(entries) = before + EntryBytes(last)
      BY <1>2, BytesBeforeLast
    <2>2. PICK b \in Nat, m \in Nat : b = EntryBytes(last) /\ m = EndMark(last) /\ m < b
      BY StepsAreEntries
    <2>3. ReadTo(entries) = before + m + 1 /\ SdesBytes(entries) = before + b
      BY <1>2, <2>1, <2>2 DEF ReadTo
    <2> QED
      BY <2>2, <2>3
  <1> QED
    BY <1>1, <1>2

\* An item more: its type, its length and its data.
LEMMA ItemBytesMore ==
  ASSUME NEW items \in Seq(SdesItem), NEW type \in ItemType, NEW len \in Lengths
  PROVE  /\ CreateItem(items, type, len) \in Seq(SdesItem)
         /\ ItemBytes(CreateItem(items, type, len)) = ItemBytes(items) + 2 + len
  <1>1. PICK it \in SdesItem : it = [type |-> type, len |-> len] /\ it.len = len
    <2>1. [type |-> type, len |-> len] \in SdesItem
      BY DEF SdesItem
    <2> QED
      BY <2>1
  <1>2. PICK more : more = CreateItem(items, type, len) /\ more = Append(items, it)
    BY <1>1 DEF CreateItem
  <1>3. PICK n \in Nat : n = Len(items)
    OBVIOUS
  <1>4. /\ more \in Seq(SdesItem) /\ Len(more) = n + 1
        /\ \A k \in 1..n : more[k] = items[k]
        /\ more[n + 1] = it
    BY <1>2, <1>3, AppendProperties
  <1>5. ASSUME NEW k \in 1 .. n + 1 PROVE 2 + more[k].len \in Nat
    <2>1. PICK one \in SdesItem : one = more[k]
      BY <1>4
    <2>2. one.len \in Nat
      BY LengthsAssumption DEF SdesItem
    <2> QED
      BY <2>1, <2>2
  <1>6. PICK terms : terms = [k \in 1 .. n + 1 |-> 2 + more[k].len]
    OBVIOUS
  <1>7. PICK first : first = [k \in 1..n |-> 2 + items[k].len]
    OBVIOUS
  <1>8. terms \in [1 .. n + 1 -> Nat]
    BY <1>5, <1>6
  <1>9. first \in [1..n -> Nat] /\ \A k \in 1..n : first[k] = terms[k]
    BY <1>4, <1>5, <1>6, <1>7
  <1>10. Total(terms) = Total(first) + terms[n + 1] /\ Total(first) \in Nat
    BY <1>8, <1>9, TotalLast
  <1>11. terms[n + 1] = 2 + len /\ len \in Nat
    BY <1>1, <1>4, <1>6, LengthsAssumption
  <1>12. ItemBytes(more) = Total(terms) /\ ItemBytes(items) = Total(first)
    BY <1>3, <1>4, <1>6, <1>7 DEF ItemBytes
  <1>13. PICK t \in Nat : t = Total(first)
    BY <1>10
  <1>14. ItemBytes(more) = t + (2 + len) /\ ItemBytes(items) = t
    BY <1>10, <1>11, <1>12, <1>13
  <1> QED
    BY <1>2, <1>4, <1>11, <1>14

\* Up to the second item of a type the parser looks at no more than a datagram that has
\* it all.
LEMMA RepeatedInside ==
  ASSUME NEW entries \in Seq(SdesEntry), entries # <<>>,
         NEW type \in ItemType, NEW len \in Lengths
  PROVE  /\ BeforeLast(entries) + EndMark(entries[Len(entries)]) + 2 \in Nat
         /\ SdesBytes(WithItem(entries, type, len)) \in Nat
         /\ BeforeLast(entries) + EndMark(entries[Len(entries)]) + 2
              <= SdesBytes(WithItem(entries, type, len))
  <1>1. PICK n \in Nat \ {0} : n = Len(entries)
    OBVIOUS
  <1>2. PICK e \in SdesEntry : e = entries[n]
    BY <1>1
  <1>3. PICK items \in Seq(SdesItem) : items = e.items
    BY DEF SdesEntry
  <1>4. PICK more \in Seq(SdesItem) : /\ more = CreateItem(items, type, len)
                                      /\ ItemBytes(more) = ItemBytes(items) + 2 + len
    BY ItemBytesMore
  <1>5. PICK f \in SdesEntry : f = [e EXCEPT !.items = more] /\ f.items = more
    <2>1. [e EXCEPT !.items = more] \in SdesEntry /\ [e EXCEPT !.items = more].items = more
      BY DEF SdesEntry
    <2> QED
      BY <2>1
  <1>6. PICK all : all = WithItem(entries, type, len) /\ all = [entries EXCEPT ![n] = f]
    BY <1>1, <1>2, <1>3, <1>4, <1>5 DEF WithItem
  <1>7. /\ all \in Seq(SdesEntry) /\ Len(all) = n /\ all # <<>> /\ all[n] = f
        /\ \A i \in 1 .. n - 1 : all[i] = entries[i]
    <2>1. entries \in [1..n -> SdesEntry]
      BY <1>1
    <2>2. all \in [1..n -> SdesEntry] /\ all[n] = f /\ \A i \in 1 .. n - 1 : all[i] = entries[i]
      BY <1>6, <2>1
    <2>3. all \in Seq(SdesEntry) /\ Len(all) = n
      BY <2>2
    <2>4. all # <<>>
      BY <2>3
    <2> QED
      BY <2>2, <2>3, <2>4
  <1>8. BeforeLast(all) = BeforeLast(entries)
    <2>1. [i \in 1 .. n - 1 |-> SteppedOver(all[i])] = [i \in 1 .. n - 1 |-> SteppedOver(entries[i])]
      BY <1>7
    <2> QED
      BY <1>1, <1>7, <2>1 DEF BeforeLast
  <1>9. PICK before \in Nat : before = BeforeLast(entries)
    BY BytesBeforeLast
  <1>10. SdesBytes(all) = before + EntryBytes(f)
    BY <1>7, <1>8, <1>9, BytesBeforeLast
  <1>11. PICK b \in Nat : b = ItemBytes(items)
    BY ItemBytesType
  <1>12. len \in Nat
    BY LengthsAssumption
  <1>13. EndMark(e) = 4 + b /\ EndMark(f) = 4 + (b + 2 + len)
    BY <1>3, <1>4, <1>5, <1>11 DEF EndMark
  <1>14. PICK m \in Nat : m = EntryBytes(f) /\ 4 + (b + 2 + len) < m
    BY <1>13, StepsAreEntries
  <1>15. BeforeLast(entries) + EndMark(entries[Len(entries)]) + 2 = before + (4 + b) + 2
    BY <1>1, <1>2, <1>9, <1>13
  <1>16. SdesBytes(WithItem(entries, type, len)) = before + m
    BY <1>6, <1>10, <1>14
  <1> QED
    BY <1>12, <1>14, <1>15, <1>16

\* What Items says, item by item.
LEMMA ItemsAre ==
  ASSUME NEW entries, NEW w
  PROVE  w \in Items(entries) <=>
           \E i \in DOMAIN entries : \E k \in DOMAIN entries[i].items :
             w = <<entries[i].id, entries[i].items[k].type, entries[i].items[k].len>>
  BY DEF Items, ItemsOf

LEMMA SdesInitInv == SdesInit => SdesInv
  <1> SUFFICES ASSUME SdesInit PROVE SdesInv
    OBVIOUS
  <1>1. /\ srcs = <<>> /\ hollow = FALSE /\ wanted = {} /\ dropped = {} /\ strange = FALSE
        /\ harm = "none" /\ cut = FALSE
    BY DEF SdesInit
  <1>2. SdesTypeOK
    <2>1. hollow \in BOOLEAN /\ strange \in BOOLEAN /\ cut \in BOOLEAN
      BY <1>1
    <2>2. srcs \in Seq(SdesEntry) /\ Len(srcs) <= MaxEntries
      BY <1>1, MaxEntriesAssumption
    <2> QED
      BY <1>1, <2>1, <2>2 DEF SdesTypeOK
  <1>3. IdsOnce /\ AllTypesOnce
    BY <1>1 DEF IdsOnce, AllTypesOnce
  <1>4. ItemsKept
    BY <1>1 DEF ItemsKept, Items
  <1>6. HarmHasCauses
    BY <1>1 DEF HarmHasCauses
  <1> QED
    BY <1>2, <1>3, <1>4, <1>6 DEF SdesInv

\* free_item of the first item, or of none: the others stay.
LEMMA FreedItem ==
  ASSUME NEW items \in Seq(SdesItem), TypesOnce(items), NEW type, ~FreesPast(items, type),
         NEW freed, freed = FreeItem(items, type)
  PROVE  /\ freed \in Seq(SdesItem) /\ TypesOnce(freed)
         /\ \A k \in DOMAIN freed : /\ freed[k].type # type
                                    /\ \E m \in DOMAIN items : items[m] = freed[k]
         /\ \A m \in DOMAIN items :
              items[m].type # type => \E k \in DOMAIN freed : freed[k] = items[m]
  <1>1. CASE PlacesOf(type, items) = {}
    <2>1. freed = items
      BY <1>1 DEF FreeItem
    <2>2. \A m \in DOMAIN items : items[m].type # type
      BY <1>1 DEF PlacesOf
    <2> QED
      BY <2>1, <2>2
  <1>2. CASE PlacesOf(type, items) # {}
    <2>1. freed = Tail(items)
      BY <1>2 DEF FreeItem
    <2>2. Len(items) \in Nat \ {0} /\ items # <<>> /\ items[1].type = type
      BY <1>2 DEF PlacesOf, FreesPast
    <2>3. /\ freed \in Seq(SdesItem) /\ Len(freed) = Len(items) - 1
          /\ \A k \in 1..Len(freed) : freed[k] = items[k + 1]
      BY <2>1, <2>2, HeadTailProperties
    <2>4. DOMAIN items = 1..Len(items) /\ DOMAIN freed = 1..Len(items) - 1
      BY <2>2, <2>3
    <2>5. ASSUME NEW k \in DOMAIN freed
          PROVE  k + 1 \in DOMAIN items /\ freed[k] = items[k + 1] /\ freed[k].type # type
      <3>1. k + 1 \in DOMAIN items /\ freed[k] = items[k + 1] /\ k + 1 # 1 /\ 1 \in DOMAIN items
        BY <2>2, <2>3, <2>4
      <3> QED
        BY <2>2, <3>1 DEF TypesOnce
    <2>6. ASSUME NEW m \in DOMAIN items, items[m].type # type
          PROVE  m - 1 \in DOMAIN freed /\ freed[m - 1] = items[m]
      <3>1. m # 1
        BY <2>2, <2>6
      <3>2. m - 1 \in 1..Len(items) - 1 /\ (m - 1) + 1 = m
        BY <2>4, <3>1
      <3> QED
        BY <2>3, <2>4, <3>2
    <2>7. TypesOnce(freed)
      <3>1. ASSUME NEW k \in DOMAIN freed, NEW m \in DOMAIN freed,
                   freed[k].type = freed[m].type
            PROVE  k = m
        <4>1. k + 1 = m + 1
          BY <2>5, <3>1 DEF TypesOnce
        <4> QED
          BY <2>4, <4>1
      <3> QED
        BY <3>1 DEF TypesOnce
    <2> QED
      BY <2>3, <2>5, <2>6, <2>7
  <1> QED
    BY <1>1, <1>2

\* One entry's items are replaced by others.
LEMMA ItemsReplaced ==
  ASSUME SdesInv, NEW i \in DOMAIN srcs, NEW items \in Seq(SdesItem), TypesOnce(items),
         srcs' = [srcs EXCEPT ![i].items = items]
  PROVE  /\ srcs' \in Seq(SdesEntry) /\ Len(srcs') = Len(srcs)
         /\ AllTypesOnce'
         /\ IdsOnce =>
              /\ IdsOnce'
              /\ \A w : w \in Items(srcs') <=>
                   \/ w \in Items(srcs) /\ w[1] # srcs[i].id
                   \/ \E k \in DOMAIN items : w = <<srcs[i].id, items[k].type, items[k].len>>
  <1>1. srcs \in Seq(SdesEntry) /\ DOMAIN srcs = 1..Len(srcs) /\ srcs[i] \in SdesEntry
    <2>1. srcs \in Seq(SdesEntry)
      BY DEF SdesInv, SdesTypeOK
    <2> QED
      BY <2>1
  <1>2. [srcs[i] EXCEPT !.items = items] \in SdesEntry
    BY <1>1 DEF SdesEntry
  <1>3. srcs' = [srcs EXCEPT ![i] = [srcs[i] EXCEPT !.items = items]]
    OBVIOUS
  <1>4. srcs' \in Seq(SdesEntry) /\ Len(srcs') = Len(srcs) /\ DOMAIN srcs' = DOMAIN srcs
    BY <1>1, <1>2, <1>3
  <1>5. \A j \in DOMAIN srcs : /\ srcs'[j].id = srcs[j].id
                               /\ srcs'[j].items = IF j = i THEN items ELSE srcs[j].items
    BY <1>1, <1>3 DEF SdesEntry
  <1>6. IdsOnce => IdsOnce'
    BY <1>4, <1>5 DEF IdsOnce
  <1>7. AllTypesOnce'
    <2>1. ASSUME NEW j \in DOMAIN srcs' PROVE TypesOnce(srcs'[j].items)
      BY <1>4, <1>5 DEF SdesInv, AllTypesOnce
    <2> QED
      BY <2>1 DEF AllTypesOnce
  <1>8. ASSUME IdsOnce, NEW w
        PROVE  w \in Items(srcs') <=>
                 \/ w \in Items(srcs) /\ w[1] # srcs[i].id
                 \/ \E k \in DOMAIN items : w = <<srcs[i].id, items[k].type, items[k].len>>
    <2>1. w \in Items(srcs') <=> \E j \in DOMAIN srcs' : \E k \in DOMAIN srcs'[j].items :
                             w = <<srcs'[j].id, srcs'[j].items[k].type, srcs'[j].items[k].len>>
      BY DEF Items, ItemsOf
    <2>2. w \in Items(srcs') <=> \E j \in DOMAIN srcs : \E k \in DOMAIN srcs'[j].items :
                             w = <<srcs[j].id, srcs'[j].items[k].type, srcs'[j].items[k].len>>
      BY <1>4, <1>5, <2>1
    <2>3. ASSUME NEW j \in DOMAIN srcs, j # i PROVE srcs[j].id # srcs[i].id
      BY <1>8, <2>3 DEF IdsOnce
    <2>4. ASSUME w \in Items(srcs')
          PROVE  \/ w \in Items(srcs) /\ w[1] # srcs[i].id
                 \/ \E k \in DOMAIN items : w = <<srcs[i].id, items[k].type, items[k].len>>
      <3>1. PICK j \in DOMAIN srcs : \E k \in DOMAIN srcs'[j].items :
                   w = <<srcs[j].id, srcs'[j].items[k].type, srcs'[j].items[k].len>>
        BY <2>2, <2>4
      <3>2. CASE j = i
        BY <1>5, <3>1, <3>2
      <3>3. CASE j # i
        <4>1. srcs'[j].items = srcs[j].items
          BY <1>5, <3>3
        <4>2. w \in Items(srcs)
          BY <3>1, <4>1, ItemsAre
        <4>3. w[1] # srcs[i].id
          BY <2>3, <3>1, <3>3
        <4> QED
          BY <4>2, <4>3
      <3> QED
        BY <3>2, <3>3
    <2>5. ASSUME w \in Items(srcs), w[1] # srcs[i].id PROVE w \in Items(srcs')
      <3>1. PICK j \in DOMAIN srcs : \E k \in DOMAIN srcs[j].items :
                   w = <<srcs[j].id, srcs[j].items[k].type, srcs[j].items[k].len>>
        BY <2>5, ItemsAre
      <3>2. j # i
        BY <2>5, <3>1
      <3> QED
        BY <1>5, <2>2, <3>1, <3>2
    <2>6. ASSUME NEW k \in DOMAIN items, w = <<srcs[i].id, items[k].type, items[k].len>>
          PROVE  w \in Items(srcs')
      BY <1>5, <2>2, <2>6
    <2> QED
      BY <2>4, <2>5, <2>6
  <1> QED
    BY <1>4, <1>6, <1>7, <1>8

\* w is an item of the packet if it was and is not of that type and source, or is new.
AreFreed(i, type, more) ==
  /\ srcs' \in Seq(SdesEntry) /\ Len(srcs') = Len(srcs)
  /\ AllTypesOnce'
  /\ IdsOnce =>
       /\ IdsOnce'
       /\ \A w : w \in Items(srcs') <=>
            \/ w \in Items(srcs) /\ (w[1] # srcs[i].id \/ w[2] # type)
            \/ \E len \in more : w = <<srcs[i].id, type, len>>

\* The item of one type is freed, and another perhaps put last.
LEMMA ItemsAfterFree ==
  ASSUME SdesInv, NEW i \in DOMAIN srcs, NEW type \in ItemType,
         ~FreesPast(srcs[i].items, type),
         NEW freed, freed = FreeItem(srcs[i].items, type),
         NEW more \in SUBSET Lengths, NEW items \in Seq(SdesItem),
         \/ more = {} /\ items = freed
         \/ \E len \in Lengths : more = {len} /\ items = CreateItem(freed, type, len),
         srcs' = [srcs EXCEPT ![i].items = items]
  PROVE  AreFreed(i, type, more)
  <1>1. srcs \in Seq(SdesEntry) /\ srcs[i].items \in Seq(SdesItem) /\ TypesOnce(srcs[i].items)
    <2>1. srcs \in Seq(SdesEntry) /\ TypesOnce(srcs[i].items)
      BY DEF SdesInv, SdesTypeOK, AllTypesOnce
    <2>2. srcs[i] \in SdesEntry
      BY <2>1
    <2> QED
      BY <2>1, <2>2 DEF SdesEntry
  <1>2. /\ freed \in Seq(SdesItem) /\ TypesOnce(freed)
        /\ \A k \in DOMAIN freed : /\ freed[k].type # type
                                   /\ \E m \in DOMAIN srcs[i].items : srcs[i].items[m] = freed[k]
        /\ \A m \in DOMAIN srcs[i].items :
             srcs[i].items[m].type # type => \E k \in DOMAIN freed : freed[k] = srcs[i].items[m]
    BY <1>1, FreedItem
  <1> DEFINE Has(s, it) == \E k \in DOMAIN s : s[k] = it
             Item(len) == [type |-> type, len |-> len]
             Same == \A it : Has(items, it) <=>
                               Has(freed, it) \/ \E len \in more : it = Item(len)
  <1>3. TypesOnce(items) /\ Same
    <2>1. CASE more = {} /\ items = freed
      BY <1>2, <2>1
    <2>2. ASSUME NEW len \in Lengths, more = {len}, items = CreateItem(freed, type, len)
          PROVE  TypesOnce(items) /\ Same
      <3>1. PICK it : it = [type |-> type, len |-> len]
        OBVIOUS
      <3>2. it \in SdesItem /\ items = Append(freed, it)
        BY <2>2, <3>1 DEF CreateItem, SdesItem
      <3>3. /\ Len(items) = Len(freed) + 1 /\ Len(freed) \in Nat
            /\ \A k \in 1..Len(freed) : items[k] = freed[k]
            /\ items[Len(freed) + 1] = it
        BY <1>2, <3>2, AppendProperties
      <3>4. /\ DOMAIN freed = 1..Len(freed)
            /\ DOMAIN items = (DOMAIN freed) \union {Len(freed) + 1}
            /\ Len(freed) + 1 \notin DOMAIN freed
        BY <1>2, <3>3
      <3>5. TypesOnce(items)
        <4>1. items[Len(freed) + 1].type = type
          BY <3>1, <3>3
        <4>2. ASSUME NEW k \in DOMAIN freed PROVE items[k] = freed[k] /\ items[k].type # type
          BY <1>2, <3>3, <3>4
        <4>3. ASSUME NEW k \in DOMAIN items, NEW m \in DOMAIN items,
                     items[k].type = items[m].type
              PROVE  k = m
          <5>1. CASE k \in DOMAIN freed /\ m \in DOMAIN freed
            BY <1>2, <4>2, <4>3, <5>1 DEF TypesOnce
          <5>2. CASE k \notin DOMAIN freed \/ m \notin DOMAIN freed
            BY <3>4, <4>1, <4>2, <4>3, <5>2
          <5> QED
            BY <5>1, <5>2
        <4> QED
          BY <4>3 DEF TypesOnce
      <3> QED
        BY <2>2, <3>1, <3>3, <3>4, <3>5
    <2> QED
      BY <2>1, <2>2
  <1>4. /\ srcs' \in Seq(SdesEntry) /\ Len(srcs') = Len(srcs)
        /\ AllTypesOnce'
        /\ IdsOnce =>
             /\ IdsOnce'
             /\ \A w : w \in Items(srcs') <=>
                  \/ w \in Items(srcs) /\ w[1] # srcs[i].id
                  \/ \E k \in DOMAIN items : w = <<srcs[i].id, items[k].type, items[k].len>>
    BY <1>3, ItemsReplaced
  <1>5. ASSUME IdsOnce, NEW w
        PROVE  (\E k \in DOMAIN items : w = <<srcs[i].id, items[k].type, items[k].len>>) <=>
                 \/ w \in Items(srcs) /\ w[1] = srcs[i].id /\ w[2] # type
                 \/ \E len \in more : w = <<srcs[i].id, type, len>>
    <2>1. ASSUME NEW k \in DOMAIN items, w = <<srcs[i].id, items[k].type, items[k].len>>
          PROVE  \/ w \in Items(srcs) /\ w[1] = srcs[i].id /\ w[2] # type
                 \/ \E len \in more : w = <<srcs[i].id, type, len>>
      <3>1. Has(freed, items[k]) \/ \E len \in more : items[k] = Item(len)
        BY <1>3
      <3>2. CASE Has(freed, items[k])
        <4>1. PICK m \in DOMAIN srcs[i].items : srcs[i].items[m] = items[k]
          BY <1>2, <3>2
        <4>2. items[k].type # type
          BY <1>2, <3>2
        <4>3. w \in Items(srcs)
          BY <2>1, <4>1, ItemsAre
        <4> QED
          BY <2>1, <4>2, <4>3
      <3>3. CASE \E len \in more : items[k] = Item(len)
        BY <2>1, <3>3
      <3> QED
        BY <3>1, <3>2, <3>3
    <2>2. ASSUME w \in Items(srcs), w[1] = srcs[i].id, w[2] # type
          PROVE  \E k \in DOMAIN items : w = <<srcs[i].id, items[k].type, items[k].len>>
      <3>1. PICK j \in DOMAIN srcs : \E m \in DOMAIN srcs[j].items :
                   w = <<srcs[j].id, srcs[j].items[m].type, srcs[j].items[m].len>>
        BY <2>2, ItemsAre
      <3>2. j = i
        BY <1>5, <2>2, <3>1 DEF IdsOnce
      <3>3. PICK m \in DOMAIN srcs[i].items :
                   w = <<srcs[i].id, srcs[i].items[m].type, srcs[i].items[m].len>>
        BY <3>1, <3>2
      <3>4. Has(freed, srcs[i].items[m])
        BY <1>2, <2>2, <3>3
      <3>5. Has(items, srcs[i].items[m])
        BY <1>3, <3>4
      <3> QED
        BY <3>3, <3>5
    <2>3. ASSUME NEW len \in more, w = <<srcs[i].id, type, len>>
          PROVE  \E k \in DOMAIN items : w = <<srcs[i].id, items[k].type, items[k].len>>
      <3>1. Has(items, Item(len))
        BY <1>3
      <3> QED
        BY <2>3, <3>1
    <2> QED
      BY <2>1, <2>2, <2>3
  <1> QED
    BY <1>4, <1>5 DEF AreFreed

\* Steps that come to harm, or to nothing, leave the packet alone.
LEMMA HarmInv ==
  ASSUME SdesInv, UNCHANGED <<srcs, wanted, dropped, strange>>,
         hollow' \in BOOLEAN, cut' \in BOOLEAN,
         harm' \in {"none", "wild store", "bad free", "null read", "misread", "read past"},
         HarmHasCauses'
  PROVE  SdesInv'
  <1>1. SdesTypeOK' /\ (IdsOnce => IdsOnce') /\ AllTypesOnce'
    BY DEF SdesInv, SdesTypeOK, IdsOnce, AllTypesOnce
  <1>2. Items(srcs') = Items(srcs)
    OBVIOUS
  <1>3. ItemsKept => ItemsKept'
    BY <1>2 DEF ItemsKept
  <1>4. ~strange' => IdsOnce' /\ ItemsKept'
    <2>1. strange => strange'
      OBVIOUS
    <2>2. ~strange => IdsOnce /\ ItemsKept
      BY DEF SdesInv
    <2> QED
      BY <1>1, <1>3, <2>1, <2>2
  <1> QED
    BY <1>1, <1>4 DEF SdesInv

LEMMA AddEntryInv == ASSUME SdesInv, NEW id \in Member, AddEntry(id) PROVE SdesInv'
  <1>1. /\ srcs' = Append(srcs, [id |-> id, items |-> <<>>]) /\ Len(srcs) < MaxEntries
        /\ EntryOf(id) = {} /\ harm = "none"
        /\ UNCHANGED <<hollow, wanted, dropped, strange, harm, cut>>
    BY DEF AddEntry, Usable
  <1>2. srcs \in Seq(SdesEntry)
    BY DEF SdesInv, SdesTypeOK
  <1>3. PICK e \in SdesEntry : e.id = id /\ e.items = <<>> /\ srcs' = Append(srcs, e)
    <2>1. [id |-> id, items |-> <<>>] \in SdesEntry
      BY DEF SdesEntry
    <2> QED
      BY <1>1, <2>1
  <1>4. /\ srcs' \in Seq(SdesEntry) /\ Len(srcs') = Len(srcs) + 1 /\ Len(srcs) \in Nat
        /\ \A j \in 1..Len(srcs) : srcs'[j] = srcs[j]
        /\ srcs'[Len(srcs) + 1] = e
    BY <1>2, <1>3, AppendProperties
  <1>5. /\ DOMAIN srcs = 1..Len(srcs) /\ Len(srcs) + 1 \notin DOMAIN srcs
        /\ DOMAIN srcs' = (DOMAIN srcs) \union {Len(srcs) + 1}
    BY <1>2, <1>4
  <1>6. \A j \in DOMAIN srcs : srcs[j].id # id
    BY <1>1 DEF EntryOf
  <1>7. SdesTypeOK'
    <2>1. Len(srcs') <= MaxEntries
      BY <1>1, <1>4, MaxEntriesAssumption
    <2> QED
      BY <1>1, <1>4, <2>1 DEF SdesInv, SdesTypeOK
  <1>8. ASSUME IdsOnce PROVE IdsOnce'
    <2>1. ASSUME NEW j \in DOMAIN srcs', NEW k \in DOMAIN srcs', srcs'[j].id = srcs'[k].id
          PROVE  j = k
      <3>1. CASE j \in DOMAIN srcs /\ k \in DOMAIN srcs
        BY <1>4, <1>5, <1>8, <2>1, <3>1 DEF IdsOnce
      <3>2. CASE j \notin DOMAIN srcs \/ k \notin DOMAIN srcs
        BY <1>3, <1>4, <1>5, <1>6, <2>1, <3>2
      <3> QED
        BY <3>1, <3>2
    <2> QED
      BY <2>1 DEF IdsOnce
  <1>9. Items(srcs') = Items(srcs)
    <2>1. {ItemsOf(srcs'[j]) : j \in DOMAIN srcs'}
            = {ItemsOf(srcs[j]) : j \in DOMAIN srcs} \union {ItemsOf(e)}
      BY <1>4, <1>5
    <2>2. ItemsOf(e) = {}
      BY <1>3 DEF ItemsOf
    <2> QED
      BY <2>1, <2>2 DEF Items
  <1>10. AllTypesOnce'
    <2>1. ASSUME NEW j \in DOMAIN srcs' PROVE TypesOnce(srcs'[j].items)
      BY <1>3, <1>4, <1>5 DEF SdesInv, AllTypesOnce, TypesOnce
    <2> QED
      BY <2>1 DEF AllTypesOnce
  <1>11. ItemsKept => ItemsKept'
    BY <1>1, <1>9 DEF ItemsKept
  <1>12. HarmHasCauses'
    BY <1>1 DEF HarmHasCauses
  <1> QED
    BY <1>1, <1>7, <1>8, <1>10, <1>11, <1>12 DEF SdesInv

\* An entry is removed with its items, which are wanted no more.
LEMMA RemoveEntryInv == ASSUME SdesInv, NEW i \in DOMAIN srcs, RemoveEntry(i) PROVE SdesInv'
  <1>1. CASE Len(srcs[i].items) > 1
    <2>1. harm' = "bad free" /\ UNCHANGED <<srcs, hollow, wanted, dropped, strange, cut>>
      BY <1>1 DEF RemoveEntry
    <2>2. HarmHasCauses'
      BY <1>1, <2>1 DEF HarmHasCauses
    <2> QED
      BY <2>1, <2>2, HarmInv DEF SdesInv, SdesTypeOK
  <1>2. CASE ~(Len(srcs[i].items) > 1)
    <2>1. /\ srcs' = SubSeq(srcs, 1, i - 1) \o SubSeq(srcs, i + 1, Len(srcs))
          /\ wanted' = {w \in wanted : w[1] # srcs[i].id}
          /\ dropped' = {d \in dropped : d[1] # srcs[i].id}
          /\ harm = "none" /\ UNCHANGED <<hollow, strange, harm, cut>>
      BY <1>2 DEF RemoveEntry, WithoutEntry
    <2>2. /\ srcs \in Seq(SdesEntry) /\ DOMAIN srcs = 1..Len(srcs) /\ Len(srcs) \in i..Len(srcs)
          /\ Len(srcs) \in Nat
      <3>1. srcs \in Seq(SdesEntry)
        BY DEF SdesInv, SdesTypeOK
      <3> QED
        BY <3>1
    <2>3. srcs' \in Seq(SdesEntry) /\ Len(srcs') = Len(srcs) - 1
      BY <2>1, <2>2, WithoutPlace
    <2>4. ASSUME NEW j \in 1..Len(srcs) - 1
          PROVE  srcs'[j] = IF j < i THEN srcs[j] ELSE srcs[j + 1]
      <3>1. PICK t : t = SubSeq(srcs, 1, i - 1) \o SubSeq(srcs, i + 1, Len(srcs))
        OBVIOUS
      <3>2. t[j] = IF j < i THEN srcs[j] ELSE srcs[j + 1]
        <4>1. srcs \in Seq(SdesEntry) /\ i \in 1..Len(srcs) /\ Len(srcs) \in i..Len(srcs)
          BY <2>2
        <4> QED
          BY <3>1, <4>1, WithoutPlace, SMTT(60)
      <3> QED
        BY <2>1, <3>1, <3>2
    <2> DEFINE Was(j) == IF j < i THEN j ELSE j + 1
    <2>5. ASSUME NEW j \in DOMAIN srcs'
          PROVE  Was(j) \in DOMAIN srcs /\ Was(j) # i /\ srcs'[j] = srcs[Was(j)]
      BY <2>2, <2>3, <2>4
    <2>6. ASSUME NEW k \in DOMAIN srcs, k # i
          PROVE  \E j \in DOMAIN srcs' : Was(j) = k
      <3>1. DOMAIN srcs' = 1..Len(srcs) - 1
        BY <2>2, <2>3
      <3>2. CASE k < i
        BY <2>2, <3>1, <3>2
      <3>3. CASE k > i
        <4>1. k - 1 \in DOMAIN srcs' /\ Was(k - 1) = k
          BY <2>2, <3>1, <3>3
        <4> QED
          BY <4>1
      <3> QED
        BY <2>2, <2>6, <3>2, <3>3
    <2>7. IdsOnce => \A k \in DOMAIN srcs : k # i => srcs[k].id # srcs[i].id
      BY DEF IdsOnce
    <2>8. SdesTypeOK'
      <3>1. Len(srcs') <= MaxEntries
        <4>1. Len(srcs) <= MaxEntries
          BY DEF SdesInv, SdesTypeOK
        <4> QED
          BY <2>2, <2>3, <4>1, MaxEntriesAssumption
      <3> QED
        BY <2>1, <2>3, <3>1 DEF SdesInv, SdesTypeOK
    <2>9. ASSUME IdsOnce PROVE IdsOnce'
      <3>1. ASSUME NEW j \in DOMAIN srcs', NEW k \in DOMAIN srcs', srcs'[j].id = srcs'[k].id
            PROVE  j = k
        <4>1. Was(j) = Was(k)
          BY <2>5, <2>9, <3>1 DEF IdsOnce
        <4> QED
          BY <2>2, <2>3, <4>1
      <3> QED
        BY <3>1 DEF IdsOnce
    <2>10. ASSUME IdsOnce, NEW w PROVE w \in Items(srcs') <=> w \in Items(srcs) /\ w[1] # srcs[i].id
      <3>1. w \in Items(srcs') <=> \E j \in DOMAIN srcs' : \E k \in DOMAIN srcs'[j].items :
                               w = <<srcs'[j].id, srcs'[j].items[k].type, srcs'[j].items[k].len>>
        BY DEF Items, ItemsOf
      <3>2. ASSUME w \in Items(srcs') PROVE w \in Items(srcs) /\ w[1] # srcs[i].id
        <4>1. PICK j \in DOMAIN srcs' : \E k \in DOMAIN srcs'[j].items :
                     w = <<srcs'[j].id, srcs'[j].items[k].type, srcs'[j].items[k].len>>
          BY <3>1, <3>2
        <4>2. PICK m \in DOMAIN srcs : m # i /\ srcs'[j] = srcs[m]
          BY <2>5
        <4> QED
          BY <2>7, <2>10, <4>1, <4>2, ItemsAre
      <3>3. ASSUME w \in Items(srcs), w[1] # srcs[i].id PROVE w \in Items(srcs')
        <4>1. PICK m \in DOMAIN srcs : \E k \in DOMAIN srcs[m].items :
                     w = <<srcs[m].id, srcs[m].items[k].type, srcs[m].items[k].len>>
          BY <3>3, ItemsAre
        <4>2. m # i
          BY <3>3, <4>1
        <4>3. PICK j \in DOMAIN srcs' : srcs'[j] = srcs[m]
          BY <2>5, <2>6, <4>2
        <4> QED
          BY <3>1, <4>1, <4>3
      <3> QED
        BY <3>2, <3>3
    <2>11. ASSUME ~strange PROVE ItemsKept'
      <3>0. IdsOnce /\ ItemsKept
        BY <2>11 DEF SdesInv
      <3>1. Items(srcs') \subseteq wanted'
        BY <2>1, <2>10, <3>0 DEF ItemsKept
      <3>2. ASSUME NEW w \in wanted', w \notin Items(srcs') PROVE <<w[1], w[2]>> \in dropped'
        <4>1. w \in wanted /\ w[1] # srcs[i].id
          BY <2>1
        <4>2. <<w[1], w[2]>> \in dropped
          BY <2>10, <3>0, <3>2, <4>1 DEF ItemsKept
        <4> QED
          BY <2>1, <4>1, <4>2
      <3> QED
        BY <3>1, <3>2 DEF ItemsKept
    <2>12. AllTypesOnce'
      <3>1. \A j \in DOMAIN srcs' : TypesOnce(srcs'[j].items)
        BY <2>5 DEF SdesInv, AllTypesOnce
      <3> QED
        BY <3>1 DEF AllTypesOnce
    <2>13. HarmHasCauses'
      BY <2>1 DEF HarmHasCauses
    <2> QED
      BY <2>1, <2>8, <2>9, <2>11, <2>12, <2>13 DEF SdesInv
  <1> QED
    BY <1>1, <1>2

LEMMA FreedHere ==
  ASSUME SdesInv, NEW i \in DOMAIN srcs
  PROVE  /\ srcs[i].id \in Member
         /\ \A type : ~FreesPast(srcs[i].items, type)
                        => FreeItem(srcs[i].items, type) \in Seq(SdesItem)
  <1>1. srcs \in Seq(SdesEntry) /\ TypesOnce(srcs[i].items)
    BY DEF SdesInv, SdesTypeOK, AllTypesOnce
  <1>2. srcs[i] \in SdesEntry
    BY <1>1
  <1>3. srcs[i].id \in Member /\ srcs[i].items \in Seq(SdesItem)
    BY <1>2 DEF SdesEntry
  <1> QED
    BY <1>1, <1>3, FreedItem

LEMMA ClearItemInv ==
  ASSUME SdesInv, NEW i \in DOMAIN srcs, NEW type \in ItemType, ClearItem(i, type)
  PROVE  SdesInv'
  <1>1. /\ harm = "none" /\ ~FreesPast(srcs[i].items, type)
        /\ srcs' = [srcs EXCEPT ![i].items = FreeItem(srcs[i].items, type)]
        /\ wanted' = Without(wanted, srcs[i].id, type)
        /\ dropped' = Without(dropped, srcs[i].id, type)
        /\ UNCHANGED <<hollow, strange, harm, cut>>
    BY DEF ClearItem
  <1>2. PICK items \in Seq(SdesItem) : items = FreeItem(srcs[i].items, type)
    BY <1>1, FreedHere
  <1>3. /\ srcs' \in Seq(SdesEntry) /\ Len(srcs') = Len(srcs)
        /\ AllTypesOnce'
        /\ IdsOnce =>
             /\ IdsOnce'
             /\ \A w : w \in Items(srcs') <=>
                  w \in Items(srcs) /\ (w[1] # srcs[i].id \/ w[2] # type)
    <2>1. srcs' = [srcs EXCEPT ![i].items = items]
      BY <1>1, <1>2
    <2>2. PICK more \in SUBSET Lengths : more = {}
      OBVIOUS
    <2>3. AreFreed(i, type, more)
      BY <1>1, <1>2, <2>1, <2>2, ItemsAfterFree
    <2> QED
      BY <2>2, <2>3 DEF AreFreed
  <1>4. SdesTypeOK'
    <2>1. wanted \subseteq Member \X ItemType \X Lengths /\ dropped \subseteq Member \X ItemType
      BY DEF SdesInv, SdesTypeOK
    <2>2. /\ wanted' \subseteq Member \X ItemType \X Lengths
          /\ dropped' \subseteq Member \X ItemType
      BY <1>1, <2>1 DEF Without
    <2> QED
      BY <1>1, <1>3, <2>2 DEF SdesInv, SdesTypeOK
  <1>5. ASSUME ~strange PROVE ItemsKept'
    <2>0. IdsOnce /\ ItemsKept
      BY <1>5 DEF SdesInv
    <2>1. Items(srcs') \subseteq wanted'
      BY <1>1, <1>3, <2>0 DEF ItemsKept, Without
    <2>2. ASSUME NEW w \in wanted', w \notin Items(srcs') PROVE <<w[1], w[2]>> \in dropped'
      <3>1. w \in wanted /\ (w[1] # srcs[i].id \/ w[2] # type)
        BY <1>1 DEF Without
      <3>2. <<w[1], w[2]>> \in dropped
        BY <1>3, <2>0, <2>2, <3>1 DEF ItemsKept
      <3> QED
        BY <1>1, <3>1, <3>2 DEF Without
    <2> QED
      BY <2>1, <2>2 DEF ItemsKept
  <1>6. HarmHasCauses'
    BY <1>1 DEF HarmHasCauses
  <1> QED
    BY <1>1, <1>3, <1>4, <1>5, <1>6 DEF SdesInv

LEMMA SetItemInv ==
  ASSUME SdesInv, NEW i \in DOMAIN srcs, NEW type \in ItemType, NEW len \in Lengths,
         SetItem(i, type, len)
  PROVE  SdesInv'
  <1>1. /\ harm = "none" /\ ~FreesPast(srcs[i].items, type)
        /\ srcs' = [srcs EXCEPT ![i].items =
                      CreateItem(FreeItem(srcs[i].items, type), type, len)]
        /\ wanted' = Without(wanted, srcs[i].id, type) \union {<<srcs[i].id, type, len>>}
        /\ dropped' = Without(dropped, srcs[i].id, type)
        /\ UNCHANGED <<hollow, strange, harm, cut>>
    BY DEF SetItem
  <1>2. PICK freed \in Seq(SdesItem) : freed = FreeItem(srcs[i].items, type)
    BY <1>1, FreedHere
  <1>3. PICK items \in Seq(SdesItem) : items = CreateItem(freed, type, len)
    <2>1. [type |-> type, len |-> len] \in SdesItem
      BY DEF SdesItem
    <2> QED
      BY <2>1, AppendProperties DEF CreateItem
  <1>4. /\ srcs' \in Seq(SdesEntry) /\ Len(srcs') = Len(srcs)
        /\ AllTypesOnce'
        /\ IdsOnce =>
             /\ IdsOnce'
             /\ \A w : w \in Items(srcs') <=>
                  \/ w \in Items(srcs) /\ (w[1] # srcs[i].id \/ w[2] # type)
                  \/ w = <<srcs[i].id, type, len>>
    <2>1. srcs' = [srcs EXCEPT ![i].items = items]
      BY <1>1, <1>2, <1>3
    <2>2. PICK more \in SUBSET Lengths : more = {len}
      OBVIOUS
    <2>3. \E l \in Lengths : more = {l} /\ items = CreateItem(freed, type, l)
      BY <1>3, <2>2
    <2>4. AreFreed(i, type, more)
      BY <1>1, <1>2, <2>1, <2>3, ItemsAfterFree
    <2> QED
      BY <2>2, <2>4 DEF AreFreed
  <1>5. srcs[i].id \in Member
    BY FreedHere
  <1>6. SdesTypeOK'
    <2>1. wanted \subseteq Member \X ItemType \X Lengths /\ dropped \subseteq Member \X ItemType
      BY DEF SdesInv, SdesTypeOK
    <2>2. /\ wanted' \subseteq Member \X ItemType \X Lengths
          /\ dropped' \subseteq Member \X ItemType
      BY <1>1, <1>5, <2>1 DEF Without
    <2> QED
      BY <1>1, <1>4, <2>2 DEF SdesInv, SdesTypeOK
  <1>7. ASSUME ~strange PROVE ItemsKept'
    <2>0. IdsOnce /\ ItemsKept
      BY <1>7 DEF SdesInv
    <2>1. Items(srcs') \subseteq wanted'
      BY <1>1, <1>4, <2>0 DEF ItemsKept, Without
    <2>2. ASSUME NEW w \in wanted', w \notin Items(srcs') PROVE <<w[1], w[2]>> \in dropped'
      <3>1. w \in wanted /\ (w[1] # srcs[i].id \/ w[2] # type)
        BY <1>1, <1>4, <2>0, <2>2 DEF Without
      <3>2. <<w[1], w[2]>> \in dropped
        BY <1>4, <2>0, <2>2, <3>1 DEF ItemsKept
      <3> QED
        BY <1>1, <3>1, <3>2 DEF Without
    <2> QED
      BY <2>1, <2>2 DEF ItemsKept
  <1>8. HarmHasCauses'
    BY <1>1 DEF HarmHasCauses
  <1> QED
    BY <1>1, <1>4, <1>6, <1>7, <1>8 DEF SdesInv

\* The old item is gone although the new one is refused: it is dropped, and wanted still.
LEMMA SetItemTooLongInv ==
  ASSUME SdesInv, NEW i \in DOMAIN srcs, NEW type \in ItemType, SetItemTooLong(i, type)
  PROVE  SdesInv'
  <1>1. /\ harm = "none" /\ ~FreesPast(srcs[i].items, type)
        /\ srcs' = [srcs EXCEPT ![i].items = FreeItem(srcs[i].items, type)]
        /\ dropped' = dropped \union {<<srcs[i].id, type>>}
        /\ UNCHANGED <<hollow, wanted, strange, harm, cut>>
    BY DEF SetItemTooLong
  <1>2. PICK items \in Seq(SdesItem) : items = FreeItem(srcs[i].items, type)
    BY <1>1, FreedHere
  <1>3. /\ srcs' \in Seq(SdesEntry) /\ Len(srcs') = Len(srcs)
        /\ AllTypesOnce'
        /\ IdsOnce =>
             /\ IdsOnce'
             /\ \A w : w \in Items(srcs') <=>
                  w \in Items(srcs) /\ (w[1] # srcs[i].id \/ w[2] # type)
    <2>1. srcs' = [srcs EXCEPT ![i].items = items]
      BY <1>1, <1>2
    <2>2. PICK more \in SUBSET Lengths : more = {}
      OBVIOUS
    <2>3. AreFreed(i, type, more)
      BY <1>1, <1>2, <2>1, <2>2, ItemsAfterFree
    <2> QED
      BY <2>2, <2>3 DEF AreFreed
  <1>4. SdesTypeOK'
    <2>1. srcs[i].id \in Member
      BY FreedHere
    <2> QED
      BY <1>1, <1>3, <2>1 DEF SdesInv, SdesTypeOK
  <1>6. ASSUME ~strange PROVE ItemsKept'
    <2>0. IdsOnce /\ ItemsKept
      BY <1>6 DEF SdesInv
    <2>1. Items(srcs') \subseteq wanted'
      BY <1>1, <1>3, <2>0 DEF ItemsKept
    <2>2. ASSUME NEW w \in wanted', w \notin Items(srcs') PROVE <<w[1], w[2]>> \in dropped'
      <3>1. CASE w \in Items(srcs)
        <4>1. w[1] = srcs[i].id /\ w[2] = type
          BY <1>3, <2>0, <2>2, <3>1
        <4> QED
          BY <1>1, <4>1
      <3>2. CASE w \notin Items(srcs)
        BY <1>1, <2>0, <2>2, <3>2 DEF ItemsKept
      <3> QED
        BY <3>1, <3>2
    <2> QED
      BY <2>1, <2>2 DEF ItemsKept
  <1>7. HarmHasCauses'
    BY <1>1 DEF HarmHasCauses
  <1> QED
    BY <1>1, <1>3, <1>4, <1>6, <1>7 DEF SdesInv

LEMMA SdesRecreateInv == ASSUME SdesInv, SdesRecreate PROVE SdesInv'
  <1>1. /\ harm = "none" /\ srcs' = <<>> /\ hollow' = FALSE /\ wanted' = {} /\ dropped' = {}
        /\ strange' = FALSE /\ UNCHANGED <<harm, cut>>
    BY DEF SdesRecreate
  <1>2. SdesTypeOK'
    <2>1. hollow' \in BOOLEAN /\ strange' \in BOOLEAN
      BY <1>1
    <2>2. cut' \in BOOLEAN /\ harm' = "none"
      BY <1>1 DEF SdesInv, SdesTypeOK
    <2>3. srcs' \in Seq(SdesEntry) /\ Len(srcs') <= MaxEntries
      BY <1>1, MaxEntriesAssumption
    <2> QED
      BY <1>1, <2>1, <2>2, <2>3 DEF SdesTypeOK
  <1>3. IdsOnce' /\ AllTypesOnce'
    BY <1>1 DEF IdsOnce, AllTypesOnce
  <1>4. ItemsKept'
    BY <1>1 DEF ItemsKept, Items
  <1>5. HarmHasCauses'
    BY <1>1 DEF HarmHasCauses
  <1> QED
    BY <1>2, <1>3, <1>4, <1>5 DEF SdesInv

\* What Reads does to harm and cut: it is not past the end of what is whole.
LEMMA ReadsKeep ==
  ASSUME NEW read \in Nat, NEW n \in Nat, NEW bytes \in Nat, read <= bytes,
         Reads(read, n, bytes), harm = "none"
  PROVE  /\ cut' \in BOOLEAN /\ harm' \in {"none", "read past"}
         /\ harm' = "read past" => cut'
         /\ HarmHasCauses'
  <1>1. harm' = IF n < read THEN "read past" ELSE harm
    BY DEF Reads
  <1>2. cut' = (n < read /\ n < bytes)
    BY Zenon DEF Reads
  <1>3. cut' \in BOOLEAN
    BY <1>2, Zenon
  <1>4. n < read => n < bytes
    OBVIOUS
  <1>5. n < read => cut'
    BY <1>2, <1>4, Zenon
  <1>6. harm' \in {"none", "read past"} /\ (harm' = "read past" => cut')
    <2>1. CASE n < read
      BY <1>1, <1>5, <2>1
    <2>2. CASE ~(n < read)
      BY <1>1, <2>2
    <2> QED
      BY <2>1, <2>2
  <1>7. HarmHasCauses'
    BY <1>6 DEF HarmHasCauses
  <1> QED
    BY <1>3, <1>6, <1>7

LEMMA ParseOwnSdes ==
  ASSUME SdesInv, NEW n \in 4..SdesBytes(srcs), SdesParseOwn(n) PROVE SdesInv'
  <1>1. srcs \in Seq(SdesEntry)
    BY DEF SdesInv, SdesTypeOK
  <1>2. \A i \in DOMAIN srcs : SteppedOver(srcs[i]) = EntryBytes(srcs[i])
    BY <1>1, StepsAreEntries
  <1>3. /\ harm = "none" /\ UNCHANGED <<srcs, hollow, wanted, dropped, strange>>
        /\ Reads(ReadTo(srcs), n, SdesBytes(srcs))
    BY <1>2 DEF SdesParseOwn, Usable
  <1>4. PICK read \in Nat, bytes \in Nat :
               read = ReadTo(srcs) /\ bytes = SdesBytes(srcs) /\ read <= bytes
    BY <1>1, ReadsInside
  <1>5. n \in Nat /\ Reads(read, n, bytes)
    BY <1>3, <1>4
  <1>6. /\ cut' \in BOOLEAN /\ harm' \in {"none", "read past"} /\ HarmHasCauses'
    BY <1>3, <1>4, <1>5, ReadsKeep
  <1>7. hollow' \in BOOLEAN
    BY <1>3 DEF SdesInv, SdesTypeOK
  <1> QED
    BY <1>3, <1>6, <1>7, HarmInv

LEMMA ItemsType ==
  ASSUME NEW entries \in Seq(SdesEntry)
  PROVE  Items(entries) \subseteq Member \X ItemType \X Lengths
  <1> SUFFICES ASSUME NEW w \in Items(entries) PROVE w \in Member \X ItemType \X Lengths
    OBVIOUS
  <1>1. PICK i \in DOMAIN entries : \E k \in DOMAIN entries[i].items :
               w = <<entries[i].id, entries[i].items[k].type, entries[i].items[k].len>>
    BY ItemsAre
  <1>2. PICK e \in SdesEntry : e = entries[i]
    OBVIOUS
  <1>3. PICK items \in Seq(SdesItem) : items = e.items
    BY DEF SdesEntry
  <1>4. PICK k \in DOMAIN items : w = <<e.id, items[k].type, items[k].len>>
    BY <1>1, <1>2, <1>3
  <1>5. PICK it \in SdesItem : it = items[k]
    OBVIOUS
  <1>6. e.id \in Member /\ it.type \in ItemType /\ it.len \in Lengths
    BY DEF SdesEntry, SdesItem
  <1> QED
    BY <1>4, <1>5, <1>6

LEMMA NotTwice ==
  ASSUME NEW entries \in Seq(SdesEntry), ~Twice(entries)
  PROVE  \A i, j \in DOMAIN entries : entries[i].id = entries[j].id => i = j
  <1>1. PICK n \in Nat : n = Len(entries) /\ DOMAIN entries = 1..n
    OBVIOUS
  <1>2. ASSUME NEW i \in 1..n, NEW j \in 1..n, entries[i].id = entries[j].id PROVE i = j
    <2>1. ~(j \in 1 .. i - 1) /\ ~(i \in 1 .. j - 1)
      BY <1>1, <1>2 DEF Twice
    <2> QED
      BY <2>1
  <1> QED
    BY <1>1, <1>2

\* A packet that was received has the types, and its items are what is wanted of it.
LEMMA Stored ==
  ASSUME SdesInv, srcs' \in Seq(SdesEntry), Len(srcs') <= MaxEntries, AllTypesOnce',
         wanted' = Items(srcs'), dropped' = {}, strange' = Twice(srcs'),
         UNCHANGED hollow, cut' \in BOOLEAN, harm' \in {"none", "read past"}, HarmHasCauses'
  PROVE  SdesInv'
  <1>1. wanted' \subseteq Member \X ItemType \X Lengths
    <2>1. Items(srcs') \subseteq Member \X ItemType \X Lengths
      BY ItemsType
    <2> QED
      BY <2>1
  <1>2. strange' \in BOOLEAN /\ (~strange' => ~Twice(srcs'))
    BY Zenon DEF Twice
  <1>3. ~strange' => IdsOnce'
    <2>1. SUFFICES ASSUME ~Twice(srcs') PROVE IdsOnce'
      BY <1>2
    <2>2. \A i, j \in DOMAIN srcs' : srcs'[i].id = srcs'[j].id => i = j
      BY <2>1, NotTwice
    <2> QED
      BY <2>2 DEF IdsOnce
  <1>4. ItemsKept'
    BY DEF ItemsKept
  <1>5. SdesTypeOK'
    BY <1>1, <1>2 DEF SdesInv, SdesTypeOK
  <1> QED
    BY <1>3, <1>4, <1>5 DEF SdesInv

\* Entries as other senders make them.
LEMMA ForeignType ==
  ASSUME NEW entries \in ForeignEntries
  PROVE  /\ entries \in Seq(SdesEntry) /\ Len(entries) <= MaxEntries
         /\ \A i \in DOMAIN entries : TypesOnce(entries[i].items)
  <1>1. PICK k \in 0..MaxEntries : entries \in [1..k -> [id : Member, items : ForeignItems]]
    BY DEF ForeignEntries
  <1>2. ASSUME NEW items \in ForeignItems PROVE items \in Seq(SdesItem) /\ TypesOnce(items)
    <2>1. PICK m \in 0..MaxForeign : items \in [1..m -> SdesItem]
      BY DEF ForeignItems
    <2> QED
      BY <2>1, MaxForeignAssumption DEF ForeignItems, TypesOnce
  <1>3. ASSUME NEW i \in 1..k
        PROVE  entries[i] \in SdesEntry /\ TypesOnce(entries[i].items)
    <2>1. PICK e \in [id : Member, items : ForeignItems] : e = entries[i]
      BY <1>1
    <2>2. e.items \in Seq(SdesItem) /\ TypesOnce(e.items)
      BY <1>2
    <2>3. e \in SdesEntry
      BY <2>2 DEF SdesEntry
    <2> QED
      BY <2>1, <2>2, <2>3
  <1>4. entries \in Seq(SdesEntry) /\ Len(entries) = k /\ DOMAIN entries = 1..k
    BY <1>1, <1>3, MaxEntriesAssumption
  <1> QED
    BY <1>3, <1>4, MaxEntriesAssumption

LEMMA ParseForeignSdes ==
  ASSUME SdesInv, harm = "none", NEW entries \in ForeignEntries,
         NEW n \in 4..SdesBytes(entries), SdesParseForeign(entries, n)
  PROVE  SdesInv'
  <1>1. /\ srcs' = entries /\ wanted' = Items(entries) /\ dropped' = {}
        /\ strange' = Twice(entries) /\ UNCHANGED hollow
        /\ Reads(ReadTo(entries), n, SdesBytes(entries))
    BY DEF SdesParseForeign
  <1>2. /\ entries \in Seq(SdesEntry) /\ Len(entries) <= MaxEntries
        /\ \A i \in DOMAIN entries : TypesOnce(entries[i].items)
    BY ForeignType
  <1>3. PICK read \in Nat, bytes \in Nat :
               read = ReadTo(entries) /\ bytes = SdesBytes(entries) /\ read <= bytes
    BY <1>2, ReadsInside
  <1>4. n \in Nat /\ Reads(read, n, bytes)
    BY <1>1, <1>3
  <1>5. /\ cut' \in BOOLEAN /\ harm' \in {"none", "read past"} /\ HarmHasCauses'
    BY <1>3, <1>4, ReadsKeep
  <1>6. AllTypesOnce'
    BY <1>1, <1>2 DEF AllTypesOnce
  <1> QED
    BY <1>1, <1>2, <1>5, <1>6, Stored

LEMMA ParseRepeatedSdes ==
  ASSUME SdesInv, harm = "none", NEW entries \in ForeignEntries, entries # <<>>,
         NEW type \in ItemType, NEW len \in Lengths, NEW rest \in 0 .. MaxEntries - Len(entries),
         NEW n \in 4..SdesBytes(WithItem(entries, type, len)),
         SdesParseRepeated(entries, type, len, rest, n)
  PROVE  SdesInv'
  <1>1. PICK empty : empty = [i \in 1..rest |-> [id |-> ZeroMember, items |-> <<>>]]
    OBVIOUS
  <1>2. /\ srcs' = entries \o empty /\ wanted' = Items(entries) /\ dropped' = {}
        /\ strange' = Twice(srcs') /\ UNCHANGED hollow
        /\ Reads(BeforeLast(entries) + EndMark(entries[Len(entries)]) + 2, n,
                 SdesBytes(WithItem(entries, type, len)))
    BY <1>1 DEF SdesParseRepeated
  <1>3. /\ entries \in Seq(SdesEntry) /\ Len(entries) <= MaxEntries
        /\ \A i \in DOMAIN entries : TypesOnce(entries[i].items)
    BY ForeignType
  <1>4. PICK read \in Nat, bytes \in Nat :
               /\ read = BeforeLast(entries) + EndMark(entries[Len(entries)]) + 2
               /\ bytes = SdesBytes(WithItem(entries, type, len)) /\ read <= bytes
    BY <1>3, RepeatedInside
  <1>5. n \in Nat /\ Reads(read, n, bytes)
    BY <1>2, <1>4
  <1>6. /\ cut' \in BOOLEAN /\ harm' \in {"none", "read past"} /\ HarmHasCauses'
    BY <1>4, <1>5, ReadsKeep
  <1>7. PICK c \in Nat : c = Len(entries) /\ DOMAIN entries = 1..c
    BY <1>3
  <1>8. empty \in Seq(SdesEntry) /\ Len(empty) = rest /\ rest \in Nat
    <2>1. [id |-> ZeroMember, items |-> <<>>] \in SdesEntry
      BY ZeroMemberAssumption DEF SdesEntry
    <2>2. rest \in Nat
      BY <1>7, MaxEntriesAssumption
    <2>3. empty \in [1..rest -> SdesEntry]
      BY <1>1, <2>1
    <2> QED
      BY <2>2, <2>3
  <1>9. /\ srcs' \in Seq(SdesEntry) /\ Len(srcs') = c + rest /\ DOMAIN srcs' = 1 .. c + rest
        /\ \A i \in 1 .. c + rest : srcs'[i] = IF i <= c THEN entries[i] ELSE empty[i - c]
    <2>1. srcs' = entries \o empty
      BY <1>2
    <2>2. /\ entries \o empty \in Seq(SdesEntry)
          /\ Len(entries \o empty) = Len(entries) + Len(empty)
          /\ \A i \in 1 .. Len(entries) + Len(empty) :
               (entries \o empty)[i] = IF i <= Len(entries) THEN entries[i] ELSE empty[i - Len(entries)]
      BY <1>3, <1>8, ConcatProperties
    <2>3. /\ srcs' \in Seq(SdesEntry) /\ Len(srcs') = c + rest
          /\ \A i \in 1 .. c + rest : srcs'[i] = IF i <= c THEN entries[i] ELSE empty[i - c]
      BY <1>7, <1>8, <2>1, <2>2
    <2> QED
      BY <2>3
  <1>10. Len(srcs') <= MaxEntries
    BY <1>7, <1>9, MaxEntriesAssumption
  <1>11. ASSUME NEW i \in 1 .. c + rest, ~(i <= c) PROVE srcs'[i].items = <<>>
    <2>1. i - c \in 1..rest
      BY <1>8, <1>11
    <2> QED
      BY <1>1, <1>9, <1>11, <2>1
  <1>12. AllTypesOnce'
    <2>1. ASSUME NEW i \in DOMAIN srcs' PROVE TypesOnce(srcs'[i].items)
      <3>1. CASE i <= c
        BY <1>3, <1>7, <1>9, <3>1
      <3>2. CASE ~(i <= c)
        BY <1>9, <1>11, <3>2 DEF TypesOnce
      <3> QED
        BY <3>1, <3>2
    <2> QED
      BY <2>1 DEF AllTypesOnce
  <1>13. Items(srcs') = Items(entries)
    <2>1. ASSUME NEW w \in Items(srcs') PROVE w \in Items(entries)
      <3>1. PICK i \in DOMAIN srcs' : \E k \in DOMAIN srcs'[i].items :
                   w = <<srcs'[i].id, srcs'[i].items[k].type, srcs'[i].items[k].len>>
        BY ItemsAre
      <3>2. i <= c
        BY <1>9, <1>11, <3>1
      <3>3. i \in DOMAIN entries /\ srcs'[i] = entries[i]
        BY <1>7, <1>9, <3>2
      <3> QED
        BY <3>1, <3>3, ItemsAre
    <2>2. ASSUME NEW w \in Items(entries) PROVE w \in Items(srcs')
      <3>1. PICK i \in DOMAIN entries : \E k \in DOMAIN entries[i].items :
                   w = <<entries[i].id, entries[i].items[k].type, entries[i].items[k].len>>
        BY ItemsAre
      <3>2. i \in DOMAIN srcs' /\ srcs'[i] = entries[i]
        BY <1>7, <1>8, <1>9
      <3> QED
        BY <3>1, <3>2, ItemsAre
    <2> QED
      BY <2>1, <2>2
  <1> QED
    BY <1>2, <1>6, <1>9, <1>10, <1>12, <1>13, Stored

LEMMA SdesStep == ASSUME SdesInv, [SdesNext]_sdesVars PROVE SdesInv'
  <1>1. ASSUME NEW id \in Member, AddEntry(id) PROVE SdesInv'
    BY <1>1, AddEntryInv
  <1>2. ASSUME NEW id \in Member, AddEntryWraps(id) PROVE SdesInv'
    <2>1. /\ harm' = "wild store" /\ Len(srcs) = MaxEntries
          /\ UNCHANGED <<srcs, hollow, wanted, dropped, strange, cut>>
      BY <1>2 DEF AddEntryWraps
    <2>2. HarmHasCauses'
      BY <2>1 DEF HarmHasCauses
    <2> QED
      BY <2>1, <2>2, HarmInv DEF SdesInv, SdesTypeOK
  <1>3. ASSUME NEW i \in DOMAIN srcs, RemoveEntry(i) PROVE SdesInv'
    BY <1>3, RemoveEntryInv
  <1>4. ASSUME NEW i \in DOMAIN srcs, NEW type \in ItemType, StorePast(i, type) PROVE SdesInv'
    <2>1. /\ harm' = "wild store" /\ FreesPast(srcs[i].items, type)
          /\ UNCHANGED <<srcs, hollow, wanted, dropped, strange, cut>>
      BY <1>4 DEF StorePast
    <2>2. Len(srcs[i].items) > 1
      <3>1. srcs \in Seq(SdesEntry)
        BY DEF SdesInv, SdesTypeOK
      <3>2. srcs[i] \in SdesEntry
        BY <3>1
      <3>3. PICK items \in Seq(SdesItem) : items = srcs[i].items
        BY <3>2 DEF SdesEntry
      <3>4. PICK k \in DOMAIN items : k > 1
        BY <2>1, <3>3 DEF FreesPast, PlacesOf
      <3> QED
        BY <3>3, <3>4
    <2>3. HarmHasCauses'
      BY <2>1, <2>2 DEF HarmHasCauses
    <2> QED
      BY <2>1, <2>3, HarmInv DEF SdesInv, SdesTypeOK
  <1>5. ASSUME NEW i \in DOMAIN srcs, NEW type \in ItemType,
               SetItemTooLong(i, type) \/ ClearItem(i, type)
        PROVE  SdesInv'
    BY <1>5, SetItemTooLongInv, ClearItemInv
  <1>6. ASSUME NEW i \in DOMAIN srcs, NEW type \in ItemType, GetItem(i, type) PROVE SdesInv'
    <2>1. /\ harm = "none"
          /\ harm' = IF PlacesOf(type, srcs[i].items) = {} THEN "null read" ELSE harm
          /\ UNCHANGED <<srcs, hollow, wanted, dropped, strange, cut>>
      BY <1>6 DEF GetItem
    <2>2. HarmHasCauses'
      BY <2>1 DEF HarmHasCauses
    <2> QED
      BY <2>1, <2>2, HarmInv DEF SdesInv, SdesTypeOK
  <1>7. ASSUME NEW i \in DOMAIN srcs, NEW type \in ItemType, NEW len \in Lengths,
               SetItem(i, type, len)
        PROVE  SdesInv'
    BY <1>7, SetItemInv
  <1>8. CASE SdesRecreate
    BY <1>8, SdesRecreateInv
  <1>9. ASSUME NEW n \in 4..SdesBytes(srcs), SdesParseOwn(n) PROVE SdesInv'
    BY <1>9, ParseOwnSdes
  <1>12. CASE UseHollowSdes
    <2>1. harm' = "null read" /\ hollow /\ UNCHANGED <<srcs, hollow, wanted, dropped, strange, cut>>
      BY <1>12 DEF UseHollowSdes
    <2>2. HarmHasCauses'
      BY <2>1 DEF HarmHasCauses
    <2> QED
      BY <2>1, <2>2, HarmInv DEF SdesInv, SdesTypeOK
  <1>13. CASE SdesReceive
    <2>1. harm = "none"
      BY <1>13 DEF SdesReceive, Usable
    <2>2. ASSUME NEW c \in 0..MaxEntries, SdesParseHeader(c) PROVE SdesInv'
      <3>1. UNCHANGED <<srcs, wanted, dropped, strange, harm, cut>>
        BY <2>2 DEF SdesParseHeader
      <3>2. hollow' \in BOOLEAN
        <4>1. hollow' = (c > 0)
          BY <2>2, Zenon DEF SdesParseHeader
        <4> QED
          BY <4>1
      <3>3. HarmHasCauses'
        BY <2>1, <3>1 DEF HarmHasCauses
      <3> QED
        BY <3>1, <3>2, <3>3, HarmInv DEF SdesInv, SdesTypeOK
    <2>3. ASSUME NEW entries \in ForeignEntries, NEW n \in 4..SdesBytes(entries),
                 SdesParseForeign(entries, n)
          PROVE  SdesInv'
      BY <2>1, <2>3, ParseForeignSdes
    <2>4. ASSUME NEW entries \in ForeignEntries, entries # <<>>, NEW type \in ItemType,
                 NEW len \in Lengths, NEW rest \in 0 .. MaxEntries - Len(entries),
                 NEW n \in 4..SdesBytes(WithItem(entries, type, len)),
                 SdesParseRepeated(entries, type, len, rest, n)
          PROVE  SdesInv'
      BY <2>1, <2>4, ParseRepeatedSdes
    <2> QED
      BY <1>13, <2>2, <2>3, <2>4 DEF SdesReceive
  <1>10. CASE UNCHANGED sdesVars
    <2>1. UNCHANGED <<srcs, hollow, wanted, dropped, strange, harm, cut>>
      BY <1>10 DEF sdesVars
    <2>2. HarmHasCauses'
      BY <2>1 DEF SdesInv, HarmHasCauses
    <2> QED
      BY <2>1, <2>2, HarmInv DEF SdesInv, SdesTypeOK
  <1>11. ASSUME NEW id \in Member, AddEntryRefused(id) \/ NoEntry(id) PROVE SdesInv'
    BY <1>10, <1>11 DEF AddEntryRefused, NoEntry
  <1> QED
    BY <1>1, <1>2, <1>3, <1>4, <1>5, <1>6, <1>7, <1>8, <1>9, <1>10, <1>11, <1>12, <1>13
    DEF SdesNext, Found

LEMMA SdesInvariant == RtcpSdes => []SdesInv
  <1>1. SdesInv /\ [SdesNext]_sdesVars => SdesInv'
    BY SdesStep
  <1> QED
    BY <1>1, SdesInitInv, PTL DEF RtcpSdes

\* Type correctness of a source description, for any sources, types, lengths and capacity.
THEOREM SdesTypeCorrect == RtcpSdes => []SdesTypeOK
  <1>1. SdesInv => SdesTypeOK
    BY DEF SdesInv
  <1> QED
    BY <1>1, SdesInvariant, PTL

\* The items are those set and not cleared, one of a type and source.
THEOREM SdesItemsAsSet == RtcpSdes => []ItemsAsSet
  <1>1. SdesInv => ItemsAsSet
    BY DEF SdesInv, ItemsKept, AllTypesOnce, TypesOnce, ItemsAsSet
  <1> QED
    BY <1>1, SdesInvariant, PTL

\* The parser steps over entries of any number of items of any length as they were
\* serialized, and looks past no datagram that is whole, its own or another's; and what
\* other harm a call does has the causes told.
THEOREM SdesHarmHasCauses == RtcpSdes => []HarmHasCauses
  <1>1. SdesInv => HarmHasCauses
    BY DEF SdesInv
  <1> QED
    BY <1>1, SdesInvariant, PTL
-----------------------------------------------------------------------------
\* FecPkt

\* A number is joined of its bytes.
LEMMA BytesJoined ==
  ASSUME NEW i \in Nat
  PROVE  High(i) \in Nat /\ Low(i) \in FecByte /\ Join(High(i), Low(i)) = i
  BY FecPktAssumption DEF High, Low, Join, FecByte

\* And joined bytes are those that were joined.
LEMMA JoinedBytes ==
  ASSUME NEW h \in Nat, NEW l \in FecByte
  PROVE  Join(h, l) \in Nat /\ High(Join(h, l)) = h /\ Low(Join(h, l)) = l
  <1>1. PICK j \in Nat : j = h * ByteMod + l
    BY FecPktAssumption DEF FecByte
  <1>2. PICK q \in Nat : q = j \div ByteMod
    BY FecPktAssumption
  <1>3. PICK r \in 0 .. ByteMod - 1 : r = j % ByteMod
    BY FecPktAssumption
  <1>4. q * ByteMod + r = j
    BY <1>2, <1>3, FecPktAssumption
  <1>5. q = h /\ r = l
    BY <1>1, <1>4, FecPktAssumption, DivisionUnique DEF FecByte
  <1> QED
    BY <1>1, <1>2, <1>3, <1>5 DEF High, Low, Join

\* Dropping high bytes leaves the low one, and drops one less from what is above it.
LEMMA RestOfBytes ==
  ASSUME NEW m \in Nat \ {0}, NEW i \in Nat
  PROVE  i % (ByteMod * m) = Join(High(i) % m, Low(i))
  <1>1. PICK q \in Nat, r \in 0 .. ByteMod - 1 :
          q = High(i) /\ r = Low(i) /\ i = q * ByteMod + r
    BY BytesJoined DEF Join, FecByte
  <1>2. PICK q2 \in Nat, r2 \in 0 .. m - 1 : q2 = q \div m /\ r2 = q % m /\ q = q2 * m + r2
    OBVIOUS
  <1>3. PICK p \in Nat \ {0} : p = ByteMod * m
    BY FecPktAssumption
  <1>4. i = q2 * p + (r2 * ByteMod + r)
    BY <1>1, <1>2, <1>3, FecPktAssumption
  <1>5. r2 * ByteMod + r \in 0 .. p - 1
    <2>1. r2 * ByteMod <= (m - 1) * ByteMod
      BY FecPktAssumption
    <2>2. (m - 1) * ByteMod = p - ByteMod
      BY <1>3, FecPktAssumption
    <2>3. r2 * ByteMod \in Nat
      BY FecPktAssumption
    <2> QED
      BY <2>1, <2>2, <2>3, FecPktAssumption
  <1>6. PICK q3 \in Nat, r3 \in 0 .. p - 1 : r3 = i % p /\ i = q3 * p + r3
    OBVIOUS
  <1>7. r3 = r2 * ByteMod + r
    <2>1. PICK r4 \in 0 .. p - 1 : r4 = r2 * ByteMod + r
      BY <1>5
    <2>2. q2 * p + r4 = q3 * p + r3
      BY <1>4, <1>6, <2>1
    <2>3. \A a, b \in Nat : \A c, d \in 0 .. p - 1 : a * p + c = b * p + d => c = d
      <3> SUFFICES ASSUME NEW a \in Nat, NEW b \in Nat,
                          NEW c \in 0 .. p - 1, NEW d \in 0 .. p - 1,
                          a * p + c = b * p + d
                   PROVE  c = d
        OBVIOUS
      <3> QED
        BY <1>3, DivisionUnique, SMTT(20)
    <2>4. r4 = r3
      BY <1>2, <1>6, <2>1, <2>2, <2>3, Zenon
    <2> QED
      BY <2>1, <2>4
  <1> QED
    BY <1>1, <1>2, <1>3, <1>6, <1>7 DEF Join

\* Two bytes make a number below Word16, and such a number has no others.
LEMMA TwoBytes ==
  /\ \A h, l \in FecByte :
       Join(h, l) \in 0 .. Word16 - 1 /\ High(Join(h, l)) = h /\ Low(Join(h, l)) = l
  /\ \A i \in 0 .. Word16 - 1 : High(i) \in FecByte
  <1>1. ASSUME NEW h \in FecByte, NEW l \in FecByte
        PROVE  Join(h, l) \in 0 .. Word16 - 1 /\ High(Join(h, l)) = h /\ Low(Join(h, l)) = l
    <2>1. h * ByteMod \in Nat /\ h * ByteMod <= (ByteMod - 1) * ByteMod
      BY FecPktAssumption DEF FecByte
    <2>2. (ByteMod - 1) * ByteMod = Word16 - ByteMod /\ Word16 \in Nat
      BY FecPktAssumption DEF Word16
    <2>3. Join(h, l) \in 0 .. Word16 - 1
      BY <2>1, <2>2, FecPktAssumption DEF Join, FecByte
    <2> QED
      BY <2>3, JoinedBytes DEF FecByte
  <1>2. ASSUME NEW i \in 0 .. Word16 - 1
        PROVE  High(i) \in FecByte
    <2>1. i \in Nat /\ i < Word16 /\ Word16 \in Nat
      BY FecPktAssumption DEF Word16
    <2>2. PICK h \in Nat, l \in FecByte : h = High(i) /\ i = h * ByteMod + l
      BY <2>1, BytesJoined DEF Join
    <2>3. h >= ByteMod => h * ByteMod >= ByteMod * ByteMod
      BY FecPktAssumption
    <2>4. h * ByteMod \in Nat /\ h * ByteMod <= i
      BY <2>2, FecPktAssumption DEF FecByte
    <2>5. h < ByteMod
      BY <2>1, <2>3, <2>4, FecPktAssumption DEF Word16
    <2> QED
      BY <2>2, <2>5, FecPktAssumption DEF FecByte
  <1> QED
    BY <1>1, <1>2

\* Four bytes make a number below Word32, and are those of any number modulo that.
LEMMA FourBytes ==
  ASSUME NEW a \in FecByte, NEW b \in FecByte, NEW c \in FecByte, NEW d \in FecByte
  PROVE  /\ Join(Join(Join(a, b), c), d) \in 0 .. Word32 - 1
         /\ Low(Join(Join(Join(a, b), c), d)) = d
         /\ Low(High(Join(Join(Join(a, b), c), d))) = c
         /\ Low(High(High(Join(Join(Join(a, b), c), d)))) = b
         /\ Low(High(High(High(Join(Join(Join(a, b), c), d))))) = a
  <1>1. PICK x2 \in 0 .. Word16 - 1 : x2 = Join(a, b) /\ High(x2) = a /\ Low(x2) = b
    BY TwoBytes, JoinedBytes DEF FecByte
  <1>2. x2 \in Nat /\ Word16 \in Nat
    BY FecPktAssumption DEF Word16
  <1>3. PICK x3 \in Nat : x3 = Join(x2, c) /\ High(x3) = x2 /\ Low(x3) = c
    BY <1>2, JoinedBytes
  <1>4. PICK x4 \in Nat : x4 = Join(x3, d) /\ High(x4) = x3 /\ Low(x4) = d
    BY JoinedBytes
  <1>5. x3 < Word16 * ByteMod
    <2>1. x2 * ByteMod \in Nat /\ x2 * ByteMod <= (Word16 - 1) * ByteMod
      BY <1>2, FecPktAssumption
    <2>2. (Word16 - 1) * ByteMod = Word16 * ByteMod - ByteMod /\ Word16 * ByteMod \in Nat
      BY <1>2, FecPktAssumption
    <2> QED
      BY <1>3, <2>1, <2>2, FecPktAssumption DEF Join, FecByte
  <1>6. PICK p \in Nat : p = Word16 * ByteMod
    BY <1>2, FecPktAssumption
  <1>7. p * ByteMod = Word32
    BY <1>6, <1>2, FecPktAssumption DEF Word32, Word16
  <1>8. x4 < Word32
    <2>1. x3 * ByteMod \in Nat /\ x3 * ByteMod <= (p - 1) * ByteMod
      BY <1>5, <1>6, FecPktAssumption
    <2>2. (p - 1) * ByteMod = p * ByteMod - ByteMod /\ p * ByteMod \in Nat
      BY FecPktAssumption
    <2> QED
      BY <1>4, <1>7, <2>1, <2>2, FecPktAssumption DEF Join, FecByte
  <1>9. Join(Join(Join(a, b), c), d) = x4
    BY <1>1, <1>3, <1>4
  <1>10. Low(High(High(High(x4)))) = a
    <2>1. High(High(High(x4))) = a
      BY <1>1, <1>3, <1>4
    <2> QED
      BY <2>1, FecPktAssumption DEF Low, FecByte
  <1>11. Low(High(High(x4))) = b /\ Low(High(x4)) = c /\ Low(x4) = d
    BY <1>1, <1>3, <1>4
  <1>12. x4 \in 0 .. Word32 - 1
    <2>1. Word32 \in Nat
      BY <1>7, FecPktAssumption
    <2> QED
      BY <1>8, <2>1
  <1> QED
    BY <1>9, <1>10, <1>11, <1>12, Zenon

LEMMA BytesOfLong ==
  ASSUME NEW t \in Nat
  PROVE  /\ Join(Join(Join(Low(High(High(High(t)))), Low(High(High(t)))), Low(High(t))), Low(t))
              = t % Word32
         /\ {Low(High(High(High(t)))), Low(High(High(t))), Low(High(t)), Low(t)} \subseteq FecByte
  <1>1. PICK h1 \in Nat : h1 = High(t)
    BY BytesJoined
  <1>2. PICK h2 \in Nat : h2 = High(h1)
    BY BytesJoined
  <1>3. PICK h3 \in Nat : h3 = High(h2)
    BY BytesJoined
  <1>4. ByteMod \in Nat \ {0}
    BY FecPktAssumption
  <1>5. PICK p \in Nat \ {0} : p = ByteMod * ByteMod
    BY <1>4
  <1>6. PICK r \in Nat \ {0} : r = ByteMod * p
    BY <1>4
  <1>7. ByteMod * r = Word32
    BY <1>4, <1>5, <1>6 DEF Word32, Word16
  <1>8. t % Word32 = Join(h1 % r, Low(t))
    BY <1>1, <1>7, RestOfBytes
  <1>9. h1 % r = Join(h2 % p, Low(h1))
    BY <1>2, <1>6, RestOfBytes
  <1>10. h2 % p = Join(h3 % ByteMod, Low(h2))
    BY <1>3, <1>4, <1>5, RestOfBytes
  <1>11. h3 % ByteMod = Low(h3)
    BY DEF Low
  <1>12. Low(h3) \in FecByte /\ Low(h2) \in FecByte /\ Low(h1) \in FecByte /\ Low(t) \in FecByte
    BY BytesJoined
  <1> QED
    BY <1>1, <1>2, <1>3, <1>8, <1>9, <1>10, <1>11, <1>12, Zenon

LEMMA HdrSizeType == HdrSize \in Nat /\ HdrSize > 1 /\ MaxPayload \in Nat
  BY FecPktAssumption DEF HdrSize

LEMMA PackType ==
  ASSUME NEW hdr \in FecHdr
  PROVE  /\ Pack(hdr) \in Seq(FecByte) /\ Len(Pack(hdr)) = HdrSize
         /\ \A i \in 1 .. HdrSize : Pack(hdr)[i] \in FecByte
  <1>1. /\ hdr.magic \in FecByte /\ hdr.version \in FecByte /\ hdr.group_seq \in FecByte
        /\ hdr.packet_seq \in FecByte /\ hdr.fec_k \in FecByte /\ hdr.fec_n \in FecByte
        /\ hdr.fec_len \in 0 .. Word16 - 1 /\ hdr.len \in 0 .. Word16 - 1
        /\ hdr.group_tstamp \in Nat
    BY DEF FecHdr
  <1>2. hdr.fec_len \in Nat /\ hdr.len \in Nat
    BY <1>1, FecPktAssumption DEF Word16
  <1>3. /\ High(hdr.fec_len) \in FecByte /\ Low(hdr.fec_len) \in FecByte
        /\ High(hdr.len) \in FecByte /\ Low(hdr.len) \in FecByte
    BY <1>1, <1>2, TwoBytes, BytesJoined
  <1>4. PICK b11 \in FecByte, b12 \in FecByte, b13 \in FecByte, b14 \in FecByte :
          /\ b11 = Low(High(High(High(hdr.group_tstamp))))
          /\ b12 = Low(High(High(hdr.group_tstamp)))
          /\ b13 = Low(High(hdr.group_tstamp))
          /\ b14 = Low(hdr.group_tstamp)
    BY <1>1, BytesOfLong
  <1>5. Pack(hdr) \in Seq(FecByte) /\ Len(Pack(hdr)) = 14
    BY <1>1, <1>3, <1>4 DEF Pack
  <1> QED
    BY <1>5, ElementOfSeq DEF HdrSize

LEMMA UnpackOfPacked ==
  ASSUME NEW hdr \in FecHdr, NEW d \in Seq(FecByte),
         \A i \in 1 .. HdrSize : d[i] = Pack(hdr)[i]
  PROVE  Unpack(d) = [hdr EXCEPT !.group_tstamp = @ % Word32]
  <1>1. /\ hdr.fec_len \in Nat /\ hdr.len \in Nat /\ hdr.group_tstamp \in Nat
    BY FecPktAssumption DEF FecHdr, Word16
  <1>2. /\ d[1] = hdr.magic /\ d[2] = hdr.version /\ d[3] = hdr.group_seq
        /\ d[4] = hdr.packet_seq /\ d[5] = hdr.fec_k /\ d[6] = hdr.fec_n
        /\ d[7] = High(hdr.fec_len) /\ d[8] = Low(hdr.fec_len)
        /\ d[9] = High(hdr.len) /\ d[10] = Low(hdr.len)
        /\ d[11] = Low(High(High(High(hdr.group_tstamp))))
        /\ d[12] = Low(High(High(hdr.group_tstamp)))
        /\ d[13] = Low(High(hdr.group_tstamp))
        /\ d[14] = Low(hdr.group_tstamp)
    BY DEF Pack, HdrSize
  <1>3. Join(d[7], d[8]) = hdr.fec_len /\ Join(d[9], d[10]) = hdr.len
    BY <1>1, <1>2, BytesJoined
  <1>4. Join(Join(Join(d[11], d[12]), d[13]), d[14]) = hdr.group_tstamp % Word32
    BY <1>1, <1>2, BytesOfLong
  <1>5. hdr = [magic |-> hdr.magic, version |-> hdr.version, group_seq |-> hdr.group_seq,
               packet_seq |-> hdr.packet_seq, fec_k |-> hdr.fec_k, fec_n |-> hdr.fec_n,
               fec_len |-> hdr.fec_len, len |-> hdr.len, group_tstamp |-> hdr.group_tstamp]
    BY DEF FecHdr
  <1>6. Unpack(d) = [magic |-> hdr.magic, version |-> hdr.version, group_seq |-> hdr.group_seq,
               packet_seq |-> hdr.packet_seq, fec_k |-> hdr.fec_k, fec_n |-> hdr.fec_n,
               fec_len |-> hdr.fec_len, len |-> hdr.len,
               group_tstamp |-> hdr.group_tstamp % Word32]
    BY <1>2, <1>3, <1>4, Zenon DEF Unpack
  <1> QED
    BY <1>5, <1>6

LEMMA PackOfUnpacked ==
  ASSUME NEW d \in Seq(FecByte), Len(d) >= HdrSize
  PROVE  /\ Unpack(d) \in FecHdr /\ Unpack(d).group_tstamp < Word32
         /\ \A i \in 1 .. HdrSize : Pack(Unpack(d))[i] = d[i]
  <1>1. \A i \in 1 .. 14 : d[i] \in FecByte
    BY ElementOfSeq DEF HdrSize
  <1>10. /\ d[7] \in FecByte /\ d[8] \in FecByte /\ d[9] \in FecByte /\ d[10] \in FecByte
        /\ d[11] \in FecByte /\ d[12] \in FecByte /\ d[13] \in FecByte /\ d[14] \in FecByte
    BY <1>1
  <1>2. PICK w \in 0 .. Word16 - 1 : w = Join(d[7], d[8]) /\ High(w) = d[7] /\ Low(w) = d[8]
    BY <1>10, TwoBytes, Zenon
  <1>3. PICK v \in 0 .. Word16 - 1 : v = Join(d[9], d[10]) /\ High(v) = d[9] /\ Low(v) = d[10]
    BY <1>10, TwoBytes, Zenon
  <1>4. PICK t \in 0 .. Word32 - 1 :
          /\ t = Join(Join(Join(d[11], d[12]), d[13]), d[14])
          /\ Low(t) = d[14] /\ Low(High(t)) = d[13] /\ Low(High(High(t))) = d[12]
          /\ Low(High(High(High(t)))) = d[11]
    <2>1. PICK b11 \in FecByte, b12 \in FecByte, b13 \in FecByte, b14 \in FecByte :
            b11 = d[11] /\ b12 = d[12] /\ b13 = d[13] /\ b14 = d[14]
      BY <1>10
    <2>2. PICK x4 : x4 = Join(Join(Join(b11, b12), b13), b14)
      OBVIOUS
    <2>3. /\ x4 \in 0 .. Word32 - 1
          /\ Low(x4) = b14 /\ Low(High(x4)) = b13 /\ Low(High(High(x4))) = b12
          /\ Low(High(High(High(x4)))) = b11
      BY <2>2, FourBytes
    <2> QED
      BY <2>1, <2>2, <2>3, Zenon
  <1>5. Word32 \in Nat
    BY FecPktAssumption DEF Word32, Word16
  <1>6. Unpack(d) = [magic |-> d[1], version |-> d[2], group_seq |-> d[3], packet_seq |-> d[4],
                     fec_k |-> d[5], fec_n |-> d[6], fec_len |-> w, len |-> v,
                     group_tstamp |-> t]
    BY <1>2, <1>3, <1>4 DEF Unpack
  <1>7. Unpack(d) \in FecHdr /\ Unpack(d).group_tstamp < Word32
    BY <1>1, <1>4, <1>5, <1>6 DEF FecHdr
  <1>8. Pack(Unpack(d)) = <<d[1], d[2], d[3], d[4], d[5], d[6], d[7], d[8], d[9], d[10],
                            d[11], d[12], d[13], d[14]>>
    BY <1>2, <1>3, <1>4, <1>6 DEF Pack
  <1>9. \A i \in 1 .. 14 : Pack(Unpack(d))[i] = d[i]
    BY <1>8, SMTT(20)
  <1> QED
    BY <1>7, <1>9 DEF HdrSize

\* A part of a sequence, and two of them one after the other, place by place.
LEMMA PartOf ==
  ASSUME NEW S, NEW s \in Seq(S), NEW a \in Nat \ {0}, NEW b \in Nat,
         a <= b + 1, b <= Len(s)
  PROVE  /\ SubSeq(s, a, b) \in Seq(S) /\ Len(SubSeq(s, a, b)) = b - a + 1
         /\ \A i \in 1 .. b - a + 1 : SubSeq(s, a, b)[i] = s[a + i - 1]
  BY SubSeqProperties

LEMMA OneAfterOther ==
  ASSUME NEW S, NEW s \in Seq(S), NEW t \in Seq(S)
  PROVE  /\ s \o t \in Seq(S) /\ Len(s \o t) = Len(s) + Len(t)
         /\ \A i \in 1 .. Len(s) : (s \o t)[i] = s[i]
         /\ \A i \in 1 .. Len(t) : (s \o t)[Len(s) + i] = t[i]
  BY ConcatProperties, LenProperties

\* What is there to read is, until it is tampered with, the packet that was sent.
WireInv ==
  fecintact => /\ fecwire = Pack(fecout) \o fecload
               /\ fecout.len = Len(fecload) /\ fecout.magic = FecMagic

FecInv == FecTypeOK /\ WireInv /\ ReadIsOneDatagram

LEMMA WordTypes == Word16 \in Nat \ {0} /\ Word32 \in Nat \ {0} /\ 0 \in FecByte /\ 1 \in FecByte
  BY FecPktAssumption DEF Word16, Word32, FecByte

LEMMA ZeroHdrType == ZeroHdr \in FecHdr /\ ZeroHdr.group_tstamp < Word32
  <1>1. Zeroes(HdrSize) \in Seq(FecByte) /\ Len(Zeroes(HdrSize)) = HdrSize
    BY WordTypes DEF Zeroes, HdrSize
  <1> QED
    BY <1>1, PackOfUnpacked DEF ZeroHdr

LEMMA PktInit == FecInit => FecInv
  <1> SUFFICES ASSUME FecInit PROVE FecInv
    OBVIOUS
  <1>1. fecout \in FecHdr /\ fechdr \in FecHdr /\ fechdr.group_tstamp < Word32
    <2>1. PICK z \in FecHdr : z = ZeroHdr /\ z.group_tstamp < Word32
      BY ZeroHdrType
    <2>2. fechdr = z /\ fecout = fec_pkt_init(z)
      BY <2>1 DEF FecInit
    <2>3. FecMagic \in FecByte /\ 0 \in 0 .. Word16 - 1
      BY WordTypes, FecPktAssumption DEF FecByte
    <2>4. fec_pkt_init(z) \in FecHdr
      BY <2>3, WordTypes DEF fec_pkt_init, FecHdr
    <2> QED
      BY <2>1, <2>2, <2>4
  <1>2. fecdata \in Seq(FecByte) /\ Len(fecdata) = HdrSize + MaxPayload
    BY WordTypes, FecPktAssumption DEF FecInit, Zeroes, HdrSize
  <1> QED
    <2>1. fecload \in Seq(FecByte) /\ Len(fecload) <= MaxPayload /\ fecwire = Nothing
          /\ fecintact = FALSE /\ fecret = Unread
      BY FecPktAssumption DEF FecInit
    <2>2. fecret \in {Unread, -1, 0, 1} /\ fecret # 1
      BY <2>1 DEF Unread
    <2> QED
      BY <1>1, <1>2, <2>1, <2>2 DEF FecInv, FecTypeOK, WireInv, ReadIsOneDatagram

\* What can be read of a datagram, and what there is after it was.
LEMMA TakenType ==
  ASSUME FecInv, fecwire \in Seq(FecByte)
  PROVE  /\ Taken \in Seq(FecByte) /\ Len(Taken) \in 0 .. HdrSize + MaxPayload
         /\ Len(fecwire) <= HdrSize + MaxPayload => Taken = fecwire
  <1>1. HdrSize + MaxPayload \in Nat
    BY FecPktAssumption DEF HdrSize
  <1> QED
    BY <1>1 DEF Taken

LEMMA OverlaidType ==
  ASSUME FecInv, fecwire \in Seq(FecByte)
  PROVE  /\ Overlaid \in Seq(FecByte) /\ Len(Overlaid) = HdrSize + MaxPayload
         /\ \A i \in 1 .. Len(Taken) : Overlaid[i] = Taken[i]
  <1>1. PICK t \in Seq(FecByte) : t = Taken /\ Len(t) \in 0 .. HdrSize + MaxPayload
    BY TakenType
  <1>2. fecdata \in Seq(FecByte) /\ Len(fecdata) = HdrSize + MaxPayload
    BY DEF FecInv, FecTypeOK
  <1>3. PICK r \in Seq(FecByte) : r = SubSeq(fecdata, Len(t) + 1, Len(fecdata))
                                 /\ Len(r) = Len(fecdata) - Len(t)
    <2>1. PICK a \in Nat \ {0}, b \in Nat :
            a <= b + 1 /\ b <= Len(fecdata) /\ a = Len(t) + 1 /\ b = Len(fecdata) /\ b - a + 1 = Len(fecdata) - Len(t)
      BY <1>1, <1>2
    <2>2. PICK d \in Seq(FecByte) : d = fecdata
      BY <1>2
    <2>3. SubSeq(d, a, b) \in Seq(FecByte) /\ Len(SubSeq(d, a, b)) = b - a + 1
      BY <2>1, <2>2, PartOf
    <2> QED
      BY <2>1, <2>2, <2>3
  <1>4. Overlaid = t \o r
    BY <1>1, <1>3 DEF Overlaid
  <1> QED
    BY <1>1, <1>2, <1>3, <1>4, OneAfterOther

LEMMA PktSend ==
  ASSUME NEW seq \in {0, 1}, NEW len \in 0 .. MaxPayload, NEW time \in Tstamps,
         FecInv, FecSend(seq, len, time)
  PROVE  FecInv'
  <1>1. fecout' \in FecHdr /\ fecout'.len = len /\ fecout'.magic = FecMagic
    <2>1. time \in Nat /\ len \in 0 .. Word16 - 1 /\ MaxPayload \in 0 .. Word16 - 1
          /\ seq \in FecByte /\ FecMagic \in FecByte
      BY WordTypes, FecPktAssumption DEF Word16, FecByte
    <2>2. fecout \in FecHdr
      BY DEF FecInv, FecTypeOK
    <2> QED
      BY <2>1, <2>2, WordTypes DEF FecSend, fec_pkt_init, FecHdr
  <1>2. fecload' \in Seq(FecByte) /\ Len(fecload') = len
    <2>1. fecload' = [b \in 1 .. len |-> seq]
      BY DEF FecSend
    <2>2. seq \in FecByte
      BY WordTypes
    <2>3. len \in Nat
      BY FecPktAssumption
    <2> QED
      BY <2>1, <2>2, <2>3
  <1>3. fecwire' = Pack(fecout') \o fecload' /\ fecwire' \in Seq(FecByte)
    <2>1. Pack(fecout') \in Seq(FecByte)
      BY <1>1, PackType
    <2>2. fecwire' = Pack(fecout') \o fecload'
      BY DEF FecSend
    <2> QED
      BY <1>2, <2>1, <2>2, OneAfterOther
  <1>4. len <= MaxPayload
    BY FecPktAssumption
  <1>5. FecTypeOK'
    BY <1>1, <1>2, <1>3, <1>4 DEF FecInv, FecTypeOK, FecSend
  <1> QED
    BY <1>1, <1>2, <1>3, <1>5 DEF FecInv, WireInv, ReadIsOneDatagram, FecSend, Unread

LEMMA PktTamper ==
  ASSUME FecInv, Tamper
  PROVE  FecInv'
  <1>1. fecwire \in Seq(FecByte) /\ Len(fecwire) >= HdrSize
    <2>1. PICK p \in Seq(FecByte) : p = Pack(fecout) /\ Len(p) = HdrSize
      BY PackType DEF FecInv, FecTypeOK
    <2>2. fecwire = p \o fecload /\ fecload \in Seq(FecByte)
      BY <2>1 DEF FecInv, FecTypeOK, WireInv, Tamper
    <2>3. Len(p \o fecload) = Len(p) + Len(fecload) /\ p \o fecload \in Seq(FecByte)
      BY <2>2
    <2> QED
      BY <2>1, <2>2, <2>3, HdrSizeType
  <1>2. fecwire' \in Seq(FecByte)
    <2>1. CASE fecwire' \in {SubSeq(fecwire, 1, n) : n \in {c \in Cuts : c < Len(fecwire)}}
      <3>1. PICK n \in Cuts : n < Len(fecwire) /\ fecwire' = SubSeq(fecwire, 1, n)
        BY <2>1
      <3>2. n \in Nat
        BY FecPktAssumption
      <3> QED
        BY <1>1, <3>1, <3>2
    <2>2. CASE fecwire' = fecwire \o <<0>>
      BY <1>1, <2>2, WordTypes
    <2>3. CASE fecwire' \in {[fecwire EXCEPT ![1] = m] : m \in 0 .. ByteMod - 1 \ {FecMagic}}
      <3>1. PICK m \in FecByte : fecwire' = [fecwire EXCEPT ![1] = m]
        BY <2>3 DEF FecByte
      <3> QED
        BY <1>1, <3>1, ExceptSeq, HdrSizeType
    <2> QED
      BY <2>1, <2>2, <2>3 DEF Tamper, Tampered
  <1>3. FecTypeOK'
    BY <1>2 DEF FecInv, FecTypeOK, Tamper
  <1> QED
    BY <1>3 DEF FecInv, WireInv, ReadIsOneDatagram, Tamper, Unread

\* A packet that was sent is not nothing to read.
LEMMA SentIsThere ==
  ASSUME FecInv, fecwire = Nothing \/ fecwire = <<>>
  PROVE  ~fecintact
  <1> SUFFICES ASSUME fecintact PROVE FALSE
    OBVIOUS
  <1>1. PICK p \in Seq(FecByte) : p = Pack(fecout) /\ Len(p) = HdrSize
    BY PackType DEF FecInv, FecTypeOK
  <1>2. fecwire = p \o fecload /\ fecload \in Seq(FecByte)
    BY <1>1 DEF FecInv, FecTypeOK, WireInv
  <1>3. Len(p \o fecload) = Len(p) + Len(fecload)
    BY <1>2
  <1>4. Len(fecwire) > 1
    BY <1>1, <1>2, <1>3, HdrSizeType
  <1>5. fecwire # Nothing
    <2>1. ~(Len(Nothing) > 1)
      BY DEF Nothing
    <2> QED
      BY <1>4, <2>1, Zenon
  <1>6. fecwire # <<>>
    BY <1>4
  <1> QED
    BY <1>5, <1>6, Zenon

LEMMA PktReadNothing ==
  ASSUME FecInv, ReadFails \/ ReadEnd
  PROVE  FecInv'
  <1>1. ~fecintact
    BY SentIsThere DEF ReadFails, ReadEnd
  <1>2. fecret' \in {-1, 0}
    BY DEF ReadFails, ReadEnd
  <1>3. UNCHANGED <<fecout, fecload, fecwire, fecintact, fechdr, fecdata>>
    BY DEF ReadFails, ReadEnd
  <1> QED
    BY <1>1, <1>2, <1>3 DEF FecInv, FecTypeOK, WireInv, ReadIsOneDatagram, FecPayload, Taken

LEMMA PktRead ==
  ASSUME FecInv, FecRead
  PROVE  FecInv'
  <1>1. fecwire \in Seq(FecByte)
    BY DEF FecInv, FecTypeOK, FecRead
  <1>2. PICK t \in Seq(FecByte) : t = Taken /\ Len(t) \in 0 .. HdrSize + MaxPayload
    BY <1>1, TakenType
  <1>3. /\ fecdata' \in Seq(FecByte) /\ Len(fecdata') = HdrSize + MaxPayload
        /\ \A i \in 1 .. Len(t) : fecdata'[i] = t[i]
    BY <1>1, <1>2, OverlaidType DEF FecRead
  <1>4. UNCHANGED <<fecout, fecload, fecwire, fecintact>> /\ Taken' = Taken
    BY DEF FecRead, Taken
  <1>5. HdrSize \in Nat /\ MaxPayload \in Nat /\ HdrSize > 1 /\ Len(t) \in Nat
    BY <1>2, HdrSizeType
  <1>6. \/ Len(t) < HdrSize /\ fechdr' = fechdr /\ fecret' = -1
        \/ /\ Len(t) >= HdrSize /\ t[1] # FecMagic
           /\ fechdr' = [fechdr EXCEPT !.magic = t[1]] /\ fecret' = -1
        \/ /\ Len(t) >= HdrSize /\ t[1] = FecMagic
           /\ fechdr' = Unpack(fecdata')
           /\ fecret' = IF fechdr'.len = Len(t) - HdrSize THEN 1 ELSE -1
    BY <1>2, <1>5 DEF FecRead
  <1>7. FecTypeOK'
    <2>1. fechdr' \in FecHdr /\ fechdr'.group_tstamp < Word32
      <3>1. CASE Len(t) < HdrSize
        BY <1>2, <1>5, <1>6, <3>1 DEF FecInv, FecTypeOK
      <3>2. CASE Len(t) >= HdrSize /\ t[1] # FecMagic
        <4>1. t[1] \in FecByte
          BY <1>2, <1>5, <3>2
        <4>2. fechdr' = [fechdr EXCEPT !.magic = t[1]]
          BY <1>2, <1>5, <1>6, <3>2
        <4> QED
          BY <4>1, <4>2 DEF FecInv, FecTypeOK, FecHdr
      <3>3. CASE Len(t) >= HdrSize /\ t[1] = FecMagic
        BY <1>2, <1>3, <1>5, <1>6, <3>3, PackOfUnpacked
      <3> QED
        BY <1>2, <1>5, <3>1, <3>2, <3>3
    <2>2. fecret' \in {-1, 1}
      BY <1>6
    <2> QED
      BY <1>3, <1>4, <2>1, <2>2 DEF FecInv, FecTypeOK
  <1>8. fecret' = 1 => Taken' = Pack(fechdr') \o FecPayload'
    <2> SUFFICES ASSUME fecret' = 1 PROVE t = Pack(fechdr') \o FecPayload'
      BY <1>2, <1>4
    <2>1. Len(t) >= HdrSize /\ fechdr' = Unpack(fecdata') /\ fechdr'.len = Len(t) - HdrSize
      BY <1>6
    <2>2. PICK p \in Seq(FecByte) : /\ p = Pack(fechdr') /\ Len(p) = HdrSize
                                   /\ \A i \in 1 .. HdrSize : p[i] = fecdata'[i]
      <3>1. PICK d \in Seq(FecByte) : d = fecdata' /\ Len(d) >= HdrSize
        BY <1>3, <1>5
      <3>2. fechdr' = Unpack(d) /\ Unpack(d) \in FecHdr
        BY <2>1, <3>1, PackOfUnpacked
      <3> QED
        BY <3>1, <3>2, PackOfUnpacked, PackType
    <2>3. PICK l \in Seq(FecByte) : /\ l = FecPayload' /\ Len(l) = Len(t) - HdrSize
                                   /\ \A i \in 1 .. Len(t) - HdrSize : l[i] = fecdata'[HdrSize + i]
      <3>1. FecPayload' = SubSeq(fecdata', HdrSize + 1, Len(t))
        BY <1>2, <1>5, <2>1 DEF FecPayload
      <3> QED
        <4>1. PICK d \in Seq(FecByte) : d = fecdata' /\ Len(d) = HdrSize + MaxPayload
          BY <1>3
        <4>2. PICK a \in Nat \ {0}, b \in Nat :
                a <= b + 1 /\ b <= Len(d) /\ a = HdrSize + 1 /\ b = Len(t) /\ b - a + 1 = Len(t) - HdrSize
          BY <1>2, <1>5, <2>1, <4>1, SMTT(20)
        <4>3. PICK l \in Seq(FecByte) : l = SubSeq(d, a, b) /\ Len(l) = b - a + 1
                                       /\ \A i \in 1 .. b - a + 1 : l[i] = d[a + i - 1]
          <5>1. /\ SubSeq(d, a, b) \in Seq(FecByte) /\ Len(SubSeq(d, a, b)) = b - a + 1
                /\ \A i \in 1 .. b - a + 1 : SubSeq(d, a, b)[i] = d[a + i - 1]
            <6>1. a <= b + 1 /\ b <= Len(d)
              BY <4>2
            <6> QED
              BY <6>1, PartOf, Zenon
          <5> QED
            BY <5>1
        <4>4. ASSUME NEW i \in 1 .. Len(t) - HdrSize PROVE l[i] = d[HdrSize + i]
          <5>1. a + i - 1 = HdrSize + i
            BY <1>5, <4>2
          <5> QED
            BY <4>2, <4>3, <5>1
        <4> QED
          BY <3>1, <4>1, <4>2, <4>3, <4>4
    <2>4. Len(p \o l) = Len(t)
      <3>1. Len(p \o l) = Len(p) + Len(l)
        OBVIOUS
      <3> QED
        BY <1>5, <2>2, <2>3, <3>1
    <2>5. ASSUME NEW i \in 1 .. Len(t) PROVE (p \o l)[i] = t[i]
      <3>1. CASE i <= HdrSize
        <4>1. i \in 1 .. Len(p) /\ i \in 1 .. HdrSize
          BY <1>5, <2>2, <3>1
        <4>2. (p \o l)[i] = p[i]
          BY <4>1
        <4> QED
          BY <1>3, <2>2, <4>1, <4>2
      <3>2. CASE i > HdrSize
        <4>1. PICK j \in 1 .. Len(l) : i = Len(p) + j
          BY <1>2, <1>5, <2>1, <2>2, <2>3, <3>2
        <4>2. (p \o l)[i] = l[j]
          BY <4>1, OneAfterOther
        <4> QED
          BY <1>3, <1>5, <2>2, <2>3, <4>1, <4>2
      <3>3. i <= HdrSize \/ i > HdrSize
        BY <1>5
      <3> QED
        BY <3>1, <3>2, <3>3, Zenon
    <2>6. p \o l = t
      BY <2>4, <2>5, SeqEqual
    <2> QED
      BY <2>2, <2>3, <2>6
  <1>9. fecintact => /\ fecret' = 1
                     /\ fechdr' = [fecout EXCEPT !.group_tstamp = @ % Word32]
                     /\ FecPayload' = fecload
    <2> SUFFICES ASSUME fecintact
                 PROVE  /\ fecret' = 1
                        /\ fechdr' = [fecout EXCEPT !.group_tstamp = @ % Word32]
                        /\ FecPayload' = fecload
      OBVIOUS
    <2>1. /\ fecout \in FecHdr /\ fecout.magic = FecMagic /\ fecout.len = Len(fecload)
          /\ fecload \in Seq(FecByte) /\ Len(fecload) <= MaxPayload
      BY DEF FecInv, FecTypeOK, WireInv
    <2>2. PICK p \in Seq(FecByte) : p = Pack(fecout) /\ Len(p) = HdrSize
      BY <2>1, PackType
    <2>3. fecwire = p \o fecload
      BY <2>2 DEF FecInv, WireInv
    <2>4. Len(fecwire) = HdrSize + Len(fecload)
      BY <2>1, <2>2, <2>3
    <2>5. t = p \o fecload
      BY <1>1, <1>2, <1>5, <2>1, <2>3, <2>4, TakenType
    <2>6. /\ Len(t) = HdrSize + Len(fecload)
          /\ \A i \in 1 .. HdrSize : t[i] = p[i]
          /\ \A i \in 1 .. Len(fecload) : t[HdrSize + i] = fecload[i]
      <3>1. PICK l \in Seq(FecByte) : l = fecload /\ Len(l) \in Nat
        BY <2>1
      <3>2. /\ Len(p \o l) = Len(p) + Len(l)
            /\ \A i \in 1 .. Len(p) : (p \o l)[i] = p[i]
            /\ \A i \in 1 .. Len(l) : (p \o l)[Len(p) + i] = l[i]
        BY OneAfterOther
      <3> QED
        BY <2>2, <2>5, <3>1, <3>2
    <2>7. p[1] = FecMagic
      BY <2>1, <2>2 DEF Pack
    <2>8. Unpack(fecdata') = [fecout EXCEPT !.group_tstamp = @ % Word32]
      <3>1. \A i \in 1 .. HdrSize : fecdata'[i] = Pack(fecout)[i]
        <4>1. Len(t) \in Nat /\ Len(fecload) \in Nat
          BY <2>1
        <4>2. \A i \in 1 .. HdrSize : i \in 1 .. Len(t)
          BY <1>5, <2>6, <4>1
        <4> QED
          BY <1>3, <2>2, <2>6, <4>2
      <3> QED
        BY <1>3, <2>1, <3>1, UnpackOfPacked
    <2>9. t[1] = FecMagic /\ Len(t) >= HdrSize
      BY <1>5, <2>1, <2>6, <2>7
    <2>10. fechdr' = [fecout EXCEPT !.group_tstamp = @ % Word32]
      BY <1>2, <1>5, <1>6, <2>8, <2>9
    <2>11. fechdr'.len = Len(fecload)
      BY <2>1, <2>10 DEF FecHdr
    <2>12. fecret' = 1
      BY <1>5, <1>6, <2>1, <2>6, <2>9, <2>11
    <2>13. FecPayload' = SubSeq(fecdata', HdrSize + 1, HdrSize + Len(fecload))
      BY <2>11 DEF FecPayload
    <2>14. FecPayload' = fecload
      <3>1. PICK l \in Seq(FecByte) : /\ l = FecPayload' /\ Len(l) = Len(fecload)
              /\ \A i \in 1 .. Len(fecload) : l[i] = fecdata'[HdrSize + i]
        <4>1. PICK d \in Seq(FecByte) : d = fecdata' /\ Len(d) = HdrSize + MaxPayload
          BY <1>3
        <4>2. PICK a \in Nat \ {0}, b \in Nat :
                a <= b + 1 /\ b <= Len(d) /\ a = HdrSize + 1 /\ b = HdrSize + Len(fecload)
                /\ b - a + 1 = Len(fecload)
          <5>1. PICK n \in Nat : n = Len(fecload) /\ n <= MaxPayload
            BY <2>1
          <5>2. PICK a \in Nat \ {0}, b \in Nat : a = HdrSize + 1 /\ b = HdrSize + n
            BY <1>5
          <5>3. a <= b + 1 /\ b <= Len(d) /\ b - a + 1 = n
            BY <1>5, <4>1, <5>1, <5>2
          <5> QED
            BY <5>1, <5>2, <5>3, Zenon
        <4>3. PICK l \in Seq(FecByte) : l = SubSeq(d, a, b) /\ Len(l) = b - a + 1
                                       /\ \A i \in 1 .. b - a + 1 : l[i] = d[a + i - 1]
          <5>1. /\ SubSeq(d, a, b) \in Seq(FecByte) /\ Len(SubSeq(d, a, b)) = b - a + 1
                /\ \A i \in 1 .. b - a + 1 : SubSeq(d, a, b)[i] = d[a + i - 1]
            <6>1. a <= b + 1 /\ b <= Len(d)
              BY <4>2
            <6> QED
              BY <6>1, PartOf, Zenon
          <5> QED
            BY <5>1
        <4>4. ASSUME NEW i \in 1 .. Len(fecload) PROVE l[i] = d[HdrSize + i]
          <5>1. a + i - 1 = HdrSize + i
            BY <1>5, <4>2
          <5> QED
            BY <4>2, <4>3, <5>1
        <4> QED
          BY <2>13, <4>1, <4>2, <4>3, <4>4
      <3>2. ASSUME NEW i \in 1 .. Len(fecload) PROVE l[i] = fecload[i]
        BY <1>3, <1>5, <2>1, <2>6, <3>1, <3>2
      <3> QED
        BY <2>1, <3>1, <3>2, SeqEqual
    <2> QED
      BY <2>10, <2>12, <2>14
  <1> QED
    BY <1>4, <1>7, <1>8, <1>9 DEF FecInv, WireInv, ReadIsOneDatagram

LEMMA PktNext ==
  ASSUME FecInv, [FecNext]_fecVars
  PROVE  FecInv'
  <1>1. ASSUME NEW seq \in {0, 1}, NEW len \in 0 .. MaxPayload, NEW time \in Tstamps,
               FecSend(seq, len, time)
        PROVE  FecInv'
    BY <1>1, PktSend
  <1>2. CASE Tamper
    BY <1>2, PktTamper
  <1>3. CASE ReadFails \/ ReadEnd
    BY <1>3, PktReadNothing
  <1>4. CASE FecRead
    BY <1>4, PktRead
  <1>5. CASE UNCHANGED fecVars
    BY <1>5 DEF fecVars, FecInv, FecTypeOK, WireInv, ReadIsOneDatagram, FecPayload, Taken
  <1> QED
    BY <1>1, <1>2, <1>3, <1>4, <1>5 DEF FecNext

LEMMA PktInvariant == FecPkt => []FecInv
  <1>1. FecInit => FecInv
    BY PktInit
  <1>2. FecInv /\ [FecNext]_fecVars => FecInv'
    BY PktNext
  <1> QED
    BY <1>1, <1>2, PTL DEF FecPkt

\* The packets sent and read stay in their types, for every size of payload and byte.
THEOREM FecTypeCorrect == FecPkt => []FecTypeOK
  <1>1. FecInv => FecTypeOK
    BY DEF FecInv
  <1> QED
    BY <1>1, PktInvariant, PTL

\* A packet that fec_pkt_read accepts is all of one datagram, and a packet that arrives
\* as it was sent is accepted with every field, whatever a byte holds and a payload.
THEOREM FecReadsOneDatagram == FecPkt => []ReadIsOneDatagram
  <1>1. FecInv => ReadIsOneDatagram
    BY DEF FecInv
  <1> QED
    BY <1>1, PktInvariant, PTL
-----------------------------------------------------------------------------
\* Packets

\* Whatever packet is used, each of the four is in a behaviour of its own module: what
\* is proved of that holds of the four together.
LEMMA PacketsAreTheFour == Packets => RtpPacket /\ RtcpList /\ RtcpSdes /\ FecPkt
  <1>1. PacketsInit => RtpInit /\ ListInit /\ SdesInit /\ FecInit
    BY DEF PacketsInit
  <1>2. [PacketsNext]_<<packet, rtpVars, listVars, sdesVars, fecVars>>
          => [RtpNext]_rtpVars /\ [ListNext]_listVars /\ [SdesNext]_sdesVars /\ [FecNext]_fecVars
    BY Zenon DEF PacketsNext
  <1> QED
    BY <1>1, <1>2, PTL DEF Packets, RtpPacket, RtcpList, RtcpSdes, FecPkt

\* The fields of all four packets stay in their types, for any sources and sizes.
THEOREM PacketTypeCorrect == Packets => []PacketTypeOK
  <1>1. RtpTypeOK /\ ListTypeOK /\ SdesTypeOK /\ FecTypeOK => PacketTypeOK
    BY DEF PacketTypeOK
  <1> QED
    BY <1>1, PacketsAreTheFour, RtpTypeCorrect, ListTypeCorrect, SdesTypeCorrect,
       FecTypeCorrect, PTL

\* What is proved of each packet holds of the specification the model checker runs.
THEOREM PacketsAreRight ==
  Packets => /\ [](ReceivesWhatWasSent /\ ListsAdded /\ FaultsHaveCauses)
             /\ [](RoundTrip /\ KeepsOthers) /\ WritesInside
             /\ [](ItemsAsSet /\ HarmHasCauses)
             /\ []ReadIsOneDatagram
  BY PacketsAreTheFour, RtpReceivesWhatWasSent, RtpListsAdded, RtpFaultsHaveCauses,
     ListRoundTrip, ListKeepsOthers, ListWritesInside, SdesItemsAsSet,
     SdesHarmHasCauses, FecReadsOneDatagram, PTL
=============================================================================
