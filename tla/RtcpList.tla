------------------------------ MODULE RtcpList ------------------------------
(***************************************************************************)
(* The RTCP packets with a list or a tail: the sender report (rtcp_sr.c),  *)
(* the receiver report (rtcp_rr.c), the goodbye (rtcp_bye.c) and the       *)
(* application's own (rtcp_app.c).  Their code has one shape: a count of   *)
(* five bits, an array allocated for exactly that many elements (an APP    *)
(* has none), an optional tail (extension or application data, or the      *)
(* message of a BYE) and a header length that every operation recomputes,  *)
(* and that the parser believes.                                           *)
(*                                                                         *)
(* The array is modelled by its 32-bit words, each told by the source it   *)
(* was written for: an element of a report takes ReportWords of them, the  *)
(* first its ssrc, and an element of a BYE takes one.                      *)
(***************************************************************************)
EXTENDS Integers, Sequences, FiniteSets

CONSTANTS Source,       \* source identifiers
          ZeroSource,   \* 0, which calloc leaves where nothing is stored
          ReportWords,  \* words of an rtcp_report: 6
          MaxCount,     \* largest count a header holds: 31
          Sizes,        \* sizes in bytes of extension data and messages
          MaxMessage,   \* longest message a BYE carries: 255
          MaxBeyond     \* bound: words a foreign datagram has, or tells of, after its list

ASSUME ReportWordsAssumption == ReportWords \in Nat /\ ReportWords > 1
ASSUME MaxCountAssumption == MaxCount \in Nat \ {0} /\ MaxCount <= 8 * ReportWords
ASSUME SizesAssumption == Sizes \subseteq Nat
ASSUME MaxMessageAssumption == MaxMessage \in Nat
ASSUME ZeroSourceAssumption == ZeroSource \in Source
ASSUME MaxBeyondAssumption == MaxBeyond \in Nat

VARIABLES kind,     \* which of the packets
          count,    \* header.common.count
          words,    \* the array reports or src_ids
          ext,      \* ext_size, app_size or strlen(message); NoExt if there is none
          length,   \* header.common.length
          members,  \* history: the sources added or received, and not removed
          mixed,    \* history: a report that was not the last has been removed, or the
                    \* datagram parsed lists a source twice or ends among its sources
          stale,    \* history: the length is that of a datagram the packet is not
          broken,   \* memory of neither packet nor datagram was used, or the packet freed
          heard     \* history: words of the datagram whose parsing did that, or 0

listVars == <<kind, count, words, ext, length, members, mixed, stale, broken, heard>>

NoExt == -1
Kinds == {"SR", "RR", "BYE", "APP"}

\* Words before the list, and of one element.
Base(k) == CASE k = "SR" -> 7 [] k = "RR" -> 2 [] k = "BYE" -> 1 [] k = "APP" -> 3
Width(k) == IF k = "BYE" THEN 1 ELSE ReportWords

\* Words of the tail: the size of a message is sent before it.
Padded(bytes) == (bytes + 3) \div 4
TailWords(k, e) == IF e = NoExt THEN 0
                   ELSE Padded(IF k = "BYE" THEN e + 1 ELSE e)

\* rtcp_sr_size, rtcp_rr_size, rtcp_bye_size, rtcp_app_size, in words
Holds(k, c) == Base(k) + c * Width(k)
PacketWords(k, c, e) == Holds(k, c) + TailWords(k, e)

\* header.common.length has sixteen bits: no packet is larger than it can tell.
ASSUME LengthAssumption ==
  \A k \in Kinds, size \in Sizes : PacketWords(k, MaxCount, size) <= 65536

\* Every operation ends with this.
UpdateLength == length' = PacketWords(kind', count', ext') - 1 /\ stale' = FALSE

\* A parser that did not get past the header has taken its count, and has no array:
\* whatever looks into it reads through a null pointer.
Hollow == count > 0 /\ words = <<>>
Sound == ~broken /\ ~Hollow

\* rtcp_sr_find_report, rtcp_rr_find_report, rtcp_bye_find_source
Ssrc(i) == words[(i - 1) * Width(kind) + 1]
Listed(src) == \E i \in 1..count : Ssrc(i) = src
IsFirst(i, src) == Ssrc(i) = src /\ \A j \in 1 .. i - 1 : Ssrc(j) # src

-----------------------------------------------------------------------------
Fresh == /\ count = 0 /\ words = <<>>
         /\ ext = NoExt
         /\ length = Base(kind) - 1
         /\ members = {}
         /\ mixed = FALSE /\ stale = FALSE /\ broken = FALSE
         /\ heard = 0

ListInit == kind \in Kinds /\ Fresh

\* The packet is freed, and another of its kind created and initialized.
ListRecreate == /\ ~broken
                /\ count' = 0 /\ words' = <<>>
                /\ ext' = NoExt
                /\ length' = Base(kind) - 1
                /\ members' = {}
                /\ mixed' = FALSE /\ stale' = FALSE
                /\ UNCHANGED <<kind, broken, heard>>

Element(src) == [w \in 1..Width(kind) |-> src]

AddRefused(src) == /\ Sound /\ Listed(src)
                   /\ UNCHANGED listVars

Add(src) == /\ Sound /\ ~Listed(src) /\ count < MaxCount
            /\ count' = count + 1
            /\ words' = words \o Element(src)
            /\ members' = members \union {src}
            /\ UNCHANGED <<kind, ext, mixed, broken, heard>>
            /\ UpdateLength

\* The test for a full packet is for 0xff, which five bits never hold: the count
\* wraps to 0, the array is freed and the element stored before its start.
AddWraps(src) == /\ Sound /\ ~Listed(src) /\ count = MaxCount
                 /\ count' = 0
                 /\ words' = <<>>
                 /\ members' = members \union {src}
                 /\ broken' = TRUE
                 /\ UNCHANGED <<kind, ext, mixed, heard>>
                 /\ UpdateLength

\* find, add, remove and serialize of a packet without its array.
UseHollow == /\ ~broken /\ Hollow
             /\ broken' = TRUE
             /\ UNCHANGED <<kind, count, words, ext, length, members, mixed, stale, heard>>

\* index in remove_report: the difference of two pointers to reports, divided by
\* the bytes of a report once more than the language has done.
Index(i) == IF kind = "BYE" THEN i - 1
            ELSE IF i - 1 < 4 * ReportWords THEN 0 ELSE 1

\* Mutant: the last element is not moved.
MovedTooFew(i) == count - Index(i) - 2

\* Mutant: an element more is moved.
MovedTooMany(i) == count - Index(i) + 1

\* The words memmove moves down by one element: one for each element, although an
\* element of a report has more.
Moved(i) == count - Index(i)

Shifted(i) == LET dest == (i - 1) * Width(kind)
              IN  [w \in 1 .. (count - 1) * Width(kind) |->
                     IF w \in dest + 1 .. dest + Moved(i)
                     THEN words[w + Width(kind)] ELSE words[w]]

\* memmove writes past the array when it moves more words than are left of it.
Spills(i) == (i - 1) * Width(kind) + Moved(i) > Len(words)

Remove(src, i) == /\ Sound /\ IsFirst(i, src)
                  /\ count' = count - 1
                  /\ words' = Shifted(i)
                  /\ members' = members \ {src}
                  /\ mixed' = (mixed \/ (kind # "BYE" /\ i < count))
                  /\ broken' = Spills(i)
                  /\ UNCHANGED <<kind, ext, heard>>
                  /\ UpdateLength

RemoveUnknown(src) == /\ Sound /\ ~Listed(src)
                      /\ UNCHANGED listVars

-----------------------------------------------------------------------------
\* What set_ext of SR and RR, set_message of BYE and set_data of APP do.
SetTail(size) == /\ ~broken
                 /\ ext = NoExt
                 /\ kind = "SR" => size % 4 = 0
                 /\ ext' = size
                 /\ UNCHANGED <<kind, count, words, members, mixed, broken, heard>>
                 /\ UpdateLength

SetExt(size) == kind \in {"SR", "RR"} /\ SetTail(size)
SetMessage(size) == kind = "BYE" /\ SetTail(size)
SetData(size) == kind = "APP" /\ SetTail(size)

SetTailRefused(size) == /\ ~broken
                        /\ ext # NoExt \/ (kind = "SR" /\ size % 4 # 0)
                        /\ UNCHANGED listVars

\* Mutant: the header length is left as it was.
ClearTailOnly == /\ ~broken
                /\ ext' = NoExt
                /\ UNCHANGED <<kind, count, words, length, members, mixed, stale, broken, heard>>

ClearTail == /\ ~broken
             /\ ext' = NoExt
             /\ UNCHANGED <<kind, count, words, members, mixed, broken, heard>>
             /\ UpdateLength

ClearExt == kind \in {"SR", "RR"} /\ ClearTail
ClearMessage == kind = "BYE" /\ ClearTail
ClearData == kind = "APP" /\ ClearTail

-----------------------------------------------------------------------------
\* A datagram has a count c, its array, a length l and n whole words.  Of the array
\* the parsers of reports store the elements that are there, up to the first that is not.
Arrived(array, n) ==
  LET there == ((n - Base(kind)) \div Width(kind)) * Width(kind)
  IN  [w \in DOMAIN array |-> IF w <= there THEN array[w] ELSE ZeroSource]

\* What the length leaves for a tail.
TailTold(c, l) == IF l + 1 <= Holds(kind, c) THEN NoExt ELSE 4 * (l + 1 - Holds(kind, c))

\* rtcp_sr_parse, rtcp_rr_parse: the fields before the reports are read unasked, and the
\* tail's size is what the length says, less what was read, without a sign.
ParseReport(c, array, l, n) ==
  /\ kind \in {"SR", "RR"}
  /\ words' = Arrived(array, n)
  /\ ext' = IF n < Holds(kind, c) THEN NoExt ELSE TailTold(c, l)
  /\ stale' = (n < Holds(kind, c))
  /\ broken' = \/ n < Base(kind)
               \/ n >= Holds(kind, c) /\ (l + 1 < Holds(kind, c) \/ l + 1 > n)

\* rtcp_app_parse
ParseApp(c, array, l, n) ==
  /\ kind = "APP" /\ c = 0
  /\ words' = array
  /\ ext' = TailTold(c, l)
  /\ stale' = (l + 1 < Base(kind))
  /\ broken' = (n < Base(kind) \/ l + 1 > n)

\* rtcp_bye_parse frees its caller's packet if the sources are not all there, and
\* writes the end mark of a message one byte past its array.
ParseBye(c, array, l, n) ==
  /\ kind = "BYE"
  /\ words' = array
  /\ ext' = NoExt
  /\ stale' = (l + 1 # Holds(kind, c))
  /\ broken' = (n # Holds(kind, c))

ListParse(c, array, l, n) ==
  /\ kind' = kind /\ count' = c /\ length' = l
  /\ ParseReport(c, array, l, n) \/ ParseApp(c, array, l, n) \/ ParseBye(c, array, l, n)
  /\ heard' = IF broken' THEN n ELSE 0

\* The packet is serialized and n words of it parsed into an empty packet, which takes
\* its place.  A BYE whose message is too long for its size byte is not serialized.
ParseOwn(n) == /\ Sound
               /\ kind = "BYE" => ext <= MaxMessage
               /\ ListParse(count, words, length, n)
               /\ mixed' = (mixed \/ n < Holds(kind, count))
               /\ UNCHANGED members

\* Another's datagram, with any sources, length and end.
ParseForeign(sources, l, n) ==
  LET c == Len(sources)
  IN  /\ ListParse(c, [w \in 1 .. c * Width(kind) |-> sources[(w - 1) \div Width(kind) + 1]], l, n)
      /\ members' = {sources[i] : i \in 1..c}
      /\ mixed' = \/ n < Holds(kind, c)
                  \/ \E i \in 1..c : \E j \in 1 .. i - 1 : sources[i] = sources[j]

\* A header of another version or type: its count and length are taken.
ParseHeaderOnly(c, l) ==
  /\ kind = "APP" => c = 0
  /\ count' = c /\ length' = l
  /\ stale' = TRUE
  /\ UNCHANGED <<kind, words, ext, members, mixed, broken, heard>>

\* What is received is parsed into a new packet.
Receive ==
  /\ Fresh
  /\ \E c \in 0..MaxCount : \E l \in 0 .. Holds(kind, c) + MaxBeyond :
       \/ ParseHeaderOnly(c, l)
       \/ \E sources \in [1..c -> Source], n \in 1 .. Holds(kind, c) + MaxBeyond :
            ParseForeign(sources, l, n)

ListSerializeRefused == /\ Sound
                    /\ kind = "BYE" /\ ext > MaxMessage
                    /\ UNCHANGED listVars

ListNext == \/ /\ kind # "APP"
               /\ \E src \in Source : \/ AddRefused(src) \/ Add(src) \/ AddWraps(src)
                                      \/ RemoveUnknown(src)
                                      \/ \E i \in 1..count : Remove(src, i)
            \/ \E size \in Sizes : \/ SetExt(size) \/ SetMessage(size) \/ SetData(size)
                                  \/ SetTailRefused(size)
            \/ ClearExt \/ ClearMessage \/ ClearData
            \/ \E n \in 1 .. PacketWords(kind, count, ext) : ParseOwn(n)
            \/ Receive
            \/ ListSerializeRefused \/ UseHollow \/ ListRecreate

RtcpList == ListInit /\ [][ListNext]_listVars

-----------------------------------------------------------------------------
\* Type invariant.
ListTypeOK ==
  /\ kind \in Kinds
  /\ count \in 0..MaxCount
  /\ words \in Seq(Source) /\ Len(words) \in {0, count * Width(kind)}
  /\ ext \in Nat \union {NoExt}
  /\ kind = "SR" /\ ext # NoExt => ext % 4 = 0
  /\ length \in Nat
  /\ members \subseteq Source
  /\ mixed \in BOOLEAN
  /\ stale \in BOOLEAN
  /\ broken \in BOOLEAN
  /\ heard \in Nat

\* What the length leaves for the tail, as the parsers of SR, RR and APP find it.
ParsedExt == 4 * (length + 1 - Holds(kind, count))

\* What the serializers write the parsers read back, after any sequence of calls:
\* the header length is the size of the packet, and the tail a parser works out
\* from it is the extension data, which those of RR and APP pad to whole words;
\* but for a packet that has another's length, until one of its calls computes its own.
RoundTrip ==
  ~broken /\ ~stale =>
    /\ length + 1 = PacketWords(kind, count, ext)
    /\ kind = "SR" /\ ext # NoExt => ParsedExt = ext
    /\ kind \in {"RR", "APP"} /\ ext # NoExt => ParsedExt \in ext .. ext + 3
    /\ kind # "BYE" /\ ext = NoExt => ParsedExt = 0

\* The array lists the members, each once and whole.
ListsMembers ==
  /\ \A i \in 1..count : \A w \in 1..Width(kind) :
       words[(i - 1) * Width(kind) + w] = Ssrc(i)
  /\ {Ssrc(i) : i \in 1..count} = members
  /\ Cardinality(members) = count

\* Adding and removing sources, whatever is refused in between, leaves the other
\* sources of a BYE as they were; and those of a report, as long as it was the last
\* one that was removed each time.  So does parsing what names no source twice and
\* does not end among its sources.
KeepsOthers == Sound /\ ~mixed => ListsMembers

\* Memory that is neither the packet's nor the datagram's is read or written, or the
\* packet freed under its caller, in these cases only: an element is added to a full
\* packet, one is removed from more reports than a report has words, a packet is used
\* whose array the parser never made, a BYE is parsed that is not its sources and no
\* more, another datagram that has fewer words than its header says, or whose header
\* says fewer than its list has.
WritesInside ==
  [][ broken' => \/ broken
                 \/ count = MaxCount /\ count' = 0
                 \/ kind # "BYE" /\ count > ReportWords
                 \/ Hollow
                 \/ kind = "BYE" /\ heard' \notin {0, Holds(kind, count')}
                 \/ kind # "BYE" /\ heard' > 0
                      /\ (length' + 1 > heard' \/ length' + 1 < Holds(kind, count')) ]_listVars
=============================================================================
