------------------------------ MODULE RtpPacket ------------------------------
(***************************************************************************)
(* The RTP packet of src/rtp/rtp_packet.c and its header of rtp_header.c:  *)
(* a list of contributing sources, an extension, a payload; serialized     *)
(* into a datagram, cut or damaged on its way, and parsed into a new       *)
(* packet or into one that was used before.                                *)
(*                                                                         *)
(* Everything after the first twelve bytes is counted in 32-bit words.  A  *)
(* word is the number of words an extension header announces, or a model   *)
(* value for a source or for data.  The fixed fields of the header are     *)
(* reduced to whether rtp_header_parse takes their values.                 *)
(***************************************************************************)
EXTENDS Integers, Sequences

CONSTANTS Csrc,        \* contributing sources
          Datum,       \* a word of extension or payload
          CcMod,       \* cc counts modulo this: 16
          WireMod,     \* what is serialized of cc: 8
          IndexMod,    \* serialize's index into the extension counts modulo this: 256
          ExtSizes,    \* words of extension callers set
          MaxMisread,  \* bound on the count a word that is none is misread as
          Room         \* words in the buffer of serialize, past the first three

ASSUME CcAssumption == CcMod \in Nat /\ WireMod \in Nat /\ 1 < WireMod /\ WireMod < CcMod
ASSUME IndexAssumption == IndexMod \in Nat /\ ExtSizes \subseteq Nat
ASSUME BoundAssumption == Room \in Nat /\ MaxMisread \in Nat
\* A count is told from other words.
ASSUME WordAssumption == \A w \in Csrc \union {Datum} : w \notin Nat

VARIABLES cc,        \* header->cc
          csrc,      \* header->csrc as allocated, <<>> for NULL
          x,         \* header->x
          extdata,   \* header->ext_data: "null", "set", or "freed" but not NULL
          extcount,  \* header->ext_count
          payload,   \* packet->payload_data, in words, or NoPayload
          use,       \* history: the packet is "new", "received" when new, or "used"
          added,     \* history: the sources added and not removed, in order
          spoiled,   \* history: the last parse failed
          datagram,  \* what is on its way, or NoDatagram
          fault      \* undefined behaviour the last call ran into: the end

header == <<cc, csrc, x, extdata, extcount, added>>
rtpVars == <<header, payload, use, spoiled, datagram, fault>>

NoPayload == -1
NoDatagram == [words |-> <<>>, cc |-> 0, x |-> FALSE, damaged |-> FALSE, sent |-> <<>>]
Running == fault = "none"

-----------------------------------------------------------------------------
\* rtp_header_create and rtp_header_init, of a new header or in place of one freed
EmptyHeader == /\ cc' = 0 /\ csrc' = <<>> /\ x' = FALSE
               /\ extdata' = "null" /\ extcount' = 0
               /\ added' = <<>>

\* rtp_packet_create, rtp_packet_init
RtpInit == /\ cc = 0 /\ csrc = <<>> /\ x = FALSE
           /\ extdata = "null" /\ extcount = 0
           /\ payload = NoPayload
           /\ use = "new" /\ added = <<>> /\ spoiled = FALSE
           /\ datagram = NoDatagram
           /\ fault = "none"

\* rtp_packet_free, and a new packet: ext_data that clear left is freed once more.
Recreate == /\ Running
            /\ IF extdata = "freed"
               THEN /\ fault' = "double free"
                    /\ UNCHANGED <<header, payload, use, spoiled>>
               ELSE /\ EmptyHeader
                    /\ payload' = NoPayload
                    /\ use' = "new" /\ spoiled' = FALSE
                    /\ UNCHANGED fault
            /\ UNCHANGED datagram

\* rtp_header_find_csrc looks at the first cc words of the array, as add and remove do.
Sources == SubSeq(csrc, 1, cc)
Finds(src) == \E i \in 1..Len(Sources) : Sources[i] = src
InArray == cc <= Len(csrc)

\* After a parse that failed, cc may be larger than the array.
FindBeyond == /\ Running /\ ~InArray
              /\ fault' = "overread"
              /\ UNCHANGED <<header, payload, use, spoiled, datagram>>

\* A sequence without the one place that has the element e.
Drop(s, e) ==
  LET places == {k \in DOMAIN s : s[k] = e}
      k == CHOOSE k \in places : TRUE
  IN  IF places = {} THEN s ELSE SubSeq(s, 1, k - 1) \o SubSeq(s, k + 1, Len(s))

Edit == /\ Running
        /\ use' = "used"
        /\ UNCHANGED <<spoiled, datagram>>

\* Mutant: no test for a full list, and a cc that is not a bit field.
AddCsrcUntested(src) == /\ Edit /\ InArray /\ ~Finds(src)
                        /\ cc' = cc + 1
                        /\ csrc' = Append(Sources, src)
                        /\ added' = IF spoiled THEN <<>> ELSE Append(added, src)
                        /\ UNCHANGED <<x, extdata, extcount, payload, fault>>

\* rtp_header_add_csrc; the first source takes a new array, whatever csrc was.
AddCsrc(src) == /\ Edit /\ InArray /\ ~Finds(src)
                /\ (cc + 1) % CcMod # 0
                /\ cc' = cc + 1
                /\ csrc' = Append(Sources, src)
                /\ added' = IF spoiled THEN <<>> ELSE Append(added, src)
                /\ UNCHANGED <<x, extdata, extcount, payload, fault>>

AddCsrcRefused(src) == /\ Running /\ InArray /\ Finds(src)
                       /\ UNCHANGED rtpVars

\* The test for a full list is for 0xff, which four bits never hold: cc wraps to 0,
\* realloc frees the array, and the source is stored in front of it.
AddCsrcWraps(src) == /\ Edit /\ InArray /\ ~Finds(src)
                     /\ (cc + 1) % CcMod = 0
                     /\ fault' = "wild store"
                     /\ UNCHANGED <<header, payload>>

\* Mutant: the count is lowered and nothing moved.
RemoveCsrcLast(src, i) == /\ Edit /\ InArray
                          /\ i <= cc /\ csrc[i] = src
                          /\ cc' = cc - 1
                          /\ csrc' = SubSeq(csrc, 1, cc - 1)
                          /\ added' = Drop(added, src)
                          /\ UNCHANGED <<x, extdata, extcount, payload, fault>>

\* rtp_header_remove_csrc of a source at place i
RemoveCsrc(src, i) == /\ Edit /\ InArray
                      /\ i <= cc /\ csrc[i] = src
                      /\ cc' = cc - 1
                      /\ csrc' = SubSeq(csrc, 1, i - 1) \o SubSeq(csrc, i + 1, cc)
                      /\ added' = Drop(added, src)
                      /\ UNCHANGED <<x, extdata, extcount, payload, fault>>

\* Callers set header->x themselves.
SetX == /\ Edit
        /\ x' = ~x
        /\ UNCHANGED <<cc, csrc, extdata, extcount, added, payload, fault>>

\* rtp_header_set_ext, refused while ext_data is not NULL
SetExtension(size) == /\ Edit
                      /\ extdata = "null"
                      /\ extdata' = "set" /\ extcount' = size
                      /\ UNCHANGED <<cc, csrc, x, added, payload, fault>>

SetExtensionRefused == /\ Running /\ extdata # "null"
                       /\ UNCHANGED rtpVars

\* Mutant: ext_count is left as it was.
ClearExtensionOnly == /\ Edit
                      /\ extdata = "set" /\ extdata' = "freed"
                      /\ UNCHANGED <<cc, csrc, x, extcount, added, payload, fault>>

\* rtp_header_clear_ext frees ext_data and leaves the pointer.
ClearExtension == /\ Edit
                  /\ extdata # "null"
                  /\ extdata' = "freed" /\ extcount' = 0
                  /\ fault' = IF extdata = "freed" THEN "double free" ELSE fault
                  /\ UNCHANGED <<cc, csrc, x, added, payload>>

\* rtp_packet_set_payload, refused while there is one, and clear_payload
SetPayload(size) == /\ Edit
                    /\ payload = NoPayload
                    /\ payload' = size
                    /\ UNCHANGED <<header, fault>>

SetPayloadRefused == /\ Running /\ payload # NoPayload
                     /\ UNCHANGED rtpVars

ClearPayload == /\ Edit
                /\ payload' = NoPayload
                /\ UNCHANGED <<header, fault>>

-----------------------------------------------------------------------------
\* rtp_header_size, past the first three words, for a cc and an x
HeaderWords(c, flag) == (IF csrc # <<>> THEN c ELSE 0)
                        + (IF flag /\ extdata # "null" /\ extcount > 0
                           THEN 1 + extcount ELSE 0)

Data(size) == [i \in 1..size |-> Datum]
SendsExt == x /\ extdata # "null" /\ extcount > 0
Payload == IF payload = NoPayload THEN 0 ELSE payload

\* After a parse that failed, the sources counted may be none: the size leaves them out,
\* and the extension is written behind the place they would have.
Misplaced == SendsExt /\ csrc = <<>> /\ cc > 0

\* rtp_header_serialize, past the fixed fields: all the sources are written. The header's
\* words are zeroes first, and the payload is copied over what lies behind them.
SentHeader ==
  LET extension == IF SendsExt THEN <<extcount>> \o Data(extcount) ELSE <<>>
  IN  IF Misplaced THEN SubSeq([i \in 1..cc |-> 0] \o extension, 1, 1 + extcount)
      ELSE (IF csrc = <<>> THEN <<>> ELSE Sources) \o extension

\* What the receiver should have: the sources, the extension sent, the payload.
Sent == <<IF csrc = <<>> THEN <<>> ELSE Sources, IF SendsExt THEN extcount ELSE 0, Payload>>

\* rtp_packet_serialize; of the number of sources, as much is written as goes in the
\* bits of the mask.
Serialize ==
  /\ Running
  /\ HeaderWords(cc, x) + Payload <= Room
  /\ fault' = IF csrc # <<>> /\ ~InArray THEN "overread"
              ELSE IF SendsExt /\ extdata = "freed" THEN "use after free"
              ELSE IF SendsExt /\ extcount >= IndexMod THEN "endless loop"
              ELSE IF Misplaced /\ cc + 1 + extcount > Room THEN "overwrite"
              ELSE "none"
  /\ datagram' =
       IF fault' # "none" THEN datagram
       ELSE [words |-> SentHeader \o Data(Payload),
             cc |-> IF csrc = <<>> THEN 0 ELSE cc % WireMod, x |-> SendsExt,
             damaged |-> Misplaced, sent |-> Sent]
  /\ UNCHANGED <<header, payload, use, spoiled>>

SerializeRefused == /\ Running
                    /\ HeaderWords(cc, x) + Payload > Room
                    /\ UNCHANGED rtpVars

\* The network, or a receiver's buffer that is smaller, cuts the datagram.
Cut(n) == /\ Running
          /\ n < Len(datagram.words)
          /\ datagram' = [datagram EXCEPT !.words = SubSeq(@, 1, n), !.damaged = TRUE]
          /\ UNCHANGED <<header, payload, use, spoiled, fault>>

-----------------------------------------------------------------------------
\* rtp_header_parse of a version or payload type it does not take changes no other field.
ParseBad == /\ Edit /\ datagram # NoDatagram
            /\ UNCHANGED <<header, payload, fault>>

\* The size is tested against the new cc and x and against what the packet was before:
\* nothing, if it is new.
TooShort == Len(datagram.words) < HeaderWords(datagram.cc, datagram.x)

ParseShort == /\ Running /\ datagram # NoDatagram /\ TooShort
              /\ cc' = datagram.cc /\ x' = datagram.x
              /\ spoiled' = TRUE /\ added' = <<>> /\ use' = "used"
              /\ UNCHANGED <<csrc, extdata, extcount, payload, datagram, fault>>

\* The count in an extension header; one misread from another word may be anything.
Announced(word) == IF word \in Csrc \union {Datum} THEN 0 .. MaxMisread ELSE {word}

\* Mutant: the words are stored from the last.
TakeFromLast(words, n) == [i \in 1..n |-> words[n + 1 - i]]

Take(words, n) == SubSeq(words, 1, n)

\* rtp_header_parse of a datagram that is long enough
ParseHeader(count) ==
  /\ cc' = datagram.cc /\ x' = datagram.x
  /\ csrc' = IF cc' > 0 THEN Take(datagram.words, cc') ELSE csrc
  /\ added' = IF cc' > 0 THEN csrc' ELSE <<>>
  /\ extdata' = IF x' THEN "set" ELSE extdata
  /\ extcount' = IF x' THEN count ELSE extcount

\* rtp_packet_parse, and what it reads past the datagram; set_payload refuses, and
\* parse does not say so, if the packet has a payload.
Parse(count) ==
  /\ Running /\ datagram # NoDatagram /\ ~TooShort
  /\ IF datagram.x /\ datagram.cc < Len(datagram.words)
     THEN count \in Announced(datagram.words[datagram.cc + 1])
     ELSE count = 0
  /\ IF datagram.cc + (IF datagram.x THEN 1 + count ELSE 0) > Len(datagram.words)
     THEN /\ fault' = "overread"
          /\ UNCHANGED <<header, payload, use, spoiled>>
     ELSE /\ ParseHeader(count)
          /\ payload' = IF payload # NoPayload THEN payload
                        ELSE Len(datagram.words) - HeaderWords(cc, x)'
          /\ use' = IF use = "new" THEN "received" ELSE "used"
          /\ spoiled' = FALSE
          /\ UNCHANGED fault
  /\ UNCHANGED datagram

RtpNext == \/ Recreate \/ FindBeyond \/ SetX \/ SetExtensionRefused \/ ClearExtension
           \/ SetPayloadRefused \/ ClearPayload \/ Serialize \/ SerializeRefused
           \/ ParseBad \/ ParseShort
           \/ \E src \in Csrc : \/ AddCsrc(src) \/ AddCsrcRefused(src) \/ AddCsrcWraps(src)
                                \/ \E i \in 1..Len(csrc) : RemoveCsrc(src, i)
           \/ \E size \in ExtSizes : SetExtension(size) \/ SetPayload(size)
           \/ \E n \in 0 .. Room : Cut(n)
           \/ \E count \in 0 .. Room : Parse(count)

RtpPacket == RtpInit /\ [][RtpNext]_rtpVars
-----------------------------------------------------------------------------
\* Type invariant.
RtpTypeOK ==
  /\ cc \in 0 .. CcMod - 1
  /\ csrc \in Seq(Csrc)
  /\ added \in Seq(Csrc)
  /\ x \in BOOLEAN
  /\ extdata \in {"null", "set", "freed"}
  /\ extcount \in Nat
  /\ payload \in Nat \union {NoPayload}
  /\ use \in {"new", "received", "used"}
  /\ spoiled \in BOOLEAN
  /\ fault \in {"none", "overread", "wild store", "double free", "use after free",
                "endless loop", "overwrite"}

\* What a new packet received is what was sent, sources, extension and payload, if the
\* datagram is whole, its extension in its place, and cc fitted in the bits serialized:
\* it would send the same.
ReceivesWhatWasSent ==
  use = "received" /\ ~datagram.damaged /\ Len(datagram.sent[1]) < WireMod => Sent = datagram.sent

\* Unless the last parse failed, the first cc words are the sources added and not
\* removed, or received, each once and in their order, also in a packet used again.
ListsAdded ==
  Running /\ ~spoiled => /\ InArray /\ Sources = added
                        /\ \A i, j \in 1..cc : added[i] = added[j] => i = j

\* Undefined behaviour has its causes and no other: a list one short of full, an extension
\* longer than its index counts, one cleared, and, of reading too far, a datagram cut or
\* one of more sources than it says, or, as of writing too far, a parse that failed.
FaultsHaveCauses ==
  /\ fault # "use after free"
  /\ fault = "wild store" => cc = CcMod - 1
  /\ fault = "endless loop" => extcount >= IndexMod
  /\ fault = "double free" => extdata = "freed"
  /\ fault = "overwrite" => spoiled
  /\ fault = "overread" => spoiled \/ datagram.damaged \/ Len(datagram.sent[1]) >= WireMod
=============================================================================
