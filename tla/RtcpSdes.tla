------------------------------ MODULE RtcpSdes ------------------------------
(***************************************************************************)
(* The RTCP source description packet of src/rtp/rtcp_sdes.c: entries, one *)
(* for each source, and their items, with the arithmetic of bytes that the *)
(* serializer pads entries by and the parser follows, which asks for the   *)
(* size of a datagram at its header and never again.  An item's data is    *)
(* told by its length.                                                     *)
(***************************************************************************)
EXTENDS Integers, Sequences

CONSTANTS Member,      \* sources described
          ZeroMember,  \* 0, which calloc leaves where nothing is stored
          ItemType,    \* RTCP_SDES_CNAME to RTCP_SDES_PRIV
          Lengths,     \* lengths of item data: up to 255
          MaxEntries,  \* largest count a header holds: 31
          MaxForeign   \* bound: items of an entry in another's datagram

ASSUME LengthsAssumption == Lengths \subseteq Nat
ASSUME MaxEntriesAssumption == MaxEntries \in Nat \ {0}
ASSUME ZeroMemberAssumption == ZeroMember \in Member
ASSUME MaxForeignAssumption == MaxForeign \in Nat

VARIABLES srcs,      \* packet->srcs: records of an id and a sequence of items
          hollow,    \* the header tells of entries, and there is no array
          wanted,    \* history: items that were set or received, and not cleared since
          dropped,   \* history: items whose replacement was refused for its length
          strange,   \* history: the datagram that was parsed has a source twice
          harm,      \* undefined behaviour the last call ran into: the end
          cut        \* history: the datagram that ran into it was not whole

sdesVars == <<srcs, hollow, wanted, dropped, strange, harm, cut>>

-----------------------------------------------------------------------------
\* rtcp_sdes_item, rtcp_sdes_entry
SdesItem == [type : ItemType, len : Lengths]
SdesEntry == [id : Member, items : Seq(SdesItem)]

\* The sum of the terms of a sequence.
Total(terms) ==
  LET sum[n \in 0..Len(terms)] == IF n = 0 THEN 0 ELSE sum[n - 1] + terms[n]
  IN  sum[Len(terms)]

\* item_size
ItemBytes(items) == Total([k \in 1..Len(items) |-> 2 + items[k].len])

\* Mutant: no room for the end mark.
EntryBytesUnmarked(e) == ((4 + ItemBytes(e.items) + 3) \div 4) * 4

\* entry_size: the id, the items, an end mark, up to a word's boundary
EntryBytes(e) == ((5 + ItemBytes(e.items) + 3) \div 4) * 4

\* serialize_entry: the items' bytes follow the id, and zeros up to the entry's size
EndMark(e) == 4 + ItemBytes(e.items)

\* What rtcp_sdes_parse steps over: at the end mark it goes on to the next boundary,
\* by a whole word if it is at one.
SteppedOver(e) == EndMark(e) + 4 - (EndMark(e) % 4)

\* rtcp_sdes_size
SdesBytes(entries) == 4 + Total([i \in 1..Len(entries) |-> EntryBytes(entries[i])])

\* Where the parser finds the last entry.
BeforeLast(entries) == 4 + Total([i \in 1 .. Len(entries) - 1 |-> SteppedOver(entries[i])])

\* The bytes it looks at: up to the end mark of the last entry.
ReadTo(entries) == IF entries = <<>> THEN 4
                   ELSE BeforeLast(entries) + EndMark(entries[Len(entries)]) + 1

\* rtcp_sdes_find_entry and get_item
EntryOf(id) == {i \in DOMAIN srcs : srcs[i].id = id}
Found == {i \in DOMAIN srcs : \A j \in 1 .. i - 1 : srcs[j].id # srcs[i].id}
PlacesOf(type, items) == {k \in DOMAIN items : items[k].type = type}

-----------------------------------------------------------------------------
\* rtcp_sdes_create and rtcp_sdes_init
SdesInit == /\ srcs = <<>> /\ hollow = FALSE
            /\ wanted = {} /\ dropped = {} /\ strange = FALSE
            /\ harm = "none" /\ cut = FALSE

\* The memory of the packet is sound.
Usable == harm = "none" /\ ~hollow

AddEntry(id) == /\ Usable /\ EntryOf(id) = {}
                /\ Len(srcs) < MaxEntries
                /\ srcs' = Append(srcs, [id |-> id, items |-> <<>>])
                /\ UNCHANGED <<hollow, wanted, dropped, strange, harm, cut>>

\* rtcp_sdes_free, and a new packet
SdesRecreate == /\ harm = "none"
                /\ srcs' = <<>> /\ hollow' = FALSE
                /\ wanted' = {} /\ dropped' = {} /\ strange' = FALSE
                /\ UNCHANGED <<harm, cut>>

AddEntryRefused(id) == /\ Usable /\ EntryOf(id) # {}
                       /\ UNCHANGED sdesVars

\* The count has five bits and the test is for 0xff: it wraps to 0, the array is
\* freed, and the entry is stored in front of it.
AddEntryWraps(id) == /\ Usable /\ EntryOf(id) = {}
                     /\ Len(srcs) = MaxEntries
                     /\ harm' = "wild store"
                     /\ UNCHANGED <<srcs, hollow, wanted, dropped, strange, cut>>

\* Any call but free and parse looks for entries where there is no array.
UseHollowSdes == /\ harm = "none" /\ hollow
                 /\ harm' = "null read"
                 /\ UNCHANGED <<srcs, hollow, wanted, dropped, strange, cut>>

WithoutEntry(entries, i) == SubSeq(entries, 1, i - 1) \o SubSeq(entries, i + 1, Len(entries))

\* Mutant: the items of the entry stay with the place it had.
RemoveEntryIdOnly(i) ==
  /\ harm = "none"
  /\ srcs' = WithoutEntry([srcs EXCEPT ![IF i < Len(srcs) THEN i + 1 ELSE i].items =
                                      srcs[i].items], i)
  /\ wanted' = {w \in wanted : w[1] # srcs[i].id}
  /\ dropped' = {d \in dropped : d[1] # srcs[i].id}
  /\ UNCHANGED <<hollow, strange, harm, cut>>

\* rtcp_sdes_remove_entry frees each item where it lies: the first is the array of
\* them all, any other is read after that and is no block to free.
RemoveEntry(i) ==
  /\ harm = "none"
  /\ IF Len(srcs[i].items) > 1
     THEN harm' = "bad free" /\ UNCHANGED <<srcs, wanted, dropped>>
     ELSE /\ srcs' = WithoutEntry(srcs, i)
          /\ wanted' = {w \in wanted : w[1] # srcs[i].id}
          /\ dropped' = {d \in dropped : d[1] # srcs[i].id}
          /\ UNCHANGED harm
  /\ UNCHANGED <<hollow, strange, cut>>

\* free_item divides a difference of pointers by the size of an item once more than
\* the language has: whatever the item, as many are moved as there are, so that for
\* any but the first some are stored past the array.
FreeItem(items, type) == IF PlacesOf(type, items) = {} THEN items ELSE Tail(items)
CreateItem(items, type, len) == Append(items, [type |-> type, len |-> len])
FreesPast(items, type) == \E k \in PlacesOf(type, items) : k > 1

\* rtcp_sdes_set_item and rtcp_sdes_clear_item of an item that is not the first
StorePast(i, type) == /\ harm = "none" /\ FreesPast(srcs[i].items, type)
                      /\ harm' = "wild store"
                      /\ UNCHANGED <<srcs, hollow, wanted, dropped, strange, cut>>

Without(set, id, type) == {w \in set : w[1] # id \/ w[2] # type}

SetItem(i, type, len) ==
  LET id == srcs[i].id
  IN  /\ harm = "none" /\ ~FreesPast(srcs[i].items, type)
      /\ srcs' = [srcs EXCEPT ![i].items =
                    CreateItem(FreeItem(@, type), type, len)]
      /\ wanted' = Without(wanted, id, type) \union {<<id, type, len>>}
      /\ dropped' = Without(dropped, id, type)
      /\ UNCHANGED <<hollow, strange, harm, cut>>

\* Data too long is refused when the old item is gone.
SetItemTooLong(i, type) ==
  /\ harm = "none" /\ ~FreesPast(srcs[i].items, type)
  /\ srcs' = [srcs EXCEPT ![i].items = FreeItem(@, type)]
  /\ dropped' = dropped \union {<<srcs[i].id, type>>}
  /\ UNCHANGED <<hollow, wanted, strange, harm, cut>>

ClearItem(i, type) ==
  /\ harm = "none" /\ ~FreesPast(srcs[i].items, type)
  /\ srcs' = [srcs EXCEPT ![i].items = FreeItem(@, type)]
  /\ wanted' = Without(wanted, srcs[i].id, type)
  /\ dropped' = Without(dropped, srcs[i].id, type)
  /\ UNCHANGED <<hollow, strange, harm, cut>>

\* rtcp_sdes_get_item reads the length of an item that was not found.
GetItem(i, type) == /\ harm = "none"
                    /\ harm' = IF PlacesOf(type, srcs[i].items) = {} THEN "null read" ELSE harm
                    /\ UNCHANGED <<srcs, hollow, wanted, dropped, strange, cut>>

\* Any of the item calls for a source that has no entry.
NoEntry(id) == /\ Usable /\ EntryOf(id) = {}
               /\ UNCHANGED sdesVars

ItemsOf(e) == {<<e.id, e.items[k].type, e.items[k].len>> : k \in DOMAIN e.items}
Items(entries) == UNION {ItemsOf(entries[i]) : i \in DOMAIN entries}
Twice(entries) == \E i \in DOMAIN entries : \E j \in 1 .. i - 1 : entries[i].id = entries[j].id

-----------------------------------------------------------------------------
\* n bytes of a datagram of `bytes' are there, and the parser looks at `read' of them.
Reads(read, n, bytes) ==
  /\ harm' = IF n < read THEN "read past" ELSE harm
  /\ cut' = (n < read /\ n < bytes)

\* The packet is serialized and n bytes of it parsed into an empty one, which takes its
\* place; the parser stops making sense of it where its steps leave those of the
\* serializer.  Less than a header leaves an empty packet.
SdesParseOwn(n) ==
  /\ Usable
  /\ IF \A i \in DOMAIN srcs : SteppedOver(srcs[i]) = EntryBytes(srcs[i])
     THEN Reads(ReadTo(srcs), n, SdesBytes(srcs))
     ELSE harm' = "misread" /\ UNCHANGED cut
  /\ UNCHANGED <<srcs, hollow, wanted, dropped, strange>>

\* Another's datagram, with any sources and end.
SdesParseForeign(entries, n) ==
  /\ srcs' = entries
  /\ wanted' = Items(entries) /\ dropped' = {} /\ strange' = Twice(entries)
  /\ Reads(ReadTo(entries), n, SdesBytes(entries))
  /\ UNCHANGED hollow

WithItem(entries, type, len) == [entries EXCEPT ![Len(entries)].items = CreateItem(@, type, len)]

\* Another's datagram in which the last of the entries has a second item of a type: the
\* parser gives up there, and the entries it did not come to are as calloc left them.
SdesParseRepeated(entries, type, len, rest, n) ==
  LET stored == entries \o [i \in 1..rest |-> [id |-> ZeroMember, items |-> <<>>]]
  IN  /\ PlacesOf(type, entries[Len(entries)].items) # {}
      /\ srcs' = stored
      /\ wanted' = Items(entries) /\ dropped' = {} /\ strange' = Twice(stored)
      /\ Reads(BeforeLast(entries) + EndMark(entries[Len(entries)]) + 2, n,
               SdesBytes(WithItem(entries, type, len)))
      /\ UNCHANGED hollow

\* A header of another version or type: its count is taken.
SdesParseHeader(c) == /\ hollow' = (c > 0)
                      /\ UNCHANGED <<srcs, wanted, dropped, strange, harm, cut>>

\* Entries as other senders make them: no type twice.
ForeignItems == {items \in UNION {[1..k -> SdesItem] : k \in 0..MaxForeign} :
                   \A k, m \in DOMAIN items : items[k].type = items[m].type => k = m}
ForeignEntries == UNION {[1..k -> [id : Member, items : ForeignItems]] : k \in 0..MaxEntries}

\* What is received is parsed into a new packet.
SdesReceive ==
  /\ Usable /\ srcs = <<>>
  /\ \/ \E c \in 0..MaxEntries : SdesParseHeader(c)
     \/ \E entries \in ForeignEntries :
          \/ \E n \in 4..SdesBytes(entries) : SdesParseForeign(entries, n)
          \/ /\ entries # <<>>
             /\ \E type \in ItemType, len \in Lengths, rest \in 0 .. MaxEntries - Len(entries) :
                  \E n \in 4..SdesBytes(WithItem(entries, type, len)) :
                    SdesParseRepeated(entries, type, len, rest, n)

SdesNext == \/ \E id \in Member : AddEntry(id) \/ AddEntryRefused(id) \/ AddEntryWraps(id) \/ NoEntry(id)
            \/ \E i \in Found :
                 \/ RemoveEntry(i)
                 \/ \E type \in ItemType :
                      \/ StorePast(i, type) \/ SetItemTooLong(i, type)
                      \/ ClearItem(i, type) \/ GetItem(i, type)
                      \/ \E len \in Lengths : SetItem(i, type, len)
            \/ \E n \in 4..SdesBytes(srcs) : SdesParseOwn(n)
            \/ SdesReceive \/ SdesRecreate \/ UseHollowSdes

RtcpSdes == SdesInit /\ [][SdesNext]_sdesVars

-----------------------------------------------------------------------------
\* Type invariant.
SdesTypeOK ==
  /\ srcs \in Seq(SdesEntry)
  /\ Len(srcs) <= MaxEntries
  /\ hollow \in BOOLEAN
  /\ wanted \subseteq Member \X ItemType \X Lengths
  /\ dropped \subseteq Member \X ItemType
  /\ strange \in BOOLEAN
  /\ harm \in {"none", "wild store", "bad free", "null read", "misread", "read past"}
  /\ cut \in BOOLEAN

\* The items in the packet are those that were set or received and not cleared, one of a
\* type and source, but for any whose replacement was too long; as long as no source was
\* received twice.
ItemsAsSet ==
  harm = "none" /\ ~strange =>
    /\ Items(srcs) \subseteq wanted
    /\ \A w \in wanted \ Items(srcs) : <<w[1], w[2]>> \in dropped
    /\ \A i \in DOMAIN srcs : \A k, m \in DOMAIN srcs[i].items :
         srcs[i].items[k].type = srcs[i].items[m].type => k = m

\* The parser steps over each entry as the serializer wrote it, whatever the lengths of
\* its items leave of a word, and looks past the end only of a datagram that was cut or
\* has fewer entries than it tells of, never of a whole one, its own or another's.
\* What other harm a call does has one of these causes: a full packet or an item that is
\* not its source's first, an entry of several items, a packet whose header alone was
\* parsed or an item that is not there.
HarmHasCauses ==
  /\ harm # "misread"
  /\ harm = "read past" => cut
  /\ harm = "wild store" => Len(srcs) = MaxEntries \/ \E i \in DOMAIN srcs : Len(srcs[i].items) > 1
  /\ harm = "bad free" => \E i \in DOMAIN srcs : Len(srcs[i].items) > 1
  /\ harm = "null read" => hollow \/ \E i \in DOMAIN srcs : \E type \in ItemType :
                                        PlacesOf(type, srcs[i].items) = {}
=============================================================================
