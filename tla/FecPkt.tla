-------------------------------- MODULE FecPkt --------------------------------
(***************************************************************************)
(* The FEC packet of src/rtp/fec/fec_pkt.c on the wire: its header, packed *)
(* byte by byte with the macros of fec_pack.h in front of the payload, and *)
(* read back into a structure that still holds what was read before.  What *)
(* is read may have been cut, or be another program's.                     *)
(***************************************************************************)
EXTENDS Integers, Sequences

CONSTANTS ByteMod,     \* values of a byte: 256
          FecMagic,    \* FEC_PKT_MAGIC
          MaxPayload,  \* FEC_PKT_PAYLOAD_SIZE
          Tstamps,     \* times senders give a group, of more bits than are sent
          Cuts         \* sizes a datagram is cut to

ASSUME FecPktAssumption ==
  /\ ByteMod \in Nat /\ 1 < ByteMod /\ FecMagic \in 0 .. ByteMod - 1
  /\ MaxPayload \in 0 .. ByteMod * ByteMod - 1
  /\ Tstamps \subseteq Nat /\ Cuts \subseteq Nat

VARIABLES fecout,     \* the header of the packet sent last
          fecload,    \* and its payload
          fecwire,    \* the datagram that can be read, in bytes
          fecintact,  \* history: it is what was sent
          fechdr,     \* the receiver's pkt->hdr
          fecdata,    \* and pkt->data
          fecret      \* what fec_pkt_read said of fecwire, Unread before it is asked

fecVars == <<fecout, fecload, fecwire, fecintact, fechdr, fecdata, fecret>>

HdrSize == 14    \* FEC_PKT_HDR_SIZE
Unread == -2
Nothing == <<-1>>

-----------------------------------------------------------------------------
\* UINT16_PACK and UINT32_PACK give a number's bytes, the highest first, and their
\* inverses join them.
High(i) == i \div ByteMod
Low(i) == i % ByteMod
Join(high, low) == high * ByteMod + low

Word16 == ByteMod * ByteMod
Word32 == Word16 * Word16

\* fec_pkt_init
fec_pkt_init(hdr) ==
  [hdr EXCEPT !.magic = FecMagic, !.version = 1, !.len = 0, !.group_seq = 0]

\* Mutant: the size of a block is packed as a byte.
PackShort(hdr) ==
  LET t == hdr.group_tstamp
  IN  <<hdr.magic, hdr.version, hdr.group_seq, hdr.packet_seq, hdr.fec_k, hdr.fec_n,
        Low(hdr.fec_len), High(hdr.len), Low(hdr.len),
        Low(High(High(High(t)))), Low(High(High(t))), Low(High(t)), Low(t)>>

\* fec_pkt_pack
Pack(hdr) ==
  LET t == hdr.group_tstamp
  IN  <<hdr.magic, hdr.version, hdr.group_seq, hdr.packet_seq, hdr.fec_k, hdr.fec_n,
        High(hdr.fec_len), Low(hdr.fec_len), High(hdr.len), Low(hdr.len),
        Low(High(High(High(t)))), Low(High(High(t))), Low(High(t)), Low(t)>>

Unpack(d) ==
  [magic |-> d[1], version |-> d[2], group_seq |-> d[3], packet_seq |-> d[4],
   fec_k |-> d[5], fec_n |-> d[6], fec_len |-> Join(d[7], d[8]), len |-> Join(d[9], d[10]),
   group_tstamp |-> Join(Join(Join(d[11], d[12]), d[13]), d[14])]

Zeroes(n) == [b \in 1..n |-> 0]
ZeroHdr == Unpack(Zeroes(HdrSize))

FecInit == /\ fecout = fec_pkt_init(ZeroHdr) /\ fecload = <<>>
           /\ fecwire = Nothing /\ fecintact = FALSE
           /\ fechdr = ZeroHdr /\ fecdata = Zeroes(HdrSize + MaxPayload)
           /\ fecret = Unread

\* A packet is initialised, filled by its application and sent with fec_pkt_send or
\* fec_pkt_sendto.  seq stands for all that tells it from others.
FecSend(seq, len, time) ==
  /\ fecout' = [fec_pkt_init(fecout) EXCEPT !.packet_seq = seq, !.fec_k = 1, !.fec_n = 1,
                  !.fec_len = MaxPayload, !.len = len, !.group_tstamp = time]
  /\ fecload' = [b \in 1..len |-> seq]
  /\ fecwire' = Pack(fecout') \o fecload'
  /\ fecintact' = TRUE
  /\ fecret' = Unread
  /\ UNCHANGED <<fechdr, fecdata>>

\* What else may be there to read: less or more than was sent, or no FEC packet.
Tampered == {SubSeq(fecwire, 1, n) : n \in {c \in Cuts : c < Len(fecwire)}}
              \union {fecwire \o <<0>>}
              \union {[fecwire EXCEPT ![1] = m] : m \in 0 .. ByteMod - 1 \ {FecMagic}}

Tamper == /\ fecintact
          /\ fecwire' \in Tampered
          /\ fecintact' = FALSE
          /\ fecret' = Unread
          /\ UNCHANGED <<fecout, fecload, fechdr, fecdata>>

\* read() fails, or gives an empty datagram: nothing is touched.
ReadFails == /\ fecwire = Nothing
             /\ fecret' = -1
             /\ UNCHANGED <<fecout, fecload, fecwire, fecintact, fechdr, fecdata>>

ReadEnd == /\ fecwire = <<>>
           /\ fecret' = 0
           /\ UNCHANGED <<fecout, fecload, fecwire, fecintact, fechdr, fecdata>>

\* read() puts a datagram over the beginning of what was there, and no more of it than
\* there is room for.
Taken == IF Len(fecwire) <= HdrSize + MaxPayload THEN fecwire
         ELSE SubSeq(fecwire, 1, HdrSize + MaxPayload)
Overlaid == Taken \o SubSeq(fecdata, Len(Taken) + 1, Len(fecdata))

\* Mutant: the length in the header is believed.
FecReadBelieving ==
  /\ fecwire \notin {Nothing, <<>>}
  /\ fecdata' = Overlaid
  /\ IF Len(Taken) >= HdrSize /\ Taken[1] = FecMagic
     THEN fechdr' = Unpack(fecdata') /\ fecret' = 1
     ELSE fechdr' = fechdr /\ fecret' = -1
  /\ UNCHANGED <<fecout, fecload, fecwire, fecintact>>

\* fec_pkt_read: the header is taken before the length in it is compared, and of a
\* datagram that is none only its magic.
FecRead == /\ fecwire \notin {Nothing, <<>>}
           /\ fecdata' = Overlaid
           /\ CASE Len(Taken) < HdrSize ->
                     fechdr' = fechdr /\ fecret' = -1
                [] Len(Taken) >= HdrSize /\ Taken[1] # FecMagic ->
                     fechdr' = [fechdr EXCEPT !.magic = Taken[1]] /\ fecret' = -1
                [] OTHER ->
                     /\ fechdr' = Unpack(fecdata')
                     /\ fecret' = IF fechdr'.len = Len(Taken) - HdrSize THEN 1 ELSE -1
           /\ UNCHANGED <<fecout, fecload, fecwire, fecintact>>

FecNext == \/ \E seq \in {0, 1}, len \in 0..MaxPayload, time \in Tstamps : FecSend(seq, len, time)
           \/ Tamper \/ ReadFails \/ ReadEnd \/ FecRead

FecPkt == FecInit /\ [][FecNext]_fecVars

-----------------------------------------------------------------------------
FecByte == 0 .. ByteMod - 1
FecHdr == [magic : FecByte, version : FecByte, group_seq : FecByte, packet_seq : FecByte,
           fec_k : FecByte, fec_n : FecByte, fec_len : 0 .. Word16 - 1,
           len : 0 .. Word16 - 1, group_tstamp : Nat]

\* Type invariant of the FEC packet.
FecTypeOK == /\ fecout \in FecHdr /\ fechdr \in FecHdr
             /\ fechdr.group_tstamp < Word32
             /\ fecload \in Seq(FecByte) /\ Len(fecload) <= MaxPayload
             /\ fecwire = Nothing \/ fecwire \in Seq(FecByte)
             /\ fecdata \in Seq(FecByte) /\ Len(fecdata) = HdrSize + MaxPayload
             /\ fecintact \in BOOLEAN
             /\ fecret \in {Unread, -1, 0, 1}

\* A packet that fec_pkt_read accepts is one datagram and all that was read of it:
\* nothing in its header or payload is left from a longer one read before.  And a packet that arrives
\* as it was sent is accepted with every field it had, the time of its group but for
\* what thirty-two bits can not hold.
FecPayload == SubSeq(fecdata, HdrSize + 1, HdrSize + fechdr.len)
ReadIsOneDatagram ==
  /\ fecret = 1 => Taken = Pack(fechdr) \o FecPayload
  /\ fecintact /\ fecret # Unread =>
       /\ fecret = 1
       /\ fechdr = [fecout EXCEPT !.group_tstamp = @ % Word32]
       /\ FecPayload = fecload
=============================================================================
