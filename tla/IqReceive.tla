------------------------------ MODULE IqReceive ------------------------------
(***************************************************************************)
(* The way of samples from one session of rtp_sdr_iq.c to another: what    *)
(* rcp_iq_transmit writes of them in a datagram, the network, what         *)
(* rcp_iq_receive makes of the datagram in its ring, and the header that   *)
(* it allocates for each.  Around it, the test application sdr_test.c:     *)
(* the types main takes, the port its receive thread listens at, and the   *)
(* session freed because the file of samples is missing.                   *)
(*                                                                         *)
(* A byte of a datagram is told by the sample and component it was written *)
(* for and its place in the component, or is Junk: of the transmitter's    *)
(* stack, or of the receiver's array and not received.  What is read past  *)
(* the array is Beyond, if the process outlives the read.  The indices of  *)
(* IqTransmit's ring are left out: a transmission takes any two samples.   *)
(***************************************************************************)
EXTENDS Integers, Sequences, FiniteSets

CONSTANTS TypeArgs,      \* arguments of --txtype and --rxtype
          Sample,        \* samples a session sends
          PacketLength,  \* RTP_PACKET_LENGTH
          HeaderLength,  \* bytes of an RTP header without sources: 12
          ForeignSizes,  \* of datagrams of no session that parse: header, and size of
                         \* what is left of them for a payload
          MinRate,       \* the lowest sample rate main takes: 48000
          Elapsed,       \* microseconds a transmission may take, by gettimeofday:
                         \* less than none if the clock is set back
          MaxFlight,     \* bound on datagrams under way
          MaxFailures,   \* bound on receives that failed
          Junk,          \* what nobody wrote
          Beyond         \* what lies past the receiver's array

ASSUME PacketAssumption == HeaderLength \in Nat /\ PacketLength \in Nat /\ 0 < HeaderLength
                           /\ HeaderLength < PacketLength
ASSUME RateAssumption == MinRate \in Nat /\ MinRate > 16000 /\ Elapsed \subseteq Int
ASSUME JunkAssumption == Junk \notin Sample \X {"i", "q"} \X {1, 2, 3, 4} \X {1, 2, 4}
\* What lies past the array is told from what a datagram brings.
ASSUME BeyondAssumption == Beyond \notin (Sample \X {"i", "q"}) \union {Junk}
\* Sources or an extension may be announced that the datagram does not hold.
ASSUME ForeignAssumption ==
  \A f \in ForeignSizes : /\ f.header \in Nat /\ f.size \in Nat
                          /\ HeaderLength <= f.header
                          /\ f.size = 0 \/ f.header + f.size <= PacketLength

VARIABLES txtype, rxtype,  \* session->tx_type, session->rx_type
          ports,     \* tx_port and rx_port are "same" or "different"
          only,      \* the option of main: 0 both threads, 1 transmit, 2 receive
          flight,    \* datagrams under way, to the port the session listens at
          ring,      \* rx_iq_buffer, oldest first
          rxheader,  \* session->rx_header is not NULL
          lost,      \* headers that nothing points to any more
          failures,  \* history: receives that failed with a header made
          slept,     \* history: _pause has waited
          last,      \* history: the datagram stored last, or Nothing
          life,      \* the session: "live", or "freed" by main
          fatal      \* what ended the process: "no", "division", "use after free",
                     \* "overread"

iqVars == <<txtype, rxtype, ports, only, flight, ring, rxheader, lost, failures, slept, last,
            life, fatal>>

Nothing == [from |-> "none", header |-> 0, bytes |-> <<>>]
PayloadLength == PacketLength - HeaderLength
Alive == fatal = "no"

-----------------------------------------------------------------------------
\* main: the type of an argument in bits, and the test, which one good argument passes
PT8 == 97
PT16 == 98
PT24 == 99
PT32 == 100
Types == {PT8, PT16, PT24, PT32}
Type(bits) == (bits \div 8) + 96
Good(bits) == bits \in {8, 16, 24, 32}

Accepted(txbits, rxbits) == Good(txbits) \/ Good(rxbits)

\* rcp_iq_transmit asks the ring for as many samples as half the bytes of an int.
IqLen == 2

ASSUME PayloadAssumption == 2 * IqLen <= PayloadLength

\* packet_len: the samples written
Carried(type) == CASE type = PT8 -> IqLen
                   [] type = PT16 -> IqLen \div 2
                   [] type \in {PT24, PT32} -> IqLen \div 4
                   [] OTHER -> 0

\* Bytes of a component; those of 24 and 32 bits are read and written in steps of four.
Width(type) == CASE type = PT8 -> 1 [] type = PT16 -> 2 [] OTHER -> 4
Component(sample, part, width) == [b \in 1..width |-> <<sample, part, b, width>>]

\* The bytes of the samples carried, each one's two components in turn.
Written(type, samples) ==
  LET w == Width(type)
  IN  [b \in 1 .. 2 * w * Carried(type) |->
         LET sample == samples[1 + (b - 1) \div (2 * w)]
             component == IF ((b - 1) \div w) % 2 = 0 THEN "i" ELSE "q"
         IN  Component(sample, component, w)[1 + ((b - 1) % w)]]

\* The packet sent is full, whatever was written.
Payload(type, samples) ==
  LET written == Written(type, samples)
  IN  [b \in 1..PayloadLength |-> IF b \in DOMAIN written THEN written[b] ELSE Junk]

Datagram(from, type, samples) ==
  [from |-> from, header |-> HeaderLength, bytes |-> Payload(type, samples)]

\* Datagrams of others, which may arrive at any time.
Foreign == {[from |-> "other", header |-> f.header, bytes |-> [b \in 1 .. f.size |-> Junk]] :
              f \in ForeignSizes}

-----------------------------------------------------------------------------
\* rcp_iq_init, in a session that main makes of its arguments
IqInit ==
  /\ \E txbits, rxbits \in TypeArgs : /\ Accepted(txbits, rxbits)
                                      /\ txtype = Type(txbits) /\ rxtype = Type(rxbits)
  /\ ports \in {"same", "different"}
  /\ only \in 0..2
  /\ flight = {} /\ ring = <<>> /\ rxheader = FALSE
  /\ lost = 0 /\ failures = 0 /\ slept = FALSE /\ last = Nothing
  /\ life = "live" /\ fatal = "no"

\* A call of a thread whose session is gone.
Freed == /\ Alive /\ life = "freed"
         /\ fatal' = "use after free"
         /\ UNCHANGED <<txtype, rxtype, ports, only, flight, ring, rxheader, lost, failures,
                        slept, last, life>>

\* The listening thread binds tx_port, so that the session hears itself.
Heard(datagram) == IF datagram.from = "self" \/ ports = "same" THEN {datagram} ELSE {}

\* The rate of a transmission, which is none if the clock was set back, is above the
\* sample rate.
TooFast(samples, elapsed) == elapsed > 0 /\ (samples * 8 * 1000) \div elapsed > MinRate

\* Mutant: the rate counts the bytes sent.
PauseOfPacket(samples, elapsed) ==
  IF elapsed = 0 THEN fatal' = "division" /\ UNCHANGED slept
  ELSE /\ slept' = (slept \/ TooFast(PacketLength, elapsed))
       /\ UNCHANGED fatal

\* _pause divides by the time since the transmission began, and waits for what it
\* takes for a rate to fall to the sample rate.
Pause(samples, elapsed) ==
  IF elapsed = 0 THEN fatal' = "division" /\ UNCHANGED slept
  ELSE /\ slept' = (slept \/ TooFast(samples, elapsed))
       /\ UNCHANGED fatal

\* rcp_iq_transmit of two samples, and rtp_socket_send; the network may take a datagram
\* at once.
Transmit(first, second, elapsed) ==
  /\ Alive /\ life = "live" /\ only # 2
  /\ flight' = flight \union Heard(Datagram("self", txtype, <<first, second>>))
  /\ Pause(Carried(txtype), elapsed)
  /\ UNCHANGED <<txtype, rxtype, ports, only, ring, rxheader, lost, failures, last, life>>

\* A session elsewhere sends to this one's rx_port.
PeerSends(type, first, second) ==
  /\ Alive
  /\ flight' = flight \union Heard(Datagram("peer", type, <<first, second>>))
  /\ UNCHANGED <<txtype, rxtype, ports, only, ring, rxheader, lost, failures, slept, last, life,
                 fatal>>

Lose(datagram) == /\ Alive
                  /\ flight' = flight \ {datagram}
                  /\ UNCHANGED <<txtype, rxtype, ports, only, ring, rxheader, lost, failures,
                                 slept, last, life, fatal>>

-----------------------------------------------------------------------------
\* Bytes of the receiver's array, from the payload on; none if the header is longer.
Room(datagram) == PacketLength - datagram.header

\* What width bytes at place p of the payload tell; behind it in the array is junk.
Told(bytes, p, width) ==
  LET read == {c \in Sample \X {"i", "q"} :
                 /\ p + width <= Len(bytes)
                 /\ \A b \in 1..width : bytes[p + b] = Component(c[1], c[2], width)[b]}
  IN  IF read = {} THEN Junk ELSE CHOOSE c \in read : TRUE

\* A read of width bytes there, the last of which may lie past the array.
Read(datagram, p, width) ==
  IF p + width > Room(datagram) THEN Beyond ELSE Told(datagram.bytes, p, width)

\* Mutant: the components of 16 bits are taken from steps of four bytes too.
StoredInSteps(type, datagram, n) ==
  IF type = PT8 THEN [i |-> Read(datagram, 2 * n + 1, 1), q |-> Junk]
  ELSE [i |-> Read(datagram, 8 * n, 4), q |-> Read(datagram, 8 * n + 4, 4)]

\* The loop runs once for each byte, and takes a sample each time: of eight bits, both
\* bytes are stored in i.
Stored(type, datagram, n) ==
  LET w == Width(type)
  IN  IF type = PT8 THEN [i |-> Read(datagram, 2 * n + 1, w), q |-> Junk]
      ELSE [i |-> Read(datagram, 2 * w * n, w), q |-> Read(datagram, 2 * w * n + w, w)]

\* The first n samples of the loop.
Loop(datagram, n) == [k \in 1..n |-> Stored(rxtype, datagram, k - 1)]

\* The samples that the array has room for, of those the loop takes.
Inside(datagram, n) == 2 * Width(rxtype) * n <= Room(datagram)

\* Mutant: a ring for the payload alone.
CapacityOfPayload == PayloadLength - 1

\* main's ring, of RTP_PACKET_LENGTH slots
Capacity == PacketLength - 1

Put(samples) == LET all == ring \o samples
                IN  IF Len(all) <= Capacity THEN all
                    ELSE SubSeq(all, Len(all) - Capacity + 1, Len(all))

\* The header of a receive that failed is still there: the next one makes its own.
NewHeader == lost' = lost + (IF rxheader THEN 1 ELSE 0)

\* Mutant: the header is not freed.
ReceiveLeaks(datagram) ==
  /\ Alive /\ life = "live" /\ only # 1
  /\ rxtype \in Types
  /\ NewHeader
  /\ rxheader' = TRUE
  /\ ring' = Put(Loop(datagram, Len(datagram.bytes)))
  /\ last' = datagram
  /\ UNCHANGED <<txtype, rxtype, ports, only, flight, failures, slept, life, fatal>>

\* rcp_iq_receive of a datagram that parses, which the network may deliver again. The
\* process outlives what is read past the array, if anything is, and stores it.
Receive(datagram) ==
  /\ Alive /\ life = "live" /\ only # 1
  /\ rxtype \in Types
  /\ NewHeader
  /\ rxheader' = FALSE
  /\ ring' = Put(Loop(datagram, Len(datagram.bytes)))
  /\ last' = datagram
  /\ UNCHANGED <<txtype, rxtype, ports, only, flight, failures, slept, life, fatal>>

\* It does not: rcp_iq_receive ends where it reads past the array, with n samples stored,
Overread(datagram, n) ==
  /\ Alive /\ life = "live" /\ only # 1
  /\ NewHeader
  /\ rxheader' = TRUE
  /\ ring' = Put(Loop(datagram, n))
  /\ last' = datagram
  /\ fatal' = "overread"
  /\ UNCHANGED <<txtype, rxtype, ports, only, flight, failures, slept, life>>

\* at the sample after them,
LoopOverreads(datagram, n) == /\ rxtype \in Types
                              /\ n < Len(datagram.bytes) /\ ~Inside(datagram, n + 1)
                              /\ Overread(datagram, n)

\* or before the first, in rtp_header_parse of an extension that the array does not hold.
HeaderOverreads(datagram) == Room(datagram) < 0 /\ Overread(datagram, 0)

\* What a receive leaves that returns with the header it made.
ReceiveFails ==
  /\ Alive /\ life = "live" /\ only # 1
  /\ failures < MaxFailures /\ failures' = failures + 1
  /\ NewHeader
  /\ rxheader' = TRUE
  /\ UNCHANGED <<txtype, rxtype, ports, only, flight, ring, slept, last, life, fatal>>

\* rtp_socket_recv returns a timeout as no bytes and no error: no header is parsed.
TimesOut == ReceiveFails

\* A datagram of no session, which rtp_header_parse refuses.
BadPacket == ReceiveFails

\* A session of a type that is none of the four, which main's test lets pass.
UnknownType == flight \union Foreign # {} /\ rxtype \notin Types /\ ReceiveFails

\* rtp_socket_send fails: the sequence number is spent, and nothing waited for.
SendFails == /\ Alive /\ life = "live" /\ only # 2
             /\ UNCHANGED iqVars

\* main does not find the file to send: rcp_iq_deinit and free, with its threads running.
NoFile == /\ Alive /\ life = "live" /\ only # 2
          /\ life' = "freed"
          /\ UNCHANGED <<txtype, rxtype, ports, only, flight, ring, rxheader, lost, failures,
                         slept, last, fatal>>

IqNext == \/ Freed \/ TimesOut \/ BadPacket \/ UnknownType \/ SendFails \/ NoFile
          \/ \E datagram \in flight : Lose(datagram)
          \/ \E datagram \in flight \union Foreign :
               \/ Receive(datagram) \/ HeaderOverreads(datagram)
               \/ \E n \in 0 .. Len(datagram.bytes) : LoopOverreads(datagram, n)
          \/ /\ Cardinality(flight) < MaxFlight
             /\ \E first, second \in Sample :
                  \/ \E elapsed \in Elapsed : Transmit(first, second, elapsed)
                  \/ \E type \in {PT8, PT16, PT32} : PeerSends(type, first, second)

IqSessions == IqInit /\ [][IqNext]_iqVars

-----------------------------------------------------------------------------
Value == (Sample \X {"i", "q"}) \union {Junk, Beyond}

\* Type invariant.
IqTypeOK ==
  /\ {txtype, rxtype} \intersect Types # {}
  /\ ring \in Seq([i : Value, q : Value]) /\ Len(ring) <= Capacity
  /\ \A datagram \in flight \union ({last} \ ({Nothing} \union Foreign)) :
       datagram.from \in {"self", "peer"} /\ Len(datagram.bytes) = PayloadLength
  /\ lost \in Nat /\ rxheader \in BOOLEAN /\ slept \in BOOLEAN
  /\ fatal \in {"no", "division", "use after free", "overread"}

\* Every header that rcp_iq_receive made is freed by it, or is one of a receive that
\* failed: as many are left as there were failures, the last of them in the session. One
\* more is left by a receive that the process ends in.
HeadersAccounted ==
  lost + (IF rxheader THEN 1 ELSE 0) = failures + (IF fatal = "overread" THEN 1 ELSE 0)

\* The one sample that a datagram carries from a session of 16 bits to another is in
\* the ring after it was received, however many the same loop stored behind it, if the
\* process outlived that; and whatever else is stored, of this datagram or of one of no
\* session, has both components of one sample, or for one or both what no session
\* wrote: for both if the session has 24 or 32 bits, and if it has eight the q as its i.
Stored16 == {[i |-> <<s, "i">>, q |-> <<s, "q">>] : s \in Sample}
Unwritten == {Junk, Beyond}
SampleArrives ==
  /\ \A s \in Sample :
       /\ rxtype = PT16 /\ last # Nothing /\ fatal # "overread" /\ Len(last.bytes) >= 4
       /\ SubSeq(last.bytes, 1, 4) = Component(s, "i", 2) \o Component(s, "q", 2)
       => LET k == Len(ring) - Len(last.bytes) + 1
          IN  k \in DOMAIN ring /\ ring[k] = [i |-> <<s, "i">>, q |-> <<s, "q">>]
  /\ \A k \in DOMAIN ring :
       LET i == ring[k].i   q == ring[k].q
       IN  \/ rxtype = PT16 /\ ring[k] \in Stored16
           \/ rxtype = PT8 /\ i \in {<<s, "q">> : s \in Sample} /\ q = Junk
           \/ i \in Unwritten /\ q \in Unwritten

\* A receive reads past its array only of a datagram whose payload is longer than the
\* array has room for as many samples, which is every one of a session; of the samples it
\* stores, those past that room, and no others, are made of what lies there.
OverreadsOnlyLong ==
  /\ fatal = "overread" => ~Inside(last, Len(last.bytes))
  /\ last # Nothing /\ fatal # "overread" =>
       \A n \in 1..Len(last.bytes) :
         LET pair == ring[Len(ring) - Len(last.bytes) + n]
         IN  pair.i = Beyond \/ pair.q = Beyond <=> ~Inside(last, n)

\* No transmission is ever paced: the rate counts the samples of a packet, two at most,
\* and stays below the lowest sample rate however short the time was.
NeverPaced == ~slept
=============================================================================
