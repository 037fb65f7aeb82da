# rtp-sdr: specifications, model checks and proofs

TLA+ specifications of rtp-sdr, a C library that carries IQ samples over RTP
(`sdr/`), the RTP/RTCP library below it (`rtp/`) and a forward error correction
code (`rtp/fec/`). Every module is a translation of the C source; `PROJECT.json`
maps each definition to the lines it stands for. Paths below are relative to `src/`.

Contents: [the system](#the-system) · [modules](#modules) · [runs](#runs) ·
[fairness](#fairness) · [disagreements found](#disagreements-found) ·
[proofs](#proofs) · [not modelled](#not-modelled) · [plan](#plan)

## The system

| component | state it keeps | operations | who calls it |
|---|---|---|---|
| sample ring, `sdr/rtp_sdr_rbuf.c` | caller's array, `head`, `tail`, `max` | init, reset, put, try_put, get, peek, empty, full, size, capacity | main and the threads of a session |
| IQ session, `sdr/rtp_sdr_iq.c` | two rings, two sockets, `tx_header` with the sequence number | init, deinit, transmit, receive | the two thread handlers |
| test program, `test/sdr_test.c` | sessions, threads | main, transmit and receive handlers, signal handler | - |
| packet source, `rtp/rtp_source.c` | sequence state of RFC 3550 A.1, loss figures of the last report | init, reset_seq, update_seq, update_lost, update_jitter, update_lsr | a receiver, for each packet and report |
| RTP header and packet, `rtp/rtp_header.c`, `rtp_packet.c` | header fields, csrc list, extension, payload | init, serialize, parse, add/find/remove csrc, set/clear ext and payload | the IQ session |
| RTCP reports and BYE, `rtp/rtcp_sr.c`, `rtcp_rr.c`, `rtcp_bye.c` | header (count, length), list of reports or sources, extension or message | add, find, remove, set/clear, serialize, parse | an application |
| RTCP SDES and APP, `rtp/rtcp_sdes.c`, `rtcp_app.c` | entries and their items; name and data | the same kind | an application |
| FEC code, `rtp/fec/fec.c` with matrix, galois, pack | the generator matrix; a decoding call's `idxs` and packets | new, encode, decode | the FEC group |
| FEC group, `rtp/fec/fec_group.c` | slots, their lengths, `rcvd_pkts`, `decoded` | init, insert_pkt, decode, clear, destroy | a receiver, for each FEC packet |
| FEC packets, `rtp/fec/fec_pkt.c` | one packet | init, pack, send, read | sender and receiver of a group |
| sockets, `rtp/rtp_socket.c` | descriptor, memberships, addresses | open to send or receive, close, send, recv | the IQ session |
| NTP, utilities | none | conversions | everyone |

How they meet:

- **Shared state.** The ring is the only state two threads share on purpose. It has
  no lock and no atomic field. `rtp_sdr_rbuf.c:46` calls it safe for one producer and
  one consumer; `:117-120` and `rtp_sdr_rbuf.h:122-123` except `put`, which moves both
  indices. `sdr_test.c:332` uses `put` all the same, against a thread that peeks.
- **Messages.** `rcp_iq_transmit` numbers a packet, peeks at two samples and sends
  them over UDP. What arrives, and in what order, is up to the network. A receiver
  reconstructs from sixteen bits which packet it has, and how many it has not.
- **Calls.** `fec_group_decode` hands its slots to `fec_decode`, which rebuilds rows in
  the buffer it reads from. The packet modules are sequential, and each operation leaves
  copies (a count, a length, a pointer) that the next and the peer's parser rely on.
- **The system.** A socket's descriptor is a number that the process shares with everyone
  in it: what is closed is whoever's file has the number now. The thread that receives
  binds `tx_port` (`sdr_test.c:139-140`), so that a session hears itself.

What is hard, and the properties that answer to it:

| hazard | properties |
|---|---|
| two threads on unlocked indices, `size` reading `head` three times | `ThreadSafe`, `PeekIsOldest`, `SizeNeverTooLarge` |
| the overwriting producer of the test program, a number spent before the peek | `RightOrTurnsNewer`, `RefusedOnlyWithExcuse` |
| wraps of head and tail at different times | `ImplementsQueue` |
| loss, repetition, reordering around a wrap of the sequence number | `Tracks`, `LossNotOverstated`, `NeverRefuses` |
| a source confused by strays or restarts; eight-bit fractions | `Recovers`, `ProbationEnds`, `ReportFits` |
| rows rebuilt in the buffer they are read from; a loop that does not advance | `DecodesRight`, `FailsOnlyOnRepeat`, `Terminates` |
| pivots that swap rows and have to be undone from the last | `InverseRight`, `ImplementsDecode` |
| repeated, late and empty FEC packets; a structure used again | `ImplementsErasure`, `AbortsOnlyOnEmpty`, `DecodedIsRight` |
| a FEC packet read over the last one | `ReadIsOneDatagram` |
| RTCP header lengths that must follow every change, and that parsers believe; five-bit counts; memmove sizes | `RoundTrip`, `KeepsOthers`, `WritesInside` |
| a four-bit count of which three bits are sent; a packet used again, cleared, or half parsed | `ReceivesWhatWasSent`, `ListsAdded`, `FaultsHaveCauses` |
| entries and items in memory that is moved, freed and padded by hand | `ItemsAsSet`, `HarmHasCauses` |
| opening that fails half way; numbers of closed descriptors | `OwnsItsFile`, `MemberAsJoined` |
| headers of receives that fail; samples of eight to thirty-two bits, read past the datagram and the array; a clock that stands | `HeadersAccounted`, `SampleArrives`, `OverreadsOnlyLong`, `NeverPaced` |

`PROJECT.json` lists every hazard at its line, also those no property covers, and says of each
of these whether the modules have what the code does there.

## Modules

```
SampleQueue      bounded FIFO of samples                  (abstract)
  ^ implemented by
RBuf             the ring, one action per call
  |- RBufSpsc    try_put against get and peek, access by access
  `- IqTransmit  main's put against the transmit thread's peek, load by load
RtpSource        a source's sequence numbers and losses
  `- RtpStream   transmitter, network and source
FecDecode        fec_decode, loop by loop                 (abstract in its data)
  ^ implemented by
FecCodec         fec_new, fec_encode and fec_decode with their arithmetic
  `- FecMatrix   the two inverses
       `- FecField   what they ask of a field              (abstract)
            ^ implemented by
          FecGalois  the tables of the code; MCFecCodec puts them in
ErasureGroup     any K different packets of N            (abstract)
  ^ implemented by
FecGroup         the group over a lossy network
Packets          one of: RtpPacket, RtcpList, RtcpSdes, FecPkt
Session          one of: RtpSocket, IqReceive
*Proofs          the theorems, see below
```

Each action is one call, or one step of a call; comments above definitions say which,
and *Mutant* marks a definition that stands beside the one it gets wrong.

**RBuf** has `buffer`, `head`, `tail` as the code has (`max` is `Size`), and `reply`
for what a call returns. Each action is one call of one thread; `put` and `try_put`
differ only in what a full ring does. `Contents` is the refinement mapping: the slots
from tail to head.

**RBufSpsc** splits `try_put`, `get` and `peek` at each access to a field the other
thread touches (`pc` is the producer's place, `cc` the consumer's). The fields are
plain, so the accesses race; `InOrder = FALSE` lets the two stores of `try_put`
(`:140`, `:141`) be seen in either order, which is what a compiler or a weakly ordered
machine may do. Subtractions are in `size_t` (`Word`). A look-ahead and its result are
the consumer's own and not part of the queue's replies. `put` and `reset`, which the
comments exclude, are not used by a thread here.

**IqTransmit** is the use the program makes: main overwrites (`PutSample`, `PutTail`,
`PutHead` are the three stores of `put`), the transmit thread polls, numbers, peeks.
As both indices now move under the reader, each comparison or subtraction first loads
`head` and `tail`, in either order (`Load`, then `Compare`). Samples are their places
in the file, so that older and newer can be told. `main`'s loop compares `fread` with
`EOF`, which it never returns: at the end of the file the last sample is put for ever.
`Stop` is the process ending at any moment. Nobody calls `get`, so only main moves
`tail`. `Wanted` is 2: `rtp_sdr_iq.c:138` takes `sizeof` of an integer expression
where the room left in a packet was meant. Two ghosts (`excused`, `oldest`) remember
what was true when a transmission began.

**RtpSource** is `update_seq` branch by branch and `update_lost`; its fields have the
code's names. `ret` is its return value: -1 in probation and for a jump alike
(`rtp_source.c:110`, `:132`), where `rtp_source.h:132` promises -2 for the second. `lost` is
a signed field (`LostField`, of 24 bits in the code), which wraps upwards when more packets
were repeated than it counts below nothing.
`last` and `run` are history: the packets in a row that just ended.

**RtpStream** adds the sender's number (`rtp_sdr_iq.c:134`, spent whether or not a
packet leaves) and a network that loses, repeats, delays and reorders within the bounds
the source's thresholds suppose (`InWindow`). A packet carries its lap as history; the
receiver does not see it.

**FecDecode** abstracts a slot's bytes to the packet it holds right, or `NoPacket`; one
row's arithmetic gives the row's packet if it reads K different packets, all right.
Control, order and places are the code's. **FecCodec** keeps the same variables and adds
what they abstract: `content`, the symbols in each slot, and the matrix that
**FecMatrix** inverts a column a step (`mpc`). Its sums and products are the constants of
**FecField**, which assumes the laws of a field whose elements other than 0 are the
powers of one; **FecGalois** has the sums, tables and products of `fec_galois.c`, and
**MCFecCodec** gives these to the constants and lets TLC check the laws for all 256
elements. `ImplementsDecode` says that FecCodec does nothing FecDecode does not, so the
abstraction of a row's arithmetic is a theorem, which rests on the laws of the field alone.
`caller = "test"` is the main of `fec_matrix.c`, which inverts matrices that
`fec_decode` never makes: only these need a pivot off the diagonal. It starts where
a decoding that has nothing to rebuild ends.

**FecGroup** keeps `buf`, `lengths`, `rcvd_pkts`, `decoded`. `fec_decode` is one step
with the result FecDecode shows. A packet's length doubles as the mark that it was
received, as in the code, so packets of length 0 are among the inputs. A failed
assertion ends the model (`aborted`). `Destroy` forgets the arrays and leaves `decoded`, as
`fec_group_destroy` does with `fec_group_clear`; until `Renew`, which is `fec_group_init`, the
group is not `live`, and nothing else is called.

**Packets** puts four modules in one run that share nothing; `packet` says which is used.

- *RtpPacket* counts a packet in words after its first three. `cc`, `csrc`, `x`,
  `extdata` and `extcount` are the header's fields, and `extdata = "freed"` the pointer
  that `clear_ext` leaves. A datagram is its words and the two fields that say how to
  read them; `Cut` shortens it, and a word of payload read as the announcement of an
  extension is any small number (`Announced`). After a parse that failed `cc` may count
  sources for which there is no array; serialize then leaves them out of the size and writes
  the extension behind the place they would have (`Misplaced`), past the buffer if that is
  small. `fault` names undefined behaviour a call ran into, and ends the model.
- *RtcpList* has four packets, `kind` telling which: sender report, receiver report,
  BYE, and APP as the one without a list. They share count, array, tail and header
  length, and an operation differs by a constant. The array is its 32-bit words, each
  told by the source it was written for: this is what shows that `remove_report` moves
  words where it should move reports. `ListParse` is what the parsers store of any datagram:
  its count, as much of the list as it has words for, and a tail of the size that its header's
  length leaves. `ParseOwn` gives it the packet serialized and cut anywhere, `ParseForeign` any
  sources, length and end, and `ParseHeaderOnly` a header of another version or type, after
  which the packet has a count and no array (`Hollow`). Once memory was used that
  is neither the packet's nor the datagram's (`broken`; `heard` has the words of the datagram, if
  parsing one did it) the model stops. `stale` and `mixed` are history: the length is another
  datagram's, the list is not whole.
- *RtcpSdes* has sources with their items, a type and a length each. The serializer pads an
  entry (`EntryBytes`), the parser steps over it (`SteppedOver`), and asks for a datagram's size
  at its header only: `ReadTo` is how far it looks, whatever there is. It is given the packet's
  own datagrams (`SdesParseOwn`) and others' (`SdesParseForeign`; `SdesParseRepeated` with a type
  twice in an entry, at which it gives up), cut at any byte, and headers of another version or type
  (`SdesParseHeader`), which leave a count without entries (`hollow`). `harm` is the undefined
  behaviour a call ran into, `cut` that the datagram was not whole, `wanted` the items an
  application asked for or was sent, `dropped` those lost to a replacement that was too long,
  `strange` that a source was received twice.
- *FecPkt* is byte by byte, because the packing is what is in question: `Pack` and
  `Unpack` are the macros of `fec_pack.h`, `fecdata` the receiver's buffer, which keeps
  the end of a longer datagram when a shorter is read over it.

**Session** does the same for two modules about a session; `part` says which.

- *RtpSocket* has the table of descriptors (`files`, with the groups each socket's file
  is a member of) and the `rtp_socket_t` of each socket. Nothing initialises these before the
  first opening, and the library closes none that was not opened (`status` is "new"). `OpenFails` leaves what
  `_create_socket` leaves: -1, a number that was closed again, or the 0 of `memset`.
  `StrangerOpens` and `StrangerCloses` are the rest of the process. The caller may close
  a socket whose opening failed; `stray` marks that it did with a number left.
- *IqReceive* follows samples from one session to another. A byte is told by the sample and
  component it was written for, so that reading them at another width or place gives junk, as
  it does in the code. The loop of `rcp_iq_receive` runs once for each byte of the payload and
  reads a whole sample each time: what it reads behind the datagram but in its array is junk,
  too, and what it reads past the array is `Beyond`, unless the process ends there, with the
  samples before it stored (`LoopOverreads`). It may end in the header as well, for an extension
  that the array does not hold (`HeaderOverreads`). Every datagram of a session has this done to
  it. Among the datagrams are those of other programs (`Foreign`), of other lengths.
  `rxheader` and `lost` are the headers that `rcp_iq_receive` allocates.
  Types are numbered as main numbers them, among them that of an argument of 64, which its
  test lets pass beside a good one. `Freed` is what a thread meets after main freed the
  session because its file was missing.

## Runs

| run | instance | distinct states | shows |
|---|---|---|---|
| `rbuf` | 4 slots, 2 samples, peeks of 0 to 4 | 2 449 | `TypeOK`, `ImplementsQueue` |
| `spsc` | 4 slots, 2 samples, stores in order | 0.66 M | `ThreadSafe`, `PeekIsOldest` |
| `spsc_any_order` | the same, stores in either order | 2.3 M | `SizeNeverTooLarge` |
| `spsc_peek_wrap` | as `spsc` | - | `PeekOnlyAvailable` is violated |
| `iq_transmit` | 4 slots, a file of 10 samples, 2 sequence numbers | 77 434 | `TxTypeOK`, `RightOrTurnsNewer`, `RefusedOnlyWithExcuse` |
| `source` | numbers modulo 10, thresholds 4 and 3 | 1.9 M | `SourceTypeOK`, `ReportFits`, `Recovers`, `ProbationEnds` |
| `stream` | numbers modulo 7, three laps, bursts of 3, delay of 2 | 1.7 M | `Tracks`, `LossNotOverstated`, `NeverRefuses` |
| `fec_decode` | 3 of 6 packets of 4 symbols of 16 of the code's 256 elements, every choice of slots, also repeated ones; every 3 x 3 matrix of three elements | 0.17 M | `DecodesRight`, `FailsOnlyOnRepeat`, `InverseRight`, `Terminates`, `ImplementsDecode` |
| `fec_group` | 3 of 5 packets of length 0 to 2, count modulo 6 | 6 041 | `AbortsOnlyOnEmpty`, `DecodedIsRight`, `ImplementsErasure` |
| `fec_group_empty` | 3 of 5 packets | - | `NeverAborts` is violated |
| `packets` | 4 sources; lists of 3; `cc` modulo 4 of which 0 to 2 are sent; items of 0, 1 and 3 bytes; datagrams of others; FEC payloads of 0 to 2 bytes | 0.57 M | `PacketTypeOK` and the nine properties of its parts |
| `session` | 2 sockets, descriptors 0 to 3, three interfaces; 2 samples, packets of 10 bytes, 2 datagrams under way, and those of others | 0.70 M | `SessionTypeOK` and the six properties of its parts |

Why the bounds are enough:

- *Rings of 4 slots* hold three samples: head and tail each wrap alone and together, a
  peek may ask for less, all or more than is held, and an off-by-one is not hidden by
  another. In `iq_transmit` main laps the ring twice with different samples before the
  file ends and goes on with the last one, so a copy may be overtaken by more than a
  turn. `WordMod = 16` is above twice the size, all that an underflow needs.
- *`source`* keeps the order of the code's thresholds (1 < MaxDropout, MaxDropout +
  MaxMisorder <= SeqMod) with room in each interval: 4 in order, 4 jumps, 2 late.
  `MaxReceived` = 6 bounds the packets counted since the last reset; longer countings
  are covered by the proof, where it is any number. `LostHalf` = 4 for 2^23 lets the loss
  figure wrap within them; in `stream` it is 2.
- *`stream`* runs over two wraps; sequence numbers start anywhere. `MaxLap` = 2 and
  `MaxReceived` = 8 are its bounds.
- *`fec_decode`*: with 3 of 6, swaps chain (a cycle of three), and parity may replace all the
  data rows. The tables are the code's, of 256 elements; the symbols and the matrices are of
  the 16 elements whose powers repeat after 15 and which are closed under the code's sums and
  products, the field that lies within: of these `FieldAssumption` can be evaluated as it
  stands, where 256 elements have 16 million threes. For all 256 `TablesAssumption` evaluates
  it with the first of three a single bit. Every other element is a sum of bits and a power of
  one of them, so associativity and distribution follow. Encoding and decoding are linear in
  each symbol, so the three unit packets and one mixed symbol stand for all data.
  `SomeEntries`, which are 0, 1 and a generator of the inner field, give singular matrices,
  every order of pivots, and elements that are not their own inverse.
- *`fec_group`*: with 3 of 5, parity may replace two rows, and two packets can be missing.
  `CountMod` = 6 stands for 256, and N < CountMod as in the code.
- *`packets`*: `MaxCount` = 3 for 31 is above `ReportWords` = 2 for 6, so that a
  removal can spill, and four sources let each count wrap. `CcMod` = 4 for 16 and
  `WireMod` = 3 for 8 leave a count that does not fit on the wire; `IndexMod` = 3 for
  256 an extension too long for its index (`ExtSizes` are 0 to 3 words). Tails of 0, 3 and 4 bytes are none, one that
  needs padding and a whole word, and the longest message of 3 makes 4 too long.
  `MaxBeyond` = 1 lets a datagram have, or tell of, a word more than its list, one word fewer
  or any less. Items of 0, 1 and 3 bytes, alone and in twos, end an entry at every byte of a word;
  a datagram of others has at most one item for an entry and two entries (`MaxForeign`,
  `MaxEntries`). `MaxMisread` and `Room` bound what a word is misread as and the buffer of
  serialize; at 4 words some packets do not fit, and some fit only with their sources left out. For `FecPkt` a byte has two values (`ByteMod`), so that its sixteen bits hold 3
  and its thirty-two 15: of `Tstamps`, 21 does not fit. `Cuts` are the sizes at the
  borders of the header and its fields.
- *`session`*: two sockets and two free numbers besides let one be given to a stranger
  and back. The interfaces are a loopback, one with addresses of both families and one
  of IPv4 alone, any of them down. A packet of 10 bytes, 2 of them header, holds
  one whole sample of 32 bits; `MinRate` = 20000 for 48000 is, as that, above the 16000
  that two samples in a microsecond come to; `MaxFailures` = 2 leaks twice. Datagrams of others
  have 4 bytes of payload behind 2 of header, which the loop finds room for at eight bits only,
  4 behind 6, which it overreads at any width, or an extension past the array (`ForeignList`).
- *Symmetry*: the sources of `packets` are one set under three names, and the sockets
  and samples of `session` two; no definition tells their members apart, and the runs
  check no liveness.

Runs that may stop have `CHECK_DEADLOCK FALSE`: the process ends (`iq_transmit`,
`session`), a call returns (`fec_decode`), an assertion fails (`fec_group`), memory is
broken (`packets`), a socket was closed astray (`session`) or the bound on laps is
reached (`stream`). Each property of a passing run has a mutant in `PROJECT.json`: a
plausible mistake in the code under which TLC finds the property violated.

## Fairness

Only `FecDecode` and `FecCodec` have a fairness condition, weak fairness of their whole
next-state relation: a function that was called runs until it returns. `Terminates` needs
it, since the loop of `fec_shuffle` does not advance when it swaps. No fairness is assumed
of threads or of the network, and none would be justified: the program's threads run as the
scheduler lets them, and every other property is a safety property.

## Disagreements found

1. `spsc_peek_wrap`: `rtp_sdr_rbuf_size` compares `head >= tail` and then subtracts with
   another load of `head` (`rtp_sdr_rbuf.c:100-101`). If the producer wraps in between,
   the size underflows and a peek for more than is held succeeds, against
   `rtp_sdr_rbuf.h:207`. `SizeNeverTooLarge` shows that this is the only such case;
   `iq_transmit`, which peeks at two, is not harmed by it.
2. `fec_group_empty`: an empty FEC packet is never marked as received
   (`fec_group.c:130`), so if it is repeated it counts again, and the assertion
   of line 165 fails. `AbortsOnlyOnEmpty` shows that nothing else makes it fail.

Other passing properties are narrower than one would hope. What they leave out happens:

- `RightOrTurnsNewer` allows a packet to mix new samples with old ones;
  `RefusedOnlyWithExcuse` allows a full ring to look empty to the transmitter, which
  spends a sequence number on it; `ProbationEnds` needs three packets in a row, not two,
  when the number wraps among them (`rtp_source.c:95`).
- `KeepsOthers` is about a BYE, and about reports while only the last one is removed:
  `rtcp_sr_remove_report` and `rtcp_rr_remove_report` move one word per report, so
  removing the first of two leaves a report with the second's first word and the rest of
  the first. It leaves out, too, lists that end among their sources or name one twice.
- `WritesInside` names the ways the RTCP code leaves its memory: a 32nd element (`rtcp_rr.c:167`),
  a removal from more than six reports (`:199`), the end mark of a parsed BYE message
  (`rtcp_bye.c:152`), a BYE freed under its caller because its sources are not all there
  (`:132`), the use of a packet whose header alone was parsed (`rtcp_sr.c:122`), a report or APP
  shorter than its header says (`rtcp_app.c:118`), and a report whose header says less than its
  list has, so that the size of its extension wraps (`rtcp_sr.c:146`, `rtcp_rr.c:136`).
- `FaultsHaveCauses` names five: a sixteenth contributing source, whose count wraps to 0
  (`rtp_header.c:202`); 256 words of extension, which serialize counts in eight bits
  (`:123`); an extension cleared and then freed again (`:264`); reading too far, of a
  datagram cut (`:156`), of one with eight sources or more (`:107`), or after a parse
  that failed; and writing too far, after one (`:118`).
- `HarmHasCauses` does for SDES: an item that is not its source's first (`rtcp_sdes.c:158`),
  an entry of several items (`:383`), an item that is not there (`:411`), a full packet, a packet
  whose header alone was parsed (`:289`), and a datagram that ends before its entries do,
  past which the parser reads (`:307`).
- `ItemsAsSet` allows that a value too long loses the old one (`rtcp_sdes.c:430`).
- `RoundTrip` does not hold of a packet parsed from a datagram of another length before a call
  computes its own (`stale`), and is not about SDES, whose length `rtcp_sdes.c:366` and `:399`
  leave stale and nothing reads.
- `ReceivesWhatWasSent` is about a new packet. Parsed into one that has a payload, a datagram
  leaves that payload behind a new header (`rtp_packet.c:110`), and says nothing.
- `Recovers` says how soon a confused source is right; that a stray packet long after a jump is
  taken for the second of a restart (`rtp_source.c:124`) it does not rule out.
- `OwnsItsFile` and `MemberAsJoined` hold until a socket is closed whose opening failed:
  `rtp_socket_close` then closes the number left in it, which is 0 or somebody else's.
- `HeadersAccounted` counts a header lost for each receive that fails (`rtp_sdr_iq.c:199`);
  `SampleArrives` allows the rest of a payload to be stored as what no session wrote, and
  samples of 8, 24 and 32 bits never to arrive whole.
- `OverreadsOnlyLong` says when `rcp_iq_receive` reads its stack past `data`: of a payload too
  long for as many samples, which every datagram of a session is (`rtp_sdr_iq.c:211-243`).
- `NeverPaced` says that `_pause`, whose rate counts the samples of one packet, never waits.

## Proofs

Every theorem holds for all values of the constants that satisfy the modules'
`ASSUME`s, which TLC evaluates for the instances above. All properties of the passing runs
are stated by a theorem but one, `Terminates`.

| module | theorems | inductive invariant and why it is needed |
|---|---|---|
| `RBufProofs` | `TypeCorrect`, `RingImplementsQueue` | `TypeOK` itself, with its conjunct that each slot held was stored to. Lemmas on `Advance` and `Slot` turn modular indices into positions of `Contents`; one lemma per call maps it to the queue's. |
| | `SizeSafe`, `PeekSafe`, `RingIsThreadSafe` | `SizeInv` says, for each place in `size`, what the values read so far still imply when the producer has moved on. `SafeInv` adds what is in flight: the sample stored but not published, the sample loaded but not removed, the samples copied so far. `PeekSafe` and `RingIsThreadSafe` assume `InOrder`; `SizeSafe` does not. |
| `IqTransmitProofs` | `TransmitTypeCorrect`, `TransmitCopiesInOrder`, `TransmitRefusesWithExcuse` | `TxInv`. There is a number of puts that explains the whole ring (`RingInv(n)`: each slot holds the sample of the last put that reached it), and while a call copies a number from which its copies count (`CopyFrom`). Neither is a variable, so each step names the next ones. `Unexcused` says what the loads of a call without an excuse still imply. |
| `RtpStreamProofs` | `SourceTypeCorrect`, `FractionNeverWraps`, `SourceRecovers`, `SourceBecomesValid` | `SourceInv`: `ReportInv` bounds the priors also while they are those of probation; `RunInv` says where `max_seq` and `bad_seq` stand relative to the last packet as the run grows; `ProbationInv` counts down. |
| | `StreamTypeCorrect`, `StreamTracks`, `StreamNeverRefused`, `StreamLossNotOverstated` | `StreamInv`: `SourceInv`, `StreamTypeOK` and `Link`, which says what `max_seq`, `base_seq` and `cycles` are in terms of the packets `hi` and `base`. A lemma on laps shows that sixteen bits are enough within the window. `LossInv` adds that `missing` is finite and before `hi`, so that the packets a gap adds to it are new; a bijection between them and their numbers counts them. |
| `FecMatrixProofs` | `MatrixInverts`, lemma `VandermondeInverts` | `MatrixInv`, see below. |
| `FecCodecProofs` | `DecodeTypeCorrect`, `DecodeIsRight`, `DecodeFailsOnlyOnRepeat` | `DecodeInv`: rows below `i` are in place, the shuffle permutes what was given, rows rebuilt are right and no later row reads them. |
| | `CodecImplementsDecode`, `CodecDecodesRight`, `CodecFailsOnlyOnRepeat`, `CodecInverseRight` | `CodecInv` adds to it that a slot marked right holds what was encoded, and that the matrix under inversion is that of the rows named (`MatrixInv` is a part of it). |
| `FecGroupProofs` | `GroupTypeCorrect`, `GroupDecodesRight`, `GroupAbortsOnlyOnEmpty`, `GroupImplementsErasure` | `GroupInv`: what is marked is right. `CountInv`: without an empty packet `rcvd_pkts` is the number of marked slots, which needs the fact that N < CountMod. |
| `PacketsProofs` | `ListTypeCorrect`, `ListRoundTrip`, `ListWritesInside`, `ListKeepsOthers` | `ListInv`: types and, unless memory is broken, the length. `KeepInv`: elements are whole and different from each other, from which the cardinality in `KeepsOthers` follows. |
| | `RtpTypeCorrect`, `RtpReceivesWhatWasSent`, `RtpListsAdded`, `RtpFaultsHaveCauses` | `RtpInv`: `HeaderInv` (the list holds no source twice, a freed extension has no length), `SourcesInv` (what is in the array is what was added, unless a count wrapped) and `DatagramInv` (an uncut datagram is the packet it was serialized from). |
| | `SdesTypeCorrect`, `SdesItemsAsSet`, `SdesHarmHasCauses` | `SdesInv`: unless a datagram did, no source is listed twice (`IdsOnce`), and the items of a source are those asked for less those dropped (`ItemsKept`). `SumsExist`, a lemma on recursive functions, splits the bytes of a datagram at its last entry, and shows that the parser, which goes from entry to entry, looks at none past the last end mark. |
| | `FecTypeCorrect`, `FecReadsOneDatagram` | `FecInv`: `WireInv` says that a datagram nobody cut is a packed header and its load. `UnpackOfPacked`, `PackOfUnpacked`: a header goes out and in again unchanged, if its numbers fit. |
| | `PacketTypeCorrect`, `PacketsAreRight` | none of its own: a step of the run is a step of one packet. |
| `SessionProofs` | `SocketTypeCorrect`, `SocketOwnsItsFile`, `SocketMemberAsJoined` | `SocketInv`: `Shape`, the fields there are, and for each socket `Owns` (a closed one has -1, and no file is its) and `Belongs`. The first is what makes closing twice harmless, the second needs it: a group is left in the file the socket owns. |
| | `IqTypeCorrect`, `IqHeadersAccounted`, `IqSampleArrives`, `IqOverreadsOnlyLong`, `IqNeverPaced` | `IqInv`: `FlightInv`, each datagram under way was made from samples of one type; `RingInv`, what is in the ring is a component rightly read or what no session wrote, and its end is what the loop stores of the last datagram, from its first sample on. |
| | `SessionTypeCorrect`, `SessionIsRight` | none of its own, as for the packets. |

*The code with its arithmetic.* That `fec_decode` gives back what `fec_encode` was given needs
three things, each of them proved for any field:

1. `matrix_inv` inverts in place (`MatrixInverts`). Its matrix is, in the middle, neither the
   original nor the inverse, nor a triangle. `MatrixInv` reads it as a relation: for some
   order of the columns (`Chain`, the swaps so far) the matrix takes the vector in which the
   inputs of the used columns are replaced by their outputs to the vector with these exchanged
   (`Exchanged`). One pivot exchanges one more; when all are, the matrix is the inverse but
   for the order, which the loop from the last swap undoes. No pivot means a row of zeroes,
   and so no inverse.
2. `matrix_inv_vandermonde` inverts the rows of powers (`VandermondeInverts`): the product it
   builds up has the points as its roots (`CoefficientsBuilt`), synthetic division takes one
   of them out (`QuotientIs`), and what is left over its value at the point is the polynomial
   that is 1 there and 0 at the other points (`Lagrange`).
3. The rows of K different packets are never singular (`DifferentNotSingular`):
   times the first rows, they are powers of K different points, and a polynomial of
   K coefficients that are not all 0 has fewer than K roots (`TooManyRoots`).

*Induction.* The library's induction theorems take an operator as their parameter, which no
installed prover can instantiate. Recursive functions, in which sums and products are written,
and loops inside a step are reasoned about all the same by the least element for which a
statement fails (`LeastNatural`, `InductionUpTo`, from the library's theorem on well-founded
relations that takes none). That such a function is one is shown the same way, from the
approximations below n (`StepsExist`, `SumsExist`). No module declares a RECURSIVE operator.

Assumptions worth knowing:

- A ring has two slots or more (asserted by the code); a consumer's array has room for what it
  peeks (RBufSpsc). In IqTransmit the ring has more slots than the two that are
  peeked at (`RoomAssumption`): for a ring of two TLC finds a packet that
  `RightOrTurnsNewer` does not explain. The program's rings have `RTP_PACKET_LENGTH` slots.
- `WordModAssumption`: a `size_t` is above twice the size of a ring, so an underflow looks large.
- The network stays within the source's thresholds (RtpStream).
- K <= N (FecDecode), N below the modulus of the count (FecGroup), N at most one more than the
  order of the field's group (FecCodec), beyond which `fec_new` would repeat a row: for the
  code's it is 256, the bound that the assertion of `fec.c:60` is about.
- The laws of the field are assumptions on constants as the others are, but here TLC settles
  them: the code's tables are 256 numbers, and the run evaluates the laws for all of them.
- A packet has at most eight times `ReportWords` elements, 31 <= 48, and fits the sixteen bits
  of its length (RtcpList); a socket that is open is not opened (RtpSocket); a payload has
  room for what is written of two samples, and neither junk nor what lies past the array is a byte
  that was written (IqReceive). The clock may stand or
  be set back: `Elapsed` is any integer.

Checked by TLC only: `Terminates`, since liveness is out of the prover's reach, as ENABLED is.
The type invariants of the parts (`SpscTypeOK`, `StreamTypeOK`, `ListTypeOK`, `GroupTypeOK`,
`RtpTypeOK` and so on) are proved and need no run of their own.

## Not modelled

- *Memory.* Reads past an array whose value is not used afterwards (the last word
  `memmove` takes in `rtcp_bye.c:207`), leaks of fields that a `free` forgets (a BYE's),
  and a failing `malloc`, which most of this code does not test for. A read past an array whose
  value is used ends the process or gives any value (IqReceive), or ends the model
  (`broken`, `harm`, `fault`).
- *Parsing into a used packet* but for RTP: the RTCP modules parse into a new one.
- *The header's length of an SDES*, which neither its serializer nor its parser reads.
- *Stores out of order* but for `size` (`spsc_any_order`): of two plain stores seen the wrong way
  round a consumer takes a slot not yet written, which needs no model.
- *Numbers that are not integers*: `rtcp_interval`, `update_jitter`, NTP conversions; random
  numbers. Little endian and 24-bit integers of `fec_pack.c`, which nothing uses.
- *System calls*: the three multicast options of a sending socket, which are ignored if
  they can not be set; configuration and command line in `sdr_test.c` but for the types.
- *Fields that are copied*: those of a report block (`rtcp_report_init` takes `last_seq`
  without the cycles, see the hazards), the fixed fields of an RTP header, time stamps.
- The receiver that matches FEC packets to groups: the repository has none, so FecGroup
  takes packets of its group, as `fec_group_insert_pkt` asserts.
- What a thread does with the memory of a freed session (`Freed` is where it ends), and
  what the receive handler's `fwrite` (`sdr_test.c:156`) writes: the ring's handle, not
  its samples.

## Plan

Done: the ring and its two uses, the source and the stream, the FEC code with its
arithmetic, its group and packets, the RTP packet and the five RTCP packets, the sockets
and the way of samples; theorems for every safety property of the runs.

Next, in this order:

1. Report blocks from source to sender: `rtcp_report_init` between RtpStream and RtcpList, with
   the hazard of `rtcp_report.c:53`.
2. That FecGroup's one step for `fec_decode` is what a run of FecCodec does: so far the two meet
   in their words only, `DecodesRight` and `FailsOnlyOnRepeat`.
3. The parameters of a socket that `getaddrinfo` decides, and the rest of `main`.
