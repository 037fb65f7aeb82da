SPECIFICATION Packets
CONSTANTS
  Csrc = {s1, s2, s3, s4}
  Datum = Datum
  CcMod = 4
  WireMod = 3
  IndexMod = 3
  ExtSizes = {0, 1, 2, 3}
  MaxMisread = 2
  Room = 4
  Source = {s0, s1, s2, s3, s4}
  ZeroSource = s0
  ReportWords = 2
  MaxCount = 3
  Sizes = {0, 3, 4}
  MaxMessage = 3
  MaxBeyond = 1
  Member = {s0, s1, s2, s3, s4}
  ZeroMember = s0
  ItemType = {CNAME, NAME}
  Lengths = {0, 1, 3}
  MaxEntries = 2
  MaxForeign = 1
  ByteMod = 2
  FecMagic = 1
  MaxPayload = 2
  Tstamps = {5, 21}
  Cuts = {0, 1, 9, 13, 14, 15}
SYMMETRY Symmetric
CHECK_DEADLOCK FALSE
INVARIANT PacketTypeOK ReceivesWhatWasSent ListsAdded FaultsHaveCauses
INVARIANT RoundTrip KeepsOthers
INVARIANT ItemsAsSet HarmHasCauses
INVARIANT ReadIsOneDatagram
PROPERTY WritesInside
