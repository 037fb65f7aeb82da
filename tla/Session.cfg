SPECIFICATION Session
CONSTANTS
  Sock = {tx, rx}
  MaxFd = 3
  Interfaces <- InterfaceList
  Stranger = Stranger
  TypeArgs = {8, 16, 32, 64}
  Sample = {s1, s2}
  PacketLength = 10
  HeaderLength = 2
  MinRate = 20000
  Elapsed <- ElapsedTimes
  MaxFlight = 2
  MaxFailures = 2
  Junk = Junk
  Beyond = Beyond
  ForeignSizes <- ForeignList
SYMMETRY Symmetric
CHECK_DEADLOCK FALSE
INVARIANT SessionTypeOK OwnsItsFile MemberAsJoined
INVARIANT HeadersAccounted SampleArrives OverreadsOnlyLong NeverPaced
