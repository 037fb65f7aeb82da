SPECIFICATION Codec
CONSTANTS
  K = 3
  N = 6
  NoPacket = NoPacket
  Bits = 8
  Prim = {0, 2, 3, 4}
  Order = 3
  Elements <- InnerField
  GF_ADD <- Plus
  GF_MUL <- Times
  GF_INV <- Reciprocal
  Group = 15
  gf_polys <- InnerPoly
  Symbols = {0, 1, 2, 3}
  Data <- Units
  Entries <- SomeEntries
INVARIANT DecodesRight FailsOnlyOnRepeat InverseRight
PROPERTY Terminates ImplementsDecode
CHECK_DEADLOCK FALSE
