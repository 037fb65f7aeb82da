SPECIFICATION Spsc
CONSTANTS
  Sample = {s1, s2}
  Unset = Unset
  Size = 4
  MaxPeek = 4
  WordMod = 16
  InOrder = TRUE
INVARIANT PeekOnlyAvailable
