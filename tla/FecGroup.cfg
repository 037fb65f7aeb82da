SPECIFICATION Spec
CONSTANTS
  K = 3
  N = 5
  FecLen = 2
  CountMod = 6
  Junk = Junk
INVARIANT AbortsOnlyOnEmpty DecodedIsRight
PROPERTY ImplementsErasure
CHECK_DEADLOCK FALSE
