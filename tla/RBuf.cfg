SPECIFICATION Spec
CONSTANTS
  Sample = {s1, s2}
  Unset = Unset
  Size = 4
  MaxPeek = 4
INVARIANT TypeOK
PROPERTY ImplementsQueue
