SPECIFICATION IqTransmit
CONSTANTS
  Sample = {1, 2, 3, 4, 5, 6, 7, 8, 9, 10}
  Unset = 0
  Size = 4
  MaxPeek = 2
  FileLen = 10
  SeqMod = 2
  WordMod = 16
CHECK_DEADLOCK FALSE
INVARIANT TxTypeOK RightOrTurnsNewer RefusedOnlyWithExcuse
