SPECIFICATION StreamSpec
CONSTANTS
  SeqMod = 7
  MaxDropout = 4
  MaxMisorder = 3
  MinSequential = 2
  LostHalf = 2
  MaxReceived = 8
  MaxBurst = 3
  MaxDelay = 2
  MaxLap = 2
INVARIANT Tracks LossNotOverstated
PROPERTY NeverRefuses
CHECK_DEADLOCK FALSE
