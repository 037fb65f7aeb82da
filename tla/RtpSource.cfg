SPECIFICATION SourceSpec
CONSTANTS
  SeqMod = 10
  MaxDropout = 4
  MaxMisorder = 3
  MinSequential = 2
  LostHalf = 4
  MaxReceived = 6
INVARIANT SourceTypeOK ReportFits Recovers ProbationEnds
