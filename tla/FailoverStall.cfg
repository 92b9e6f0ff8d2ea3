SPECIFICATION FairFailoverSpec
CONSTANTS
  KeepCopies = FALSE
  MaxSeq = 2
  Window = 2
  MaxCrashes = 1
  CutReplays = FALSE
  MaxTorn = 0
PROPERTY
  EveryRequestAnswered
CHECK_DEADLOCK FALSE
