SPECIFICATION FailoverSpec
CONSTANTS
  KeepCopies = TRUE
  MaxSeq = 3
  Window = 2
  MaxCrashes = 2
  CutReplays = FALSE
  MaxTorn = 0
INVARIANT
  HistoryAgreement
CHECK_DEADLOCK FALSE
