SPECIFICATION FailoverSpec
CONSTANTS
  KeepCopies = TRUE
  MaxSeq = 3
  Window = 1
  MaxCrashes = 2
  CutReplays = FALSE
  MaxTorn = 0
INVARIANTS
  AgreementAcrossFailover
  NoMismatchAcrossFailover
CHECK_DEADLOCK FALSE
