SPECIFICATION FailoverSpec
CONSTANTS
  KeepCopies = TRUE
  MaxSeq = 3
  Window = 2
  MaxCrashes = 1
  CutReplays = TRUE
  MaxTorn = 0
INVARIANTS
  FailoverTypeOK
  OncePerServer
  OneFailoverIsSafe
  StagedAcksCommitted
PROPERTY ImplementsRecoverableHistory
CHECK_DEADLOCK FALSE
