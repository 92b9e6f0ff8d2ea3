SPECIFICATION HarnessSpec
CONSTANTS
  KeepCopies = TRUE
  MaxSeq = 3
  Window = 2
  failovers = 2
INVARIANT
  AcceptedMeansAnswered
CHECK_DEADLOCK FALSE
