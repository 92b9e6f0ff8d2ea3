SPECIFICATION HarnessSpec
CONSTANTS
  KeepCopies = TRUE
  MaxSeq = 3
  Window = 2
  failovers = 2
INVARIANTS
  OneReplaySuffices
  InlineAgreement
  DrainedRunPasses
  LostOnlyIfForgotten
CHECK_DEADLOCK FALSE
