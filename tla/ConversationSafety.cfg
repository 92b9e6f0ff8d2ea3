SPECIFICATION Spec
CONSTANTS
  KeepCopies = FALSE
  MaxSeq = 4
  Window = 3
INVARIANTS
  TypeOK
  HistoryAgreement
  NoMismatch
  NeverAsksForReplay
  NoLostReply
  ExactlyOnce
  Bounded
  ConvergedWhenQuiet
PROPERTY
  ImplementsSharedHistory
CHECK_DEADLOCK FALSE
