SPECIFICATION HttpFailoverSpec
CONSTANTS
    KeepCopies = FALSE
    MaxSeq = 2
    Window = 2
    checkpoint_every_ = 1
    MaxCrashes = 1
    MaxTorn = 1
INVARIANTS HttpFailoverTypeOK OnlyAppResultsDelivered HeldOnlyStaged NoThreadForgotten
PROPERTIES ImplementsFailover
CHECK_DEADLOCK FALSE
