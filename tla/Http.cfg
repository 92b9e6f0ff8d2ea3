SPECIFICATION FairHttpSpec
CONSTANTS
    KeepCopies = FALSE
    MaxSeq = 3
    Window = 2
    checkpoint_every_ = 1
INVARIANTS HttpTypeOK HeldWhileStaged NoAttemptForgotten CheckpointLag
PROPERTIES EverySendReturns ImplementsConversation
CHECK_DEADLOCK FALSE
