SPECIFICATION FairPoolSpec
CONSTANTS
    Workers = {w1, w2, w3}
    Tasks = {t1, t2, t3}
INVARIANTS NoIdleBacklog RunOnceThenDestroyed
PROPERTIES EveryTaskRuns DestructorReturns
CHECK_DEADLOCK FALSE
