CONSTANTS
    PoolWorkers = {w1, w2}
    MaxTasks = 3
SPECIFICATION FairLifeSpec
CHECK_DEADLOCK FALSE
INVARIANTS LifeTypeOK NoLostWakeup NoForgottenEvent OrderlyEnd
PROPERTIES ImplementsTaskQueue TasksAreRun EventsAreProcessed StopEnds PoolIsDestroyed
