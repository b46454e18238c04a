CONSTANTS
    PoolWorkers = {w1}
    MaxTasks = 1
SPECIFICATION FairLifeSpec
CHECK_DEADLOCK FALSE
PROPERTIES BindFailureIsReported
