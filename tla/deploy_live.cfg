SPECIFICATION MCFairSpec
CONSTANTS
    t1 = t1
    t2 = t2
    t3 = t3
    Targets <- MCTwoTargets
    Routes <- MCRoutes
    PageSize = 1
    ChunkSize = 1
    MaxAttempts = 1
    MaxFaults = 1
    MaxUserActions = 1
CHECK_DEADLOCK FALSE
PROPERTIES
    EveryDeploymentEnds
