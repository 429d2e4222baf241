SPECIFICATION MCSpec
CONSTANTS
    t1 = t1
    t2 = t2
    t3 = t3
    Targets <- MCTargets
    Routes <- MCRoutes
    PageSize = 2
    ChunkSize = 2
    MaxAttempts = 2
    MaxFaults = 1
    MaxUserActions = 1
SYMMETRY Symmetry
CHECK_DEADLOCK FALSE
INVARIANTS
    SuccessServesNew
    SuccessRetiresOld
    OneFailureSparesTheRest
    UndisturbedDeploymentSucceeds
PROPERTIES
    
    NeverBare
