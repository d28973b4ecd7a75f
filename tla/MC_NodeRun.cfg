SPECIFICATION FairSpec
CONSTANT
    Runs <- Configurations
INVARIANTS
    StopReachesAll
PROPERTIES
    ControlSafety
    StopEndsGuardedRun
    DurationEndsYieldingRun
