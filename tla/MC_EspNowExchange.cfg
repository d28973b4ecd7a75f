SPECIFICATION FairSpec
CONSTANTS
    cA = cA
    cB = cB
    NoCentral = none
    Centrals <- TwoCentrals
    CentralKinds <- Kinds
    Settings <- MCSettings
    PoolCap = 1
    Hysteresis = 3
    StreakMax = 4
INVARIANTS
    FollowsSteadyListener
    NoSleepOnFrames
PROPERTIES
    ReplyAnswersControl
    ReplyIsSent
    SomeoneCollects
