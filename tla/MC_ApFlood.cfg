SPECIFICATION FairSpec
CONSTANTS
    s1 = s1
    s2 = s2
    s3 = s3
    NoAddr = none
    Stations <- ThreeStations
    Configs <- MCConfigs
    MaxClients = 3
    LastHost = 4
    LeaseWait = 1
    CatchUp = 2
INVARIANTS
    NoSharedAddress
    NoReceiverLeftBehind
PROPERTIES
    LeaseIsStable
    LeasedIsFlooded
