\* Two nodes that swap their roles, a pool of one frame, a health check at every
\* second pass.
SPECIFICATION FairSpec
CONSTANTS
    Nodes = {n1, n2}
    NoNode = NoNode
    PoolCap = 1
    HealthPeriod = 2
INVARIANTS
    TypeOK
    SettledWasGreeted
PROPERTIES
    SourceDiscovers
    FloodRecovers
