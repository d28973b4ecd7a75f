\* Two gateways tell a stale lease from the current one; a burst of two frames
\* and a stall of seven intervals are the least in which a repaid stall shows.
SPECIFICATION FairSpec
CONSTANTS
    Chips = {"classic", "c5", "c6"}
    Gateways = {g1, g2}
    NoGateway = NoGateway
    Burst = 2
    MaxDue = 7
INVARIANTS
    CsiArmedWhileCollecting
    TargetFollowsLease
    StallsAreForgiven
    ForcedFormatOnAir
    ReceiverInPlace
PROPERTY
    StationComesBack
