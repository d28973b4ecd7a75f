SPECIFICATION Spec
SYMMETRY Symmetry
CONSTANTS
    Chips = {"esp32", "esp32c5"}
    Macs = {a, b}
    NoMac = none
    SeqMod = 4
    LossCap = 2
    TrackCap = 1
    Strays = {1}
    MaxRuns = 2
    MaxEvents = 3
INVARIANTS
    GapsWereMissed
    CountersAgree
    SettledFilterDecides
\* When the last run is over, user code makes no call and the channel is silent,
\* nothing happens.
CHECK_DEADLOCK FALSE
