SPECIFICATION FairSpec
CONSTANTS
    Builds = {"auto", "async-print", "blocking"}
    Packets <- MCPackets
    QueueCap = 2
    TextCap = 1
    Buffer = 22
    TailReserve = 3
    EmitCaps = {0, 1}
    DropMod = 3
    WriteFails = TRUE
INVARIANTS
    TypeOK
    NothingLostUncounted
    HeaderFirst
    BackendHeaderOnce
    
PROPERTIES
    TextNotStarved
    PacketNotStarved
