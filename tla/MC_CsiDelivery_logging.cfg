SPECIFICATION HSpec
CONSTANTS
    Executors = {app}
    Home = app
    Callbacks = {cbA}
    NoCallback = null
    QueueCap = 2
    MaxFrames = 2
    RawAllowed = FALSE
    LoggingArgs = {TRUE, FALSE}
    ModeArgs = {"Off", "Async"}
    OutputArgs = {FALSE}
INVARIANTS
    CallbackKeepsGateOpen
