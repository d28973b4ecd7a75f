SPECIFICATION FairHSpec
CONSTANTS
    Executors = {app}
    Home = app
    Callbacks = {cbA, cbB}
    NoCallback = null
    QueueCap = 2
    MaxFrames = 3
    RawAllowed = TRUE
    LoggingArgs = {TRUE, FALSE}
    ModeArgs = {"Off", "Async"}
    OutputArgs = {FALSE}
INVARIANTS
    NoLostWakeup
    CallbackModeHasCallback
    NoStaleCallback
    RegisteredCallbackIsServed
    LateFramesStopAtGate
PROPERTIES
    ChannelSafety
    ChannelSpec
