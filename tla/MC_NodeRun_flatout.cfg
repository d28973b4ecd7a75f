SPECIFICATION FairSpec
CONSTANT
    Runs <- FlatOut
PROPERTIES
    DurationEndsRun
