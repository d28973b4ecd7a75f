SPECIFICATION FairSpec
CONSTANT
    Runs <- Dhcp
PROPERTIES
    StopEndsRun
