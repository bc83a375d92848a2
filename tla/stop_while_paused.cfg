\* The exit signal arrives before the Balancer is active.
SPECIFICATION FairSpec
CONSTANTS
    MaxPrimaries = 1
    CpuList <- OneSmallPool
    StaticTarget <- One1
    InitialTarget <- One1
    MinSecondary <- One0
    LowTic = 1
    RampUp = 1
    SurplusEvtsThresh = 0
    Dedicated = {9}
    MaxContainers = 1
    BootControl <- OnlyPaused
    BootUpdating <- AnyBootUpdating
    StopWhilePaused = TRUE
    MayStopMonitor = TRUE
    MayCancelListener = TRUE
PROPERTIES
    StopEndsBalancer
