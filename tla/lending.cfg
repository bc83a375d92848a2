\* One Primary of three cores, target between 1 and 2.  The Monitor may be
\* stopped and the Listener cancelled.
SPECIFICATION FairSpec
CONSTANTS
    MaxPrimaries = 1
    CpuList <- OnePool
    StaticTarget <- One2
    InitialTarget <- One2
    MinSecondary <- One0
    LowTic = 1
    RampUp = 2
    SurplusEvtsThresh = 1
    Dedicated = {9}
    MaxContainers = 1
    BootControl <- AnyBootControl
    BootUpdating <- AnyBootUpdating
    StopWhilePaused = FALSE
    MayStopMonitor = TRUE
    MayCancelListener = TRUE
INVARIANTS
    Handshake
    NoBusyCoreTaken
    SettledGrant
    Accounting
    TargetBounds
PROPERTIES
    StopFinal
    ImplementsLending
    ImplementsHandOver
    StopEndsBalancer
    GrantTakesEffect
