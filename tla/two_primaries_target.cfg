\* Two Primaries of two cores each, one skipped and one asking for cores.
SPECIFICATION Spec
CONSTANTS
    MaxPrimaries = 2
    CpuList <- TwoPools
    StaticTarget <- Two1
    InitialTarget <- Two1
    MinSecondary <- Two0
    LowTic = 0
    RampUp = 0
    SurplusEvtsThresh = 0
    Dedicated = {9}
    MaxContainers = 0
    BootControl <- OnlyPaused
    BootUpdating <- NotUpdating
    StopWhilePaused = FALSE
    MayStopMonitor = FALSE
    MayCancelListener = FALSE
INVARIANTS
    TargetReserved
