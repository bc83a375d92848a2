\* The thread under commands, list changes and the unloading of the module.
SPECIFICATION FairSpec
CONSTANTS
    Cores = {0, 1, 2}
    ListSize = 2
    Lists <- SomeLists
    SampleLimit = 1
INVARIANTS
    OnlyNamedCores
    ScanComplete
PROPERTIES
    StopCommandStops
    StopIsSeen
    YieldsAgain
CHECK_DEADLOCK FALSE
