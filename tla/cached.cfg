\* Tasks may exit, and the PID lists overflow.
SPECIFICATION FairSpec
CONSTANTS
    Tasks = {1, 2, 3}
    MaxContainers = 1
    Launcher <- FirstTasks
    Lendable = {1, 2}
    Dedicated = {9}
    MayExit = {1, 2, 3}
    Lists <- Shrinking
    MaxRequests = 2
    ListSize = 6
    PidListSize = 2
INVARIANTS
    CachedConfined
PROPERTIES
    RevokeGoesStraight
    RequestAnswered
CHECK_DEADLOCK FALSE
