\* Two containers, three tasks, no exits.
SPECIFICATION Spec
CONSTANTS
    Tasks = {1, 2, 3}
    MaxContainers = 2
    Launcher <- FirstTasks
    Lendable = {1, 2}
    Dedicated = {9}
    MayExit = {}
    Lists <- TwoCores
    MaxRequests = 2
    ListSize = 6
    PidListSize = 2
INVARIANTS
    PassInv
    PresentConfined
PROPERTIES
    ImplementsHandOver
