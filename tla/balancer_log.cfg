\* Buffers of one entry, three changes of the mask, three ticks of two a second.
SPECIFICATION Spec
CONSTANTS
    Cores = {0, 1}
    Primaries <- OneEach
    Targets = {0, 1}
    MAX_EVENTS = 1
    NsPerSec = 2
    Wrap = 8
    MaxTime = 3
    MaxChanges = 3
INVARIANTS
    UtilizationExact
    StatisticsExact
    EventsMatchChanges
CHECK_DEADLOCK FALSE
