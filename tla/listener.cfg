\* Two clients with any two messages, at most three connections.
SPECIFICATION FairSpec
CONSTANTS
    Clients = {1, 2}
    Messages <- SomeMessages
    PodContainers <- OnePod
    MaxTries = 3
    MaxContainers = 7
INVARIANTS
    TablesComplete
    AckedIsRegistered
    FlagCleared
PROPERTIES
    TablesUnderFlag
    ClientsAnswered
