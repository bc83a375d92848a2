\* A start command while the thread is about to sleep.
SPECIFICATION FairSpec
CONSTANTS
    Cores = {0, 1, 2}
    ListSize = 2
    Lists <- OneList
    SampleLimit = 1
PROPERTIES
    StartCommandStarts
CHECK_DEADLOCK FALSE
