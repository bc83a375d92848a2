\* A log of three entries, all levels, one reader.
SPECIFICATION Spec
CONSTANTS
    Cores <- ThreeBits
    CpuList <- FirstTwo
    LogSize = 3
    Readers = {r1}
INVARIANTS
    ReadInOrder
    ReadsWritten
PROPERTIES
    LogFollowsMask
