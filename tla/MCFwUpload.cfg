SPECIFICATION Spec
CONSTANTS
    Tools = {t1, t2}
    Files <- MCFiles
    AddrSpace = 8
    RamTop = 5
    Cpucs = 6
    MaxChunk = 2
    Erased = Erased
    MaxRuns = 3
    MaxFaults = 2
SYMMETRY Symmetry
INVARIANT TypeOK
INVARIANT OnlyWholeImageRuns
INVARIANT SuccessIsTrue
CHECK_DEADLOCK FALSE
