SPECIFICATION Spec
CONSTANTS
    Chip <- MCChip
    MaxTries = 3
    MaxMisses = 5
CHECK_DEADLOCK FALSE
INVARIANT TypeOK
INVARIANT ComesUpRight
INVARIANT CaptureSafe
PROPERTY EveryPortSpeaks
