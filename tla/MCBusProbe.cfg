SPECIFICATION Spec
CONSTANTS
    Requests <- MCRequests
    None = None
    AddrBytes = {0, 1}
    Values = {0, 1}
    MaxWrites = 2
CHECK_DEADLOCK FALSE
INVARIANT TypeOK
INVARIANT WritesOnce
INVARIANT DescriptorsWhole
PROPERTY ReadsFresh
PROPERTY Drained
