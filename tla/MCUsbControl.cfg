SPECIFICATION Spec
CONSTANTS
    Requests <- MCStandard
    None = None
    IdProduct = 4289
    OvfMax = 1
    MaxBulk <- MCFewIn
    MaxResets = 1
CHECK_DEADLOCK FALSE
INVARIANT TypeOK
INVARIANT NeverHangs
INVARIANT StatusTruthful
INVARIANT OutExactlyOnce
INVARIANT DescriptorsWhole
INVARIANT CablesMatchSockets
