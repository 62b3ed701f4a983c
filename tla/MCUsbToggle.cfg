SPECIFICATION Spec
CONSTANTS
    Requests <- MCDriver
    None = None
    IdProduct = 4289
    OvfMax = 1
    MaxBulk <- MCBoth
    MaxResets = 1
CHECK_DEADLOCK FALSE
INVARIANT InExactlyOnce
