SPECIFICATION Spec
CONSTANTS
    NumPorts = 2
    OnchipFirst = 1
    FifoSize = 2
    OvfMax = 2
    Prescale = 2
    MaxBytes = 4
INVARIANT TypeOK
INVARIANT Conservation
INVARIANT InOrder
INVARIANT OverflowExact
PROPERTY ImplementsByteFifo
PROPERTY Drains
