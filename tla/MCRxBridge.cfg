SPECIFICATION Spec
CONSTANTS
    NumPorts = 2
    FifoCapacity = 2
    OvfMax = 1
    RingSize = 16
    MaxPkt = 8
    Alphabet <- MCAlphabet
    MaxBytes = 3
INVARIANT TypeOK
INVARIANT EveryPacketOnce
INVARIANT TransfersInOrder
PROPERTY RxNeverBlocked
PROPERTY Delivered
CHECK_DEADLOCK FALSE
