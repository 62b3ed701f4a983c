SPECIFICATION Spec
CONSTANTS
    NumPorts = 2
    RingSize = 4
    Shapes <- MCShapes
    MaxEvents = 2
    MaxTransfers = 2
    InterfaceAt <- MCAlways
    InterfaceBudget = 1
INVARIANT TypeOK
INVARIANT NothingLostOrRepeated
PROPERTY ImplementsTxQueue
PROPERTY AllSent
PROPERTY NeverWedged
