SPECIFICATION Spec
CONSTANTS
    NumPorts = 2
    RingSize = 4
    Shapes <- MCFewShapes
    MaxEvents = 2
    MaxTransfers = 2
    InterfaceAt <- MCAlways
    InterfaceBudget = 1
INVARIANT EveryByteAccounted
