SPECIFICATION TimingSpec
CONSTANTS
    Tick = 93
    TickPrescale = 3
    ByteTime = 320
    Lo = 60
    Hi = 100
    Sweep = 105
INVARIANT TimingTypeOK
INVARIANT NoOverrun
INVARIANT SteadyCadence
