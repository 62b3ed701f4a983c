SPECIFICATION Spec
CONSTANTS
    Statuses <- MCStatuses
    MaxLen = 6
INVARIANT TypeOK
INVARIANT MatchesReference
INVARIANT LoopbackStable
CHECK_DEADLOCK FALSE
