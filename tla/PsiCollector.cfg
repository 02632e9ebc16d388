SPECIFICATION Spec
CONSTANTS
    R = 2
    HasFull = {2}
    MaxDelay = 1
    Horizon = 4
\* A disabled collector is never called again.
CHECK_DEADLOCK FALSE
INVARIANTS TypeOK NothingTwice NothingLost SkewBounded
