CONSTANTS
    SamplePeriod = 2
    SnapshotInterval = 3
    Tolerance = 1
    MaxBusy = 2
    MaxLate = 5
SPECIFICATION LoopSpec
INVARIANTS LagAccountsForDelay
PROPERTIES NoBurst NoOverlap SnapshotsGoOn
