SPECIFICATION Spec
CONSTANTS
    N = 2
    MaxYield = 2
    MaxPasses = 3
INVARIANTS Conservation Isolation CountersAgree SnapshotConsistent
PROPERTIES DisabledStaysOut SnapshotsMonotone
