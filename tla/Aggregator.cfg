SPECIFICATION Spec
CONSTANTS
    Keys = {cpu, psi, disk}
    Values = {x}
    Windows = {1, 3}
    MaxWindow = 3
    MaxSeries = 2
    MinInstant <- ShallowPast
    MaxBatch = 2
    Horizon = 5
INVARIANTS KeepsItsWindow CapIsFinal
PROPERTIES ImplementsRollingLog
