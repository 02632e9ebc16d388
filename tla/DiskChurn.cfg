SPECIFICATION Spec
CONSTANTS
    Devices <- MapperDevices
    Include = {}
    Exclude = {}
    Pseudo <- PseudoDevices
    NameExtends <- NamesThatExtend
    AggregateAll = TRUE
    MaxDevices = 1
    Horizon = 3
INVARIANTS TypeOK NothingTwice NothingLost UtilBounded NoBridge
