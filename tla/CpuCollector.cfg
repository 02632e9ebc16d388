SPECIFICATION Spec
CONSTANTS
    MaxJiffies = 2
    Horizon = 3
INVARIANTS TypeOK NothingLost NothingTwice
PROPERTIES SharesAddUp
