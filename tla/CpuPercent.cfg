SPECIFICATION Spec
CONSTANTS
    MaxJiffies = 2
    Horizon = 3
INVARIANTS SharesArePercentages
