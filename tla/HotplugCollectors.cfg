SPECIFICATION Spec
CONSTANTS
    CPUs = {c1, c2}
    Modulus = 4
    MaxRunnable = 2
    Horizon = 5
INVARIANTS TypeOK
PROPERTIES NothingInvented NothingLost
