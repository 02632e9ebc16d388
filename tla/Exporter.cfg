SPECIFICATION Spec
CONSTANTS
    Horizon = 4
INVARIANTS Accounted IncreaseSound
PROPERTIES Recovers
