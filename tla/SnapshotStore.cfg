SPECIFICATION Spec
CONSTANTS
    Clients = {prometheus, probe}
    MaxPublish = 2
SYMMETRY ClientSymmetry
INVARIANTS ReadyMeansContent NeverBackwards
