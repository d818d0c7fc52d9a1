SPECIFICATION Spec
CONSTANTS
    Workers = {w1, w2}
    MaxGeneration = 2
    MaxInstance = 2
SYMMETRY Symmetry
INVARIANTS
    SafeReclaim
    WorkerNeverLastOwner
    SuccessMeansVisible
    NoSpuriousRefusal
PROPERTIES
    ImplementsVersions
