CONSTANTS
    NumPieces = 2
    MaxGen = 2
    WritesFail = FALSE
    w1 = w1
    w2 = w2
    Workers = {w1, w2}
SPECIFICATION Spec
SYMMETRY WorkerSymmetry
INVARIANTS
    NoCircularWait
PROPERTIES
    ImplementsStorageWorkers
