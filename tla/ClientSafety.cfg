CONSTANTS
    NumPieces = 2
    MaxGen = 2
    WritesFail = FALSE
    NumBlocks = 1
    p1 = p1
    p2 = p2
    Peers = {p1, p2}
    Honest = {}
    Bitfields <- AllPieces
    EndgameThreshold = 1
    MaxFailures = 1
SPECIFICATION Spec
SYMMETRY PeerSymmetry
INVARIANTS
    TypeOK
    CrashOnlyAfterCompletion
    DoneHoldsNothing
    FinishedIntact
PROPERTIES
    ImplementsStorageWorkers
