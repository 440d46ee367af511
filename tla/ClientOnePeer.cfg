CONSTANTS
    NumPieces = 3
    MaxGen = 1
    WritesFail = TRUE
    NumBlocks = 2
    p1 = p1
    Peers = {p1}
    Honest = {}
    Bitfields <- FirstPieceOnly
    EndgameThreshold = 1
    MaxFailures = 2
SPECIFICATION Spec
INVARIANTS
    PendingTracksBlock
    GivesUpOnlyAfterFailures
    FinishedIntact
PROPERTIES
    ImplementsStorageWorkers
