CONSTANTS
    NumPieces = 1
    MaxGen = 2
    WritesFail = FALSE
    NumBlocks = 1
    p1 = p1
    p2 = p2
    Peers = {p1, p2}
    Honest = {}
    Bitfields <- NoBitfield
    EndgameThreshold = 1
    MaxFailures = 1
SPECIFICATION FairSpec
PROPERTIES
    RetriesWhenPeersGaveUp
