SPECIFICATION Spec
CONSTANTS
    Bits = 3
    NumPieces = 4
    HandshakeSize = 2
    MaxSize = 100
    Blocks <- MCBlocks
    FirstPieces <- MCFirstPieces
    NewPieces <- MCNewPieces
    MaxConnects = 2
    MaxStream = 14
    MaxAsked = 2
INVARIANTS
    InStepUnlessSplit
    NeverCutShort
    AnswerFitsRequest
    KnowsWhatItHas
CHECK_DEADLOCK FALSE
