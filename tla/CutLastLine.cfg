CONSTANTS
    Message <- CutMessages
    Piece <- Pieces
    BufSize = 15
    BufMax = 30
    CutLastLine <- CutMessages
    MaxMessages = 1
SPECIFICATION Spec
CHECK_DEADLOCK FALSE
INVARIANTS
    NeverRefused
