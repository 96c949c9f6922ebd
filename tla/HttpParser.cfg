CONSTANTS
    Message <- AllMessages
    Piece <- Pieces
    BufSize = 15
    BufMax = 25
    CutLastLine <- HeldCR
    MaxMessages = 2
SPECIFICATION Spec
CHECK_DEADLOCK FALSE
INVARIANTS
    HttpParserTypeOK
    
    RelayedAsSent
    
PROPERTIES
    EveryMessageTaken
