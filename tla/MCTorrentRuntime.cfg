CONSTANTS
    NPieces = 3
    MaxPeers = 2
    MaxHolders = 4
    RequestsLimit = 2
    Timeout = 2
SPECIFICATION Spec
INVARIANTS
    TypeOK
    TiersAgree
    RequestedOnce
    OldestFirst
    CompleteMeansAll
PROPERTIES
    NeverReopened
    PieceByPiece
CHECK_DEADLOCK FALSE
