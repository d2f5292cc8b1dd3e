CONSTANTS
    NPieces = 5
    ByteBits = 4
    MsgSize = 20
    OverflowChecks = TRUE
    Payload <- Messages
    MaxSends = 3
    MaxUnread = 2
SPECIFICATION Spec
INVARIANTS
    ViewExact
    NothingInvented
PROPERTIES
    ActionsTellChanges
CHECK_DEADLOCK FALSE
