CONSTANTS
    Hash = {h1}
    NoHash = none
    PeerId = {p1}
    Conn = {c1}
    Listener = listener
    Caller = caller
    NPieces = 1
    MaxPeers = 1
    RequestsLimit = 1
    Timeout = 1
    MaxUnchoked = 1
    Period = 1
    MaxReads = 2
    MaxAdds = 1
    MaxCommands = 2
    MaxDown = 1
SPECIFICATION Spec
INVARIANTS
    TypeOK
    ChokeViewExact
    InterestViewExact
    BitfieldViewExact
    CompletedOnce
    LookupsSucceed
SYMMETRY Symmetry
CHECK_DEADLOCK FALSE
