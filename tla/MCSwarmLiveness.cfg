CONSTANTS
    Hash = {h1}
    NoHash = none
    PeerId = {p1}
    Conn = {c1, c2}
    Listener = listener
    Caller = caller
    NPieces = 1
    MaxPeers = 0
    RequestsLimit = 1
    Timeout = 1
    MaxUnchoked = 1
    Period = 1
    MaxReads = 0
    MaxAdds = 1
    MaxCommands = 1
    MaxDown = 1
SPECIFICATION FairSpec
PROPERTIES
    NewPeersTakenUp
    HungUpIsForgotten
    DisconnectStops
CHECK_DEADLOCK FALSE
