CONSTANTS
    Hash = {h1}
    NoHash = none
    PeerId = {p1, p2}
    Conn = {c1, c2, c3}
    Listener = listener
    Caller = caller
    NPieces = 1
    MaxPeers = 0
    RequestsLimit = 1
    Timeout = 1
    MaxUnchoked = 1
    Period = 1
    MaxReads = 0
    MaxAdds = 1
    MaxCommands = 1
    MaxDown = 1
SPECIFICATION Spec
INVARIANTS
    KeysAgree
    ProcessLooksUp
    PeerCountBound
    CountCoversPeers
    UploadSlots
SYMMETRY Symmetry
CHECK_DEADLOCK FALSE
