CONSTANTS
    MaxDigits <- MC_MaxDigits
    OverflowChecks = TRUE
    Binary <- MC_Binary
    KeyOrder <- MC_KeyOrder
    Files <- MC_Files
    Malformed = {"bad url"}
    AddrBytes <- MC_AddrBytes
    PortBytes <- MC_PortBytes
    MaxTrackers = 2
    Own = 3
    Bodies <- MC_Bodies
SPECIFICATION Spec
INVARIANTS
    HashIsOfFile
    WrittenIsTheTorrent
    DateIsTheFiles
    ConnectsToOneAnswer
    AnnounceFindsPeers
PROPERTIES
    AnnounceEnds
