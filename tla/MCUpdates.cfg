CONSTANTS
    Hash = {h1, h2}
    MaxMessages = 3
    MaxAdds = 2
    MaxCommands = 2
SPECIFICATION Spec
PROPERTIES
    ShowsWhatWasSent
    IndexMapFindsRows
    CatchesUp
CHECK_DEADLOCK FALSE
