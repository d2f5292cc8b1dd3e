CONSTANTS
    PieceLength = 3
    MaxAdds = 1
    Layouts <- WholePieceLayouts
SPECIFICATION Spec
INVARIANTS
    MarkersOrdered
    HaveBlockExact
    ReadsBack
    FinishedIsOnDisk
CHECK_DEADLOCK FALSE
