CONSTANTS
    PieceLength = 3
    MaxAdds = 1
    Layouts <- SpanningLayouts
SPECIFICATION Spec
INVARIANTS
    ReadsBack
CHECK_DEADLOCK FALSE
