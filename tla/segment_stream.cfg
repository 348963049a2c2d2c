SPECIFICATION Spec
CONSTANTS
    PieceSize = 4
    MessageLimit = 4
    RetrieveSize = 1
    MaxLength = 9
INVARIANTS
    IInv
    RegisteredIsSegment
    RegisteredSizeIsLength
    StoredFits
    FetchedInPlace
CHECK_DEADLOCK FALSE
