SPECIFICATION Spec
CONSTANTS
    r1 = r1
    r2 = r2
    d1 = d1
    d2 = d2
    Requests = {r1, r2}
    Datastores = {d1, d2}
    FilesPerRequest = 1
    NumSegments = 2
SYMMETRY Symmetry
INVARIANTS
    IInv
    AckedFilesReadable
    DescribedChunksIntact
    OneChunkPerSegment
PROPERTIES
    AckedFilesFinal
    ImplementsObjectStore
CHECK_DEADLOCK FALSE
