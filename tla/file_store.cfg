SPECIFICATION FairStoreSpec
CONSTANTS
    r1 = r1
    d1 = d1
    d2 = d2
    q1 = q1
    Requests = {r1}
    Datastores = {d1, d2}
    Downloads = {q1}
    FilesPerRequest = 2
    NumSegments = 2
    Overlapping = FALSE
INVARIANTS
    StoreIInv
    LostOnlyWithContainer
    AckedFilesCleaned
PROPERTIES
    ImplementsDownload
    RequestsEnd
    DownloadsEnd
CHECK_DEADLOCK FALSE
