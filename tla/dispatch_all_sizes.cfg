SPECIFICATION Spec
CONSTANTS
    NumSegments <- DeployedSegments
    MaxSize <- TwiceTheSegments
INVARIANTS
    IInv
    AllSentEvenly
    SegmentsArePrefix
PROPERTY
    YieldsInOrder
CHECK_DEADLOCK FALSE
