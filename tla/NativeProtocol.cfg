CONSTANTS
    EnvelopeLen = 2
    MaxPayload = 5
    ReadSize = 4
    Cols = 3
    Clusters <- MCClusters
    Link <- MCLink
    MaxStyles = 2
    BrokenPackets <- MCBrokenPackets
    MaxPackets = 3
    MaxPaints = 2
SPECIFICATION Spec
CONSTRAINT BrokenOrPainted
INVARIANTS
    PacketsArrive
    RefusalIsDeserved
    MatrixArrives
CHECK_DEADLOCK FALSE
