SPECIFICATION FairSpec
CONSTANTS
    Cells = {c1, c2}
    MaxChanges = 1
INVARIANTS
    TypeOK
    OneOwner
    NoBatchLost
    NoFreedBatch
    LossIsRemembered
    BrokenFrameIsRepaired
PROPERTY
    DormantIsReclaimed
CHECK_DEADLOCK FALSE
