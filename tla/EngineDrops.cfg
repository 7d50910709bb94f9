SPECIFICATION FairSpec
CONSTANTS
    Cells = {c1}
    MaxChanges = 1
PROPERTY
    DropIsReconciled
CHECK_DEADLOCK FALSE
