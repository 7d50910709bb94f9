SPECIFICATION Spec
CONSTANTS
    Cells = {c1}
    MaxChanges = 2
INVARIANT
    ReleaseFindsASlot
CHECK_DEADLOCK FALSE
