CONSTANTS
    a = a
    b = b
    N = 2
    Busy = {1}
    First = {a}
    Images = {a, b}
    Bytes <- MCBytes
    Cap = 2
    MaxEvents = 2
SPECIFICATION FairSpec
INVARIANTS
    StoreAccounts
    EvictionSparesDisplay
PROPERTIES
    RefusalHasCause
    LastScreenIsShown
CHECK_DEADLOCK FALSE
