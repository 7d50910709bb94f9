SPECIFICATION Spec
CONSTANTS
    Nonces = {w1, c1}
    TerminalHosts = {w1}
    SourceIds = {s1}
    Windows = {x, y}
    NoWindow = NoWindow
    NoKey = NoKey
    Absent = Absent
    NoTicket = NoTicket
    KeepLastTerminal = TRUE
    AccessibilityFallback = FALSE
    MaxGeneration = 1
    MaxSequence = 1
    MaxFocus = 2
    EpochModulus = 1
INVARIANTS
    TypeOK
    SelectionSettled
    SubscriptionFollowsSelection
PROPERTIES
    RetainedSelection
SYMMETRY Symmetry
