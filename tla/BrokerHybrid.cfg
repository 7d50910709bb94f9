SPECIFICATION Spec
CONSTANTS
    Nonces = {w1}
    TerminalHosts = {w1}
    SourceIds = {s1}
    Windows = {x, y}
    NoWindow = NoWindow
    NoKey = NoKey
    Absent = Absent
    NoTicket = NoTicket
    KeepLastTerminal = TRUE
    AccessibilityFallback = TRUE
    MaxGeneration = 2
    MaxSequence = 2
    MaxFocus = 2
    EpochModulus = 3
INVARIANTS
    PendingFullIsDue
    ForegroundTerminalIsRestored
PROPERTIES
    CaptureBelongsToForeground
    ViewersPromise
SYMMETRY Symmetry
