SPECIFICATION Spec
CONSTANTS
    Nonces = {c1, c2}
    TerminalHosts = {}
    SourceIds = {s1}
    Windows = {x}
    NoWindow = NoWindow
    NoKey = NoKey
    Absent = Absent
    NoTicket = NoTicket
    KeepLastTerminal = FALSE
    AccessibilityFallback = FALSE
    MaxGeneration = 1
    MaxSequence = 2
    MaxFocus = 3
    EpochModulus = 1
INVARIANTS
    PresentedIsCurrent
PROPERTIES
    ElectionIsUnambiguous
    SelectionMovesWithCause
SYMMETRY Symmetry
