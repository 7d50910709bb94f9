SPECIFICATION Spec
CONSTANTS
    Glyphs <- MCGlyphs
    Wide = {"W"}
    CellHeight = 17
    Cols = 8
    MaxDepth = 3
    MaxNodes = 6
    Cases <- MCCases
INVARIANTS
    CaptureIsPrefix
    RowsAreWhole
    LayoutKeepsApart
    WrapKeepsWords
    FocusIsShown
PROPERTIES
    DrawingSparesOthers
CHECK_DEADLOCK FALSE
