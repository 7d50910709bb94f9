CONSTANTS
    editor = editor
    vault = vault
    service = service
    terminal = terminal
    Windows = {editor, vault, service, terminal}
    NoWindow = NoWindow
    Terminals = {terminal}
    Name <- MCName
    Executable <- MCExecutable
    Unknown = Unknown
    Normal <- MCNormal
    BuiltinDenied = {"discord"}
    DenyApps = {"KeePass.exe"}
    Matching = {editor, vault, terminal}
    Places = {1, 2}
    First = {editor}
    Modes = {"hybrid", "foreground", "selected"}
    MaxChanges = 2
    MaxEvents = 3
SPECIFICATION FairSpec
INVARIANTS
    OnlyAllowedIsShown
    CoherentFrame
    HoldIsForTheDenied
PROPERTIES
    ForegroundIsFollowed
    RestingWindowIsShown
CHECK_DEADLOCK FALSE
