CONSTANTS
    terminal = terminal
    conhost = conhost
    user = user
    Procs = {terminal, conhost}
    Conns = {c1, c2}
    Ctls = {user}
    Hook = hook
    NoOne = NoOne
    User <- MCUser
    BrokerUser = "me"
    Integrity <- MCIntegrity
    BrokerIntegrity = 2
    MaxDrops = 1
    MaxEvents = 1
    MaxRequests = 2
    MaxStarts = 2
SPECIFICATION Spec
INVARIANTS
    RoutesAreExclusive
    DeadAdapterIsForgotten
    EnginesFollowSelection
    PauseIsKept
CONSTRAINT InOrder
SYMMETRY Pipes
CHECK_DEADLOCK FALSE
