CONSTANTS
    terminal = terminal
    conhost = conhost
    user = user
    Procs = {terminal, conhost}
    Conns = {c1, c2}
    Ctls = {user}
    Hook = hook
    NoOne = NoOne
    User <- MCUser
    BrokerUser = "me"
    Integrity <- MCIntegrity
    BrokerIntegrity = 2
    MaxDrops = 1
    MaxEvents = 1
    MaxRequests = 2
    MaxStarts = 1
SPECIFICATION Spec
INVARIANT PauseStopsSubscriptions
SYMMETRY Pipes
CHECK_DEADLOCK FALSE
