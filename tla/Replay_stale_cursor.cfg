SPECIFICATION Spec
CONSTANTS
    a = a
    b = b
    Debuggers = {d1}
    Conns = {p1, p2}
    Free = Free
    Keys = {a, b}
    NoKey = NoKey
    Hosts = {}
    NoHost = NoHost
    Recordings <- TwoExchanges
    Filters = {NoHost}
    TimeFreeze = FALSE
    Methods = {"Seek"}
    Indexes = {4}
    MaxAsks = 1
    MaxRequests = 2
INVARIANT
    ServedFromCursor
CHECK_DEADLOCK FALSE
