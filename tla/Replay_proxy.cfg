SPECIFICATION Spec
CONSTANTS
    a = a
    b = b
    Debuggers = {d1}
    Conns = {p1, p2}
    Free = Free
    Keys = {a, b}
    NoKey = NoKey
    Hosts = {}
    NoHost = NoHost
    Recordings <- ProxyRecordings
    Filters = {NoHost}
    TimeFreeze = FALSE
    Methods = {"Seek"}
    Indexes = {0, 2, 7}
    MaxAsks = 1
    MaxRequests = 3
SYMMETRY ConnSymmetry
INVARIANTS
    TypeOK
    ServedOnce
    InOrderFaithful
CHECK_DEADLOCK FALSE
