SPECIFICATION FairSpec
CONSTANTS
    a = a
    b = b
    Debuggers = {d1, d2}
    Conns = {p1}
    Free = Free
    Keys = {a, b}
    NoKey = NoKey
    Hosts = {h1, h2}
    NoHost = NoHost
    Recordings <- DebugRecordings
    Filters = {h1}
    TimeFreeze = TRUE
    Methods = {"Seek", "RunToEvent", "SetBreakpoint", "UnsetBreakpoint", "ClearBreakpoints", "StepBackward"}
    Indexes = {1}
    MaxAsks = 2
    MaxRequests = 1
INVARIANTS
    RunStopsAtBreakpoint
    ServedFromCursor
PROPERTIES
    ClockNeverGoesBack
    DebuggerAnswered
    RequestServed
CHECK_DEADLOCK FALSE
