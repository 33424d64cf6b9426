SPECIFICATION Spec
CONSTANTS
    Recorders <- MCRecorders
    Askers = {}
    MaxExchanges = 1
    Workloads <- MCOneRecorder
INVARIANT
    SavedOnExit
CHECK_DEADLOCK FALSE
