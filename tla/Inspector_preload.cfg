SPECIFICATION Spec
CONSTANTS
    Scenarios <- MCScenarios
    MaxRecordings = 1
    MaxExchanges = 1
    MaxRestarts = 1
INVARIANT
    RecordedOnce
CHECK_DEADLOCK FALSE
