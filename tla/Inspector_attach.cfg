SPECIFICATION FairSpec
CONSTANTS
    Scenarios <- MCScenarios
    MaxRecordings = 2
    MaxExchanges = 2
    MaxRestarts = 1
INVARIANTS
    TypeOK
    AttachedMeansHooked
    TappedOnceInOrder
    NothingLostAttached
PROPERTIES
    PanicOnlyWhenStopped
    InterruptEnds
CHECK_DEADLOCK FALSE
