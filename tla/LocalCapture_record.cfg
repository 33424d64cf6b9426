SPECIFICATION FairSpec
CONSTANTS
    Recorders <- MCRecorders
    Askers <- MCAskers
    MaxExchanges = 2
    Workloads <- MCWorkloads
INVARIANTS
    TypeOK
    ReportedCovers
    ExchangeOrdered
PROPERTIES
    InterruptedExits
    SnapshotCommandEnds
CHECK_DEADLOCK FALSE
