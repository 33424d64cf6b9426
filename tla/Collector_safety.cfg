SPECIFICATION Spec
CONSTANTS
    Streams = {s1, s2}
    Admins = {a1}
    Free = Free
    Window = 2
    Cooldown = 2
    Trigger4xx = FALSE
    LocalHooks = TRUE
    InputKinds = {"5xx", "read"}
    MaxEvents = 2
    MaxManual = 1
    MaxTime = 3
    MaxRestarts = 1
SYMMETRY StreamSymmetry
INVARIANTS
    TypeOK
    RecentEventsBuffered
    BufferSpansWindow
    CauseCaptured
    CauseInGraph
    CooldownRespected
    IncidentOwn
    ExportedIsListed
    AnswerNotOlder
PROPERTIES
    LatestNeverRegresses
    ImplementsService
CHECK_DEADLOCK FALSE
