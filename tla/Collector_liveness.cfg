SPECIFICATION FairSpec
CONSTANTS
    Streams = {s1, s2}
    Admins = {a1}
    Free = Free
    Window = 1
    Cooldown = 1
    Trigger4xx = TRUE
    LocalHooks = FALSE
    InputKinds = {"5xx", "4xx"}
    MaxEvents = 2
    MaxManual = 1
    MaxTime = 0
    MaxRestarts = 0
PROPERTIES
    EventsProcessed
    TriggersAnswered
CHECK_DEADLOCK FALSE
