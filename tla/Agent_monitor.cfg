SPECIFICATION FairSpec
CONSTANTS
    RingSize = 1
    ChanSize = 1
    MaxPayload = 2
    HeaderLen = 1
    DropRatio = 2
    DropWindow = 1
    InputKinds = {"read", "sigsegv"}
    InputCounts = {2}
    MaxEvents = 2
    MaxReadErrors = 1
    MaxOutages = 1
    MaxRestarts = 0
INVARIANT
    BypassJustified
PROPERTY
    EventsLeave
CHECK_DEADLOCK FALSE
