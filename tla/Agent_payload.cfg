SPECIFICATION Spec
CONSTANTS
    RingSize = 1
    ChanSize = 1
    MaxPayload = 2
    HeaderLen = 1
    DropRatio = 2
    DropWindow = 1
    InputKinds = {"read"}
    InputCounts = {1, 2, 3}
    MaxEvents = 1
    MaxReadErrors = 0
    MaxOutages = 0
    MaxRestarts = 0
INVARIANT
    PayloadKept
CHECK_DEADLOCK FALSE
