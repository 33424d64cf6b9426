SPECIFICATION Spec
CONSTANTS
    RingSize = 1
    ChanSize = 2
    MaxPayload = 2
    HeaderLen = 1
    DropRatio = 2
    DropWindow = 1
    InputKinds = {"write", "exit"}
    InputCounts = {2}
    MaxEvents = 3
    MaxReadErrors = 0
    MaxOutages = 2
    MaxRestarts = 1
INVARIANTS
    TypeOK
    AtMostOnce
    StreamInOrder
    NothingElseLost
    PayloadBounded
CHECK_DEADLOCK FALSE
