SPECIFICATION StreamsSpec
CONSTANTS
    Acceptors = {a1}
    MaxNumStreams = 3
    MaxStreamCount = 6
    MaxData = 3
    MaxBuffer = 1
    MaxFrame = 2
    Window = 1
    MaxLost = 1
    Deadlines = TRUE
    MaxByteCount = 6
    MaxGaps = 3
    MinBuffer = 2
    Size = 5
    MaxFrames = 3
    ReadSizes = {0, 2}
INVARIANTS LimitExact SendExact SendSettles ReceiveExact
PROPERTIES ImplementsCredit 

CHECK_DEADLOCK FALSE
