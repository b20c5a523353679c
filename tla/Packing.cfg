SPECIFICATION Spec
CONSTANTS
    Streams = {"s", "t"}
    Control = {"newConnID"}
    MaxRoom = 2
    MaxBlocked = 1
    MaxCancels = 1
    MaxLost = 1
    MaxPathResponses = 1
    MaxBytes = 4
    MaxPayload = 2
    MaxRequeued = 2
    MaxPings = 1
    Adders = {"a", "b", "e"}
    Receivers = {"r"}
    Limits = {0, 1, 2}
    MaxDatagramSendQueueLen = 1
    MaxDatagramRcvQueueLen = 2
    MaxArrivals = 3
    LongHeader = 31
    ShortHeader = 9
    Overhead = 16
    AckLength = 30
    MinCoalescedPacketSize = 128
    MinInitialPacketSize = 1200
    MaxNonAckElicitingAcks = 1
    MaxSizes = {1200, 1252}
    PnLens = {1, 2}
    Contents = {0, 1, 500, 3000}
    ProbeSizes = {1300}
    KeySets <- Sealers
    Layouts <- SpecLayouts
    Window2 = 8
    Window3 = 16
    Window4 = 32
    MaxPN = 28
    MaxAcked = 9
    MaxAckFrameSize = 10
    ShortVarint = 3
INVARIANTS  CryptoConserved DatagramsServed DatagramWellFormed DecodesAsSent
CHECK_DEADLOCK FALSE
