SPECIFICATION Spec
CONSTANTS
    Ids = {"a", "b"}
    Tokens = {"none", "badRetry"}
    MaxPackets <- PacketBounds
    MaxTime = 2
    ReceiveQueue = 1
    ReplyQueue = 1
    AcceptQueue = 1
    Max0RTTQueues = 2
    Max0RTTQueueLen = 1
    Max0RTTQueueingDuration = 1
INVARIANTS ServerSound 
CHECK_DEADLOCK FALSE
