CONSTANTS
    MaxPackets = 5
    MaxAcks = 2
    MaxNumAckRanges = 2
    PacketsBeforeAck = 2
    MaxMarked = 4
    NumTesting = 2
    MaxSealed = 6
    KeyUpdateInterval = 1
    MaxNumbers = 4
    MaxReceived = 2
    MaxProbes = 2
    PacketThreshold = 2
    Amplification = 3
    MaxTracked = 6
    MaxOutstanding = 4
SPECIFICATION PacketsSpec
INVARIANTS
    HistoryExact
    AlarmArmed
    AcksSound
    ValidationSound
    KeysInStep
PROPERTIES
    TimeoutActs
CHECK_DEADLOCK FALSE
