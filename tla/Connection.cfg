SPECIFICATION Spec
CONSTANTS
    MaxInFlight = 2
    MaxUndecryptable = 1
    Client = TRUE
    Capacity = 1
    MaxReceived = 2
    MaxData = 2
    Window = 2
    Burst = 2
    MaxAfterClose = 3
    Closers = {c1}
INVARIANTS HandshakeSound CloseIsReadable NeverStuck  ClosedCleanly
CHECK_DEADLOCK FALSE
