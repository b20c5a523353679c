SPECIFICATION Spec
CONSTANTS
    Listened = {l}
    Direct = {d}
    MaxRequests = 1
    Deadline = TRUE
    Requests = {a, b, o}
    OnlyCached = {o}
    MaxEntries = 2
    MaxIdleCalls = 1
    Max1xx = 1
    RequestStreams = {t, u}
    StreamDatagramQueueLen = 1
    MaxDatagrams = 2
    MaxUniStreams = 2
    WriteSizes = {1, 2}
    Lengths = {2}
    MaxSmallResponseSize = 3
    MaxCalls = 5
INVARIANTS
    
    
    
    ConnTracked
    
CHECK_DEADLOCK FALSE
