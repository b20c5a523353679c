SPECIFICATION CreditSpec
CONSTANTS
    Callers = {c1, c2, c3}
    Cancellable = {c1}
    MaxLimit = 3
    MaxWaits = 3
    MaxNumStreams = 1
    Streams = {s1, s2}
    Cancels = {s1}
    StreamWindow = 1
    MaxStreamWindow = 2
    ConnWindow = 1
    MaxConnWindow = 2
    MaxData = 2
INVARIANTS LimitsAgree CreditConserved FlowSettles
PROPERTIES ServedInOrder WaitersServed
CHECK_DEADLOCK FALSE
