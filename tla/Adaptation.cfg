SPECIFICATION AdaptationSpec
CHECK_DEADLOCK FALSE
CONSTANTS
    Focus = {"mtu", "paths", "sender", "pacer", "tokens", "server", "pair"}
    Start = 1280
    Max = 1452
    PathMTUs = {1280, 1281, 1300, 1365, 1366, 1400, 1451, 1452}
    MaxMTUDiff = 20
    MaxLostMTUProbes = 3
    MaxResets = 1
    Addrs = {home, wifi, cell}
    Home = home
    MaxPaths = 2
    MaxPathIDs = 4
    Spaces = {app}
    AppData = app
    DatagramSizes <- Sizes
    InitialWindow = 3
    MinWindow = 2
    MaxWindow = 5
    MaxBurst = 1
    LowWindow = 3
    MinSamples = 2
    RTTs = {10, 20}
    MaxPackets = 5
    InitialDatagramSize = 6
    ConfigSize = 6
    DiscoveredSize = 7
    MaxBurstPackets = 2
    Second = 8
    MinPacingDelay = 1
    TimerGranularity = 1
    Windows = {12, 19}
    Samples = {5, 8, 13}
    AckDelays = {0, 3}
    PacketSizes = {2, 6}
    MaxTime = 4
    Origins = {o1, o2, o3}
    MaxOrigins = 2
    TokensPerOrigin = 2
    MaxTokens = 6
    Client = FALSE
    Paths = {p1, p2}
    Duplicates = FALSE
    MaxSeq = 5
    MaxActive = 4
    ConnIDLimit = 4
    MaxIssued = 6
INVARIANTS
    MTUFound
    PathsSound
    
    TokensExact
    ConnIDsSound
    ConnIDsAgree
