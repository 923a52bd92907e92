SPECIFICATION Spec
CONSTANTS
    home = home
    guest = guest
    proxy = proxy
    c1 = c1
    badHost = badHost
    goodHost = goodHost
    None = None
    Junk = Junk
    BitXor <- XorBits
    Words <- WordsHere
    Keys <- KeysHere
    Cap <- CapHere
    Cost <- CostHere
    TTL <- TTLHere
    MaxTime = 3
    Addresses <- AddressesHere
    Conns = {c1}
    Ways <- WaysHere
    TrustedProxies <- ProxiesHere
    Forms <- FormsHere
    AllowedServerHosts <- HostsHere
    Origins = {"", "loopback", "foreign"}
    CORSOrigins = {}
    LoopbackOrigins = {"loopback"}
    AllowLoopbackOrigins = TRUE
    Sources <- SourcesHere
    MaxRequests = 2
    Packets <- PacketsHere
INVARIANTS
    DoorTypeOK
    SpentBounded
    ResponsiblePays
    RowsBounded
    OnlyFloodsAreCut
    
    StunTruthful
PROPERTY ImplementsBuckets
