SPECIFICATION Spec
CONSTANTS
    NULL = NULL
    Clients = {c1}
    Ids = {7}
    IdsOf <- SharedIds
    Names <- MCNames
    IPv4 <- MCIPv4
    Zero = "0.0.0.0"
    IPv6 <- MCIPv6
    QuerySeqs <- HostQuestions
    Zones <- HostZones
    Config <- ConfigBan
    LastLine = "host"
    TTL = 1
    ConfigTTL = 1
    Period = 2
    MaxLate = 1
    MaxTime = 5
    MaxOwed = 1
    MaxInFlight = 3
    Lossy = TRUE
INVARIANTS
    TypeOK
    BoundedStaleness
    PinnedIsBlocked
PROPERTY
    PinnedForever
