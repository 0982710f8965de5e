SPECIFICATION Spec
CONSTANTS
    NULL = NULL
    Clients = {c1}
    Ids = {7}
    IdsOf <- SharedIds
    Names <- MCNames
    IPv4 <- MCIPv4
    Zero = "0.0.0.0"
    IPv6 <- MCIPv6
    QuerySeqs <- OneQuestion
    Zones <- ComeAndGoZones
    Config <- ConfigBan
    LastLine = NULL
    TTL = 1
    ConfigTTL = 1
    Period = 2
    MaxLate = 0
    MaxTime = 4
    MaxOwed = 1
    MaxInFlight = 9
    Lossy = FALSE
INVARIANT
    BlockedIsNXDOMAIN
