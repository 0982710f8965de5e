SPECIFICATION FairSpec
CONSTANTS
    NULL = NULL
    Clients = {1, 2}
    Ids = {1, 2}
    IdsOf <- OwnIds
    Names <- MCNames
    IPv4 <- MCIPv4
    Zero = "0.0.0.0"
    IPv6 <- MCIPv6
    QuerySeqs <- OneQuestion
    Zones <- ComeAndGoZones
    Config <- NoConfig
    LastLine = NULL
    TTL = 1
    ConfigTTL = 1
    Period = 2
    MaxLate = 0
    MaxTime = 3
    MaxOwed = 2
    MaxInFlight = 9
    Lossy = FALSE
INVARIANT
    NoOrphanedClient
PROPERTIES
    WaitingClientKept
    ImplementsService
    EventuallyAnswered
