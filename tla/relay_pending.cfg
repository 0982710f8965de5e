SPECIFICATION Spec
CONSTANTS
    NULL = NULL
    Clients = {c1, c2}
    Ids = {7}
    IdsOf <- SharedIds
    Names <- MCNames
    IPv4 <- MCIPv4
    Zero = "0.0.0.0"
    IPv6 <- MCIPv6
    QuerySeqs <- AliasQuestions
    Zones <- AliasZones
    Config <- NoConfig
    LastLine = NULL
    TTL = 1
    ConfigTTL = 1
    Period = 2
    MaxLate = 0
    MaxTime = 0
    MaxOwed = 2
    MaxInFlight = 3
    Lossy = TRUE
SYMMETRY Alike
INVARIANTS
    NoUnsolicitedReply
    WaitingIsOwed
