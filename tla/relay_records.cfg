SPECIFICATION Spec
CONSTANTS
    NULL = NULL
    Clients = {c1}
    Ids = {7}
    IdsOf <- SharedIds
    Names <- MCNames3
    IPv4 <- MCIPv4
    Zero = "0.0.0.0"
    IPv6 <- MCIPv6
    QuerySeqs <- RecordQuestions
    Zones <- RecordZones
    Config <- ConfigHost
    LastLine = NULL
    TTL = 1
    ConfigTTL = 1
    Period = 2
    MaxLate = 0
    MaxTime = 0
    MaxOwed = 1
    MaxInFlight = 2
    Lossy = FALSE
INVARIANTS
    ServedTruthful
    SpinsOnlyWhereZonesMeet
