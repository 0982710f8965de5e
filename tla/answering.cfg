SPECIFICATION SpecAnswering
CONSTANTS
    NULL = NULL
    Clients = {c1}
    Ids = {7}
    IdsOf <- SharedIds
    Names <- MCNames3
    IPv4 <- MCIPv4
    Zero = "0.0.0.0"
    IPv6 <- MCIPv6
    QuerySeqs <- StepQuestions
    Zones <- StepZones
    Config <- ConfigHost
    LastLine = NULL
    TTL = 0
    ConfigTTL = 0
    Period = 1
    MaxLate = 0
    MaxTime = 1
    MaxOwed = 1
    MaxInFlight = 1
    Lossy = TRUE
INVARIANT
    AnswersFit
PROPERTY
    ImplementsRelay
