SPECIFICATION Spec
CONSTANTS
    Requests = {r1, r2}
    BatchSize = 1
    RecvLimit = 2
    PendingRounds = 1
    Period = 1
    MaxLate = 1
    ArgVectors <- MCArgVectors
INVARIANTS
    TypeOK
    NeverStuck
    ConfigIsAsSaid
PROPERTIES
    ImplementsOutbox
    SendsComplete
    ClearsRecur
    InterruptEnds
