SPECIFICATION Spec
CONSTANTS
    Messages <- MCMessages
    CachedRRs <- MCCachedRRs
    BufferSize = 330
INVARIANTS
    ReadsWhatWasSaid
    WritesWhatIsMeant
    SentIsUnderstood
    OverrunsOnlyIfTooLong
