SPECIFICATION Spec
CONSTANTS
    Monitors = {m1}
    Nil = Nil
    Specs <- CriticalUnexpected
    Refs <- OneRef
    KindOf <- OneKindOf
    Contents <- MCContents
    NormRules <- MCNormRules
    NilLists <- NoNilLists
    AnnKeys <- IgnoreKey
    PrefixedBy <- NoPrefixes
    MaxEdits = 3
    MaxFaults = 0
    MaxCrashes = 0
    MaxClock = 1
PROPERTIES
    UnexpectedDriftIsAnnounced
CHECK_DEADLOCK FALSE
