SPECIFICATION FairSpec
CONSTANTS
    Monitors = {m1}
    Nil = Nil
    Specs <- LiveSpecs
    Refs <- OneRef
    KindOf <- OneKindOf
    Contents <- TwoContents
    NormRules <- TwoNormRules
    NilLists <- NoNilLists
    AnnKeys <- MCAnnKeys
    PrefixedBy <- NoPrefixes
    MaxEdits = 2
    MaxFaults = 1
    MaxCrashes = 1
    MaxClock = 2
INVARIANTS
    TypeOK
PROPERTIES
    ReportEventuallyAccurate
    SuspensionEventuallyAcknowledged
    StatusSettles
    DriftEventuallyAnnounced
    UnexpectedEventuallyAnnounced
CHECK_DEADLOCK FALSE
