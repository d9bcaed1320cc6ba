SPECIFICATION Spec
CONSTANTS
    Monitors = {m1}
    Nil = Nil
    Specs <- CRDModeSpecs
    Refs <- OneRef
    KindOf <- OneKindOf
    Contents <- MCContents
    NormRules <- MCNormRules
    NilLists <- NoNilLists
    AnnKeys <- MCAnnKeys
    PrefixedBy <- NoPrefixes
    MaxEdits = 3
    MaxFaults = 0
    MaxCrashes = 0
    MaxClock = 1
INVARIANTS
    SnapshotModeIsHonoured
CHECK_DEADLOCK FALSE
