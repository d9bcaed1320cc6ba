SPECIFICATION Spec
CONSTANTS
    Monitors = {m1}
    Nil = Nil
    Specs <- SnapshotSpecs
    Refs <- OneRef
    KindOf <- OneKindOf
    Contents <- OrNone
    NormRules <- OrNoneNorm
    NilLists <- NilNone
    AnnKeys <- MCAnnKeys
    PrefixedBy <- NoPrefixes
    MaxEdits = 3
    MaxFaults = 2
    MaxCrashes = 1
    MaxClock = 1
INVARIANTS
    MissingSnapshotIsRetried
    SnapshotIsThereForTheCheck
PROPERTIES
    ImplementsContract
    SnapshotTakenOnce
VIEW WithoutBroadcast
CHECK_DEADLOCK FALSE
