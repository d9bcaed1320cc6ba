SPECIFICATION Spec
CONSTANTS
    Monitors = {m1}
    Nil = Nil
    Specs <- SafetySpecs
    Refs <- MCRefs
    KindOf <- MCKindOf
    Contents <- MCContents
    NormRules <- MCNormRules
    NilLists <- NoNilLists
    AnnKeys <- MCAnnKeys
    PrefixedBy <- NoPrefixes
    MaxEdits = 3
    MaxFaults = 1
    MaxCrashes = 1
    MaxClock = 1
INVARIANTS
    ActiveIsScheduled
    SettledReportIsAccurate
    CurrentReportSpeaksOfBaseline
    DriftConditionMatchesItems
    ReportedDriftIsAnnounced
PROPERTIES
    ImplementsContract
    SuspendedIsLeftAlone
VIEW WithoutBroadcast
CHECK_DEADLOCK FALSE
