SPECIFICATION FairSpec
CONSTANTS
    Monitors = {m1}
    Nil = Nil
    Specs <- WakeupSpecs
    Namespaces <- OneNamespace
    LabelSets = {"watched", "other"}
    Secrets <- OneSecret
    NsOf <- OneNsOf
    NameOf <- OneName
    TLSSecrets <- OneSecret
    NotAfters = {3, 7}
    DayLength = 2
    MaxEdits = 2
    MaxFaults = 1
    MaxCrashes = 1
    MaxClock = 2
INVARIANTS
    TypeOK
PROPERTIES
    ReportEventuallyAccurate
CHECK_DEADLOCK FALSE
