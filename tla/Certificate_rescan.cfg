SPECIFICATION FairSpec
CONSTANTS
    Monitors = {m1}
    Nil = Nil
    Specs <- PlainSpec
    Namespaces <- MCNamespaces
    LabelSets = {"watched"}
    Secrets <- TwoSecrets
    NsOf <- SameNs
    NameOf <- OwnName
    TLSSecrets <- TwoSecrets
    NotAfters = {3}
    DayLength = 2
    MaxEdits = 1
    MaxFaults = 0
    MaxCrashes = 0
    MaxClock = 1
PROPERTIES
    RepeatedScanWritesNothing
CHECK_DEADLOCK FALSE
