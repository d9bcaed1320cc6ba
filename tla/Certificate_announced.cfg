SPECIFICATION Spec
CONSTANTS
    Monitors = {m1}
    Nil = Nil
    Specs <- PlainSpec
    Namespaces <- MCNamespaces
    LabelSets = {"watched"}
    Secrets <- TwoSecrets
    NsOf <- MCNsOf
    NameOf <- SameName
    TLSSecrets <- TwoSecrets
    NotAfters = {3, 5}
    DayLength = 2
    MaxEdits = 2
    MaxFaults = 0
    MaxCrashes = 0
    MaxClock = 2
INVARIANTS
    ListedIsAnnounced
CHECK_DEADLOCK FALSE
