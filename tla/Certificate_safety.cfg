SPECIFICATION Spec
CONSTANTS
    Monitors = {m1}
    Nil = Nil
    Specs <- AllSpecs
    Namespaces <- MCNamespaces
    LabelSets = {"watched"}
    Secrets <- TwoSecrets
    NsOf <- MCNsOf
    NameOf <- OwnName
    TLSSecrets <- TwoSecrets
    NotAfters = {2, 5}
    DayLength = 2
    MaxEdits = 2
    MaxFaults = 1
    MaxCrashes = 1
    MaxClock = 1
INVARIANTS
    ActiveIsScheduled
    StatusAddsUp
    CriticalIsNotPlayedDown
PROPERTIES
    ImplementsContract
    FirstAlarmIsAnnounced
VIEW WithoutBroadcast
CHECK_DEADLOCK FALSE
