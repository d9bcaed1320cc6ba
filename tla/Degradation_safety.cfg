SPECIFICATION Spec
CONSTANTS
    Monitors = {m1}
    Nil = Nil
    Specs <- SafetySpecs
    Operators <- TwoOperators
    OperatorStatuses <- TroubleStatuses
    MaxEdits = 3
    MaxFaults = 2
    MaxCrashes = 0
    MaxClock = 1
INVARIANTS
    TypeOK
    ActiveIsScheduled
    VerdictFitsSpec
    SettledReportIsAccurate
PROPERTIES
    ImplementsContract
    TroubleIsAnnounced
CHECK_DEADLOCK FALSE
