SPECIFICATION FairSpec
CONSTANTS
    Monitors = {m1}
    Nil = Nil
    Specs <- SafetySpecs
    Operators <- OneOperator
    OperatorStatuses <- BadStatuses
    MaxEdits = 3
    MaxFaults = 1
    MaxCrashes = 1
    MaxClock = 2
PROPERTIES
    ReportEventuallyAccurate
CHECK_DEADLOCK FALSE
