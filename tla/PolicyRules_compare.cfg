SPECIFICATION FairSpec
CONSTANTS
    Strings <- ThreeStrings
    Fields = {"Verbs"}
    MaxRules = 2
    Slices <- MCSlices
    NilSlice = NilSlice
INVARIANTS
    OnlyReordered
    AnswerIsRight
PROPERTIES
    EventuallyCompared
CHECK_DEADLOCK FALSE
