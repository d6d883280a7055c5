CONSTANTS
    Documents <- MCDocuments
    SizeLimits = {0, 5, 6}
SPECIFICATION TracedSpec
INVARIANTS
    SpanTellsTheStream
    YieldsObjectsInOrder
    NoErrorMeansComplete
    WellFormedIsAccepted
PROPERTIES
    NoYieldAfterBreak
CHECK_DEADLOCK FALSE
