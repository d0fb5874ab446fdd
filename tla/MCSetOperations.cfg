SPECIFICATION Spec
CONSTANTS
    Queries <- WellFormatted
    table <- MCTable
INVARIANTS
    MeaningKept
    SameRows
    RoundTrip
CHECK_DEADLOCK FALSE
