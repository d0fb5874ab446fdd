SPECIFICATION Spec
CONSTANTS
    Queries <- LostGroup
    table <- MCTable
INVARIANTS
    RoundTrip
CHECK_DEADLOCK FALSE
