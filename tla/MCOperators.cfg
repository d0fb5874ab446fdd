SPECIFICATION Spec
CONSTANTS
    Trees <- WellFormatted
INVARIANTS
    ValueKept
    Flat
    RoundTrip
CHECK_DEADLOCK FALSE
