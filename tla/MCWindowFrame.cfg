SPECIFICATION Spec
CONSTANTS
    Exprs <- MCExprs
    Frames <- RowFrames
    MaxLimit = 4
INVARIANTS
    LimitsKept
    FrameMeaning
    RoundTrip
    NoTypeError
CHECK_DEADLOCK FALSE
