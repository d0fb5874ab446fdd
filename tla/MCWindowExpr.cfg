SPECIFICATION Spec
CONSTANTS
    Exprs <- MCExprs
    Frames <- ExprFrames
    MaxLimit = 4
INVARIANTS
    FollowingIsAhead
CHECK_DEADLOCK FALSE
