SPECIFICATION Spec
CONSTANTS
    Cases <- PassCases
    none = "none"
INVARIANTS
    NullsReplaced
    NothingLost
CHECK_DEADLOCK FALSE
