SPECIFICATION Spec
CONSTANTS
    Cases <- FmapCases
    none = "none"
INVARIANTS
    NullsReplaced
CHECK_DEADLOCK FALSE
