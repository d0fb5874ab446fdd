SPECIFICATION Spec
CONSTANTS
    Statements <- WellFormatted
    Numbers <- MCNumbers
    Texts <- MCTexts
    Zero = "0"
    Empty = "''"
    rank <- MCRank
INVARIANTS
    MeaningKept
    TextKept
    RoundTrip
CHECK_DEADLOCK FALSE
