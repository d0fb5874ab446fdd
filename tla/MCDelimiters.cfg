SPECIFICATION FairSpec
CONSTANTS
    Tokens <- MCTokens
    Scripts <- MCScripts
    Ignores <- MCIgnores
    argument <- MCArgument
    Blank = " "
    Newline = "nl"
    none = "none"
    MaxLines = 4
INVARIANTS
    SameAsClient
    NothingLost
PROPERTIES
    EveryScriptEnds
CHECK_DEADLOCK FALSE
