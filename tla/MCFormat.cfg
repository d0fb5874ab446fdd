SPECIFICATION Spec
CONSTANTS
    Threads = {t1}
    Formatters = {f1}
    Flavours <- MCFlavours
    Keys <- MCKeys
    Callbacks <- MCCallbacks
    Fmaps <- MCFmaps
    Nulls <- MCNulls
    Raising <- MCRaising
    Reentrant <- MCReentrant
    Requests <- FormatRequests
    simple_op = "simple_op"
    no_fmap = "{}"
    None = None
    Free = Free
    SqlNull = SqlNull
    MaxCalls = 1
    MaxFailures = 0
INVARIANTS
    OnlyOneParsing
CHECK_DEADLOCK FALSE
