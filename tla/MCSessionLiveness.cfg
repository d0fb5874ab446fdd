SPECIFICATION FairSpec
CONSTANTS
    Threads = {t1, t2}
    Formatters = {}
    Flavours <- MCFlavours
    Keys <- MCKeys
    Callbacks <- MCCallbacks
    Fmaps <- MCFmaps
    Nulls <- MCNulls
    Raising <- MCRaising
    Reentrant <- MCReentrant
    Requests <- PlainRequests
    simple_op = "simple_op"
    no_fmap = "{}"
    None = None
    Free = Free
    SqlNull = SqlNull
    MaxCalls = 1
    MaxFailures = 1
PROPERTIES
    HolderLeaves
    EveryCallAnswered
CHECK_DEADLOCK FALSE
