SPECIFICATION Spec
CONSTANTS
    Threads = {t1, t2}
    Formatters = {f1}
    Flavours <- MCFlavours
    Keys <- MCKeys
    Callbacks <- MCCallbacks
    Fmaps <- MCFmaps
    Nulls <- MCNulls
    Raising <- MCRaising
    Reentrant <- MCReentrant
    Requests <- SessionRequests
    simple_op = "simple_op"
    no_fmap = "{}"
    None = None
    Free = Free
    SqlNull = SqlNull
    MaxCalls = 2
    MaxFailures = 1
INVARIANTS
    TypeOK
    LockDiscipline
    ImportedBeforeUse
    OwnOptions
    SentinelConfined
    RenderedSoFar
PROPERTIES
    AnswersAreFinal
    ServiceSpec
    ReentryHangs
CHECK_DEADLOCK FALSE
