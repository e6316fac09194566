SPECIFICATION Spec
CHECK_DEADLOCK FALSE
CONSTANTS
    c1 = c1
    c2 = c2
    k1 = k1
    k2 = k2
    v1 = v1
    v2 = v2
    NoVal = NoVal
    Absent = Absent
    Vals = {v1, v2}
    Keys = {k1, k2}
    Callers = {c1}
    Requests <- WaitRequests
    FirstRevision = 10
    MaxCalls = 2
    MaxPolls = 1
    Cached = TRUE
    Finalized = {k1}
    EnvOps = {"create", "update", "delete", "finalize"}
    MaxEnv = 2
    Faults = {}
    DecodeInPlace = FALSE
INVARIANTS
    IInv
    UpdateReflected
    CreateReflectedIfSynced
    DeleteReflectedIfSynced
    SavedIsFresh
PROPERTIES
    InsufficientMeansStale
    SaveIsLast
    NoLostUpdate
