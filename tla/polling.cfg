SPECIFICATION Spec
CHECK_DEADLOCK FALSE
CONSTANTS
    k1 = k1
    k2 = k2
    v1 = v1
    v2 = v2
    NoVal = NoVal
    Vals = {v1, v2}
    Keys = {k1, k2}
    FirstRevision = 10
    Cached = TRUE
    Finalized = {}
    EnvOps = {"create", "delete"}
    MaxEnv = 3
    Closures <- TestClosures
    MaxPolls = 2
    Flaky = TRUE
INVARIANTS
    PollingTypeOK
    SavedWithinPoll
    OkMeansSeen
    AbortHasCause
PROPERTIES
    SavedOnlyIfAllMatched
    MissMeansSeen
