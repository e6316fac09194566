SPECIFICATION FairSpec
CHECK_DEADLOCK FALSE
CONSTANTS
    c1 = c1
    c2 = c2
    k1 = k1
    k2 = k2
    v1 = v1
    v2 = v2
    NoVal = NoVal
    Absent = Absent
    Vals = {v1, v2}
    Keys = {k1, k2}
    Callers = {c1, c2}
    Requests <- SharedRequests
    FirstRevision = 10
    MaxCalls = 1
    MaxPolls = 1
    Cached = FALSE
    Finalized = {k1}
    EnvOps = {"create", "delete"}
    MaxEnv = 1
    Faults = {"refused", "lost", "unavailable"}
    DecodeInPlace = TRUE
INVARIANTS
    TypeOK
    WrittenIsPrefix
PROPERTIES
    CallReturns
