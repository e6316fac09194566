SPECIFICATION Spec
CHECK_DEADLOCK FALSE
CONSTANTS
    c1 = c1
    c2 = c2
    k1 = k1
    k2 = k2
    v1 = v1
    v2 = v2
    NoVal = NoVal
    Absent = Absent
    Vals = {v1, v2}
    Keys = {k1}
    Callers = {c1}
    Requests <- OneUpdate
    FirstRevision = 9
    MaxCalls = 1
    MaxPolls = 0
    Cached = TRUE
    Finalized = {}
    EnvOps = {}
    MaxEnv = 0
    Faults = {}
    DecodeInPlace = FALSE
INVARIANTS
    UpdateReflected
