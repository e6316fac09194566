SPECIFICATION Spec
CHECK_DEADLOCK FALSE
CONSTANTS
    web = web
    v1 = v1
    v2 = v2
    Names = {web}
    NoName = NoName
    Images = {v1, v2}
    Unset = Unset
    MaxReplicas = 1
    Submissions <- OneUpdate
    Graceful = FALSE
    MaxEvents = 2
INVARIANT
    PodsStayOwned
