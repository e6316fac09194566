SPECIFICATION FairSpec
CHECK_DEADLOCK FALSE
CONSTANTS
    web = web
    v1 = v1
    v2 = v2
    Names = {web}
    NoName = NoName
    Images = {v1, v2}
    Unset = Unset
    MaxReplicas = 2
    Submissions <- Users
    Graceful = TRUE
    MaxEvents = 3
INVARIANTS
    PodSetTypeOK
    SpecsAreUsable
    ReadyMeansReconciled
    QuiescentMeansSettled
PROPERTIES
    Converges
