SPECIFICATION Spec
CONSTANTS
    Versions <- BoundaryVersions
    Exact = 8
    Numbers <- NumbersUsed
    Names = {"f", "g"}
    Depth = 2
INVARIANTS
    ComparesTexts
    MergesByPath
    MergesOnce
