SPECIFICATION Spec
CONSTANTS
    NumDocs = 3
    MaxErrors = 2
    Invalid = Invalid
    Unusable = Unusable
    Unrendered = Unrendered
    MaxMatches = 3
INVARIANTS
    MatcherTypeOK
    MatchesAnyDocument
    DetailsAreCurrent
    BestIsClosest
CHECK_DEADLOCK FALSE
