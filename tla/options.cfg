SPECIFICATION Spec
CHECK_DEADLOCK FALSE
CONSTANTS
    Args <- Arguments
    MaxArgs = 4
INVARIANTS
    OptionsTypeOK
    AcceptedAsDocumented
    OrderIrrelevant
    BindingsAreOwn
