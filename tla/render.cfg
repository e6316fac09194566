SPECIFICATION Spec
CHECK_DEADLOCK FALSE
CONSTANTS
    Bodies <- AllBodies
    Indents <- AllIndents
    Calls <- RenderCalls
INVARIANTS
    TemplatesTypeOK
    IndentIrrelevant
    FieldsKept
    OutputReadsBack
    ObjectsComeWhole
