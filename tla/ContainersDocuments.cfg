SPECIFICATION Spec
CONSTANTS
    Programs <- MCPrograms
    Careful = FALSE
INVARIANTS
    AsDocumented
CHECK_DEADLOCK FALSE
