SPECIFICATION Spec
CONSTANTS
    Languages <- MCLanguages
INVARIANTS
    AssignmentsChain
CHECK_DEADLOCK FALSE
