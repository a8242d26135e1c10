SPECIFICATION Spec
CONSTANTS
    MaxInstructions = 10
    MaxNesting = 2
INVARIANTS
    JumpsKept
CHECK_DEADLOCK FALSE
