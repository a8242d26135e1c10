SPECIFICATION Spec
CONSTANTS
    MaxInstructions = 11
    MaxNesting = 2
INVARIANTS
    TypeOK
    JumpsPatched
    OnlyPairsDropped
    ShortJumpsKept
    IInv
CHECK_DEADLOCK FALSE
