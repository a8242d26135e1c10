SPECIFICATION MirroredSpec
CONSTANTS
    Values <- MCValues
    Null = 0
    Function = 1
    StackSize = 3
    MaxFrames = 3
    MaxArity = 1
    MaxScopeLocals = 2
    MaxBlocks = 2
    MaxCells = 2
    MaxClosures = 2
    MaxUpvalues = 2
INVARIANTS
    TypeOK
    IInv
    OpenSorted
    OpenListed
    SlotsAgree
    NoDangling
    ClosuresSeeVariables
    CellInv
PROPERTIES
    ImplementsCells
CHECK_DEADLOCK FALSE
