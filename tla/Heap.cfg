SPECIFICATION Spec
CONSTANTS
    Programs <- MCPrograms
    PathIsText = FALSE
    MaxText = 2
    MaxStack = 2
    MaxItems = 1
    MaxFrames = 2
    MaxUpvalues = 2
INVARIANTS
    TypeOK
    StringsUnique
    MarkingExact
    NoneLost
PROPERTIES
    CollectionEnds
VIEW View
CHECK_DEADLOCK FALSE
