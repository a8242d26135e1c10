SPECIFICATION Spec
CONSTANTS
    Programs <- MCPrograms
    PathIsText = TRUE
    MaxText = 3
    MaxStack = 2
    MaxItems = 1
    MaxFrames = 2
    MaxUpvalues = 2
PROPERTIES
    StringsKept
CHECK_DEADLOCK FALSE
