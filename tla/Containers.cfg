SPECIFICATION Spec
CONSTANTS
    Programs <- MCPrograms
    Careful = TRUE
INVARIANTS
    TypeOK
    CharactersWhole
PROPERTIES
    ImplementsContainerSpec
VIEW View
CHECK_DEADLOCK FALSE
