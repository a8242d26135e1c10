SPECIFICATION FairSpec
CONSTANTS
    Languages <- MCLanguages
INVARIANTS
    IInv
    TreeIsTheProgram
    TreeFollowsGrammar
    NeverPastEnd
PROPERTIES
    ParseEnds
CHECK_DEADLOCK FALSE
