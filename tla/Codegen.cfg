SPECIFICATION Spec
CONSTANTS
    Arity = 1
    MaxNodes = 5
    Operands = {1, 2}
    MaxLocals = 8
    MaxStack = 8
INVARIANTS
    IInv
    StatementsBalanced
    HeightsAgree
    LocalsInPlace
CHECK_DEADLOCK FALSE
