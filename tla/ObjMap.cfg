SPECIFICATION FairSpec
CONSTANTS
    a = a
    b = b
    c = c
    d = d
    null = null
    true = true
    nokey = nokey
    novalue = novalue
    Keys <- MCKeys
    Hash <- MCHash
    Values <- MCValues
    Null = null
    True = true
    NoKey = nokey
    NoValue = novalue
    InitCapacity = 4
INVARIANTS
    TypeOK
    VacancyLeft
    Counted
    ProbeChain
    UniqueKeys
    IInv
PROPERTIES
    OthersKept
    ImplementsMapSpec
    CallsReturn
