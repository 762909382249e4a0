CONSTANTS
    o1 = o1
    o2 = o2
    r = r
    h = h
    Null = Null
    Objects <- MCObjects
    RootSlots <- MCRootSlots
    Handles <- MCHandles
    FinalizersCollect = TRUE
    MaxActivations = 2

SPECIFICATION Spec

INVARIANTS
    FreachableEmptyAtMark

