CONSTANTS
    o1 = o1
    o2 = o2
    r = r
    h = h
    Null = Null
    Objects <- MCObjects
    RootSlots <- MCRootSlots
    Handles <- MCHandles
    FinalizersCollect = FALSE
    MaxActivations = 2

SPECIFICATION FairSpec

INVARIANTS
    NoDangling
    FreachableEmptyAtMark
    WaitsOnce

PROPERTIES
    SuppressedNotRun
    FinalizedBeforeFreed
    WeakOutlivesFinalizer
    GarbageReclaimed
