CONSTANTS
    a = a
    b = b
    c = c
    d = d
    e = e
    k = k
    Null = Null
    Objects <- MCObjects
    Statics <- MCStatics
    Heaps <- MCHeaps
    BatchThreshold = 2
    MaxDepth = 1

SPECIFICATION FairSpec

INVARIANTS
    NoBlackToWhite
    MarksReachable
    NativeStackBounded
    ScannedOnce

PROPERTY
    Terminates

CHECK_DEADLOCK FALSE
