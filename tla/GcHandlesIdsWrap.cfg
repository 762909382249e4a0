CONSTANTS
    o1 = o1
    o2 = o2
    i1 = i1
    i2 = i2
    i3 = i3
    Objects <- MCObjects
    Infos <- MCInfos
    Null = Null
    HandleTypes = {"Normal"}
    IdLimit = 3
    MaxHandles = 6

SPECIFICATION Spec

INVARIANTS
    AssertionsHold


CHECK_DEADLOCK FALSE
