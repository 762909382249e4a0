CONSTANTS
    o1 = o1
    o2 = o2
    i1 = i1
    i2 = i2
    i3 = i3
    Objects <- MCObjects
    Infos <- MCInfos
    Null = Null
    HandleTypes = {"Weak", "WeakTrackResurrection", "Normal"}
    IdLimit = 4
    MaxHandles = 4

SPECIFICATION Spec
SYMMETRY Symmetry

INVARIANTS
    TypeOK
    AssertionsHold

PROPERTY
    ImplementsHandleStore

CHECK_DEADLOCK FALSE
