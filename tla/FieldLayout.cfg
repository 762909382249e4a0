CONSTANTS
    a = a
    b = b
    c = c
    base = base
    derived = derived
    NoClass = NoClass
    PointerSize = 8
    Classes <- MCClasses
    Programs <- MCPrograms

SPECIFICATION Spec

CHECK_DEADLOCK FALSE

INVARIANTS
    LayoutsSound
    ReferencesTraced
