CONSTANTS
    parentClass = parentClass
    childClass = childClass
    m1 = m1
    m2 = m2
    small = small
    large = large
    NoClass = NoClass
    Classes = {parentClass, childClass}
    Modules = {m1, m2}
    WithCctor = {parentClass, childClass, m1}
    ModuleOf <- MCModuleOf
    Parent <- MCParent
    Methods = {small, large}
    MaxStack <- MCMaxStack
    ArgSize <- MCArgSize
    CctorMethod <- MCCctorMethod
    FrameSlots = 3
    EvalSlots = 4

SPECIFICATION Spec

INVARIANT
    StatusAssertion

CHECK_DEADLOCK FALSE
