CONSTANTS
    NoClass = NoClass
    NoMethod = NoMethod
    Programs <- InheritedBesideDefault

SPECIFICATION Spec

INVARIANT CallsAsDeclared

CHECK_DEADLOCK FALSE
