CONSTANTS
    NoClass = NoClass
    NoMethod = NoMethod
    Programs <- ExplicitBesideOwn

SPECIFICATION Spec

INVARIANT CallsAsDeclared

CHECK_DEADLOCK FALSE
