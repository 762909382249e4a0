CONSTANTS
    NoClass = NoClass
    NoMethod = NoMethod
    Programs <- TwoDefaults

SPECIFICATION Spec

INVARIANT CallsAsDeclared

CHECK_DEADLOCK FALSE
