CONSTANTS
    NoClass = NoClass
    NoMethod = NoMethod
    Programs <- MCPrograms

SPECIFICATION SupportedSpec

INVARIANTS
    CallsAsDeclared
    SlotsAgree
    ValidProgramsLoad

CHECK_DEADLOCK FALSE
