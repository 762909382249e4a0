SPECIFICATION FairSpec
CONSTANTS
    ordinary = ordinary
    StackOverflow = StackOverflow
    ExecutionEngine = StackOverflow
    NoException = NoException
    Exceptions <- MCExceptions
    Programs <- MCPrograms
    Main = "Main"
    MaxFrames = 3
INVARIANTS
    TypeOK
    AssertionsHold
    NoFlowOutlivesFrame
PROPERTIES
    ImplementsStructuredExceptions
    Ends
CHECK_DEADLOCK FALSE
