SPECIFICATION FairSpec
CONSTANTS
    ordinary = ordinary
    StackOverflow = StackOverflow
    ExecutionEngine = StackOverflow
    NoException = NoException
    Exceptions <- MCExceptions
    Programs <- ReturnFromCatch
    Main = "Main"
    MaxFrames = 3
PROPERTY
    ImplementsStructuredExceptions
CHECK_DEADLOCK FALSE
