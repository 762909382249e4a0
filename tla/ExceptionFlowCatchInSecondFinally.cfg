SPECIFICATION FairSpec
CONSTANTS
    ordinary = ordinary
    StackOverflow = StackOverflow
    ExecutionEngine = StackOverflow
    NoException = NoException
    Exceptions <- MCExceptions
    Programs <- CatchInSecondFinally
    Main = "Main"
    MaxFrames = 3
INVARIANT
    AssertionsHold
CHECK_DEADLOCK FALSE
