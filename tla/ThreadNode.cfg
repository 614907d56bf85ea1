SPECIFICATION FairSpec
CONSTANTS
    Caller = {a, b}
    Async = {TRUE, FALSE}
    Null = Null
    MaxCalls = 2
    MaxSpurious = 1
    MaxErrors = 1
INVARIANTS TypeOK RunsOnce RunsInOrder ReturnsAfterRun QueueIntact OwnArguments
PROPERTIES ExecutorRests
CHECK_DEADLOCK FALSE
