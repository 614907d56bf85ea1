SPECIFICATION FairSpec
CONSTANTS
    Caller = {a}
    Async = {FALSE}
    Null = Null
    MaxCalls = 2
    MaxSpurious = 0
    MaxErrors = 0
PROPERTIES RunReturns
CHECK_DEADLOCK FALSE
