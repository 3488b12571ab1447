SPECIFICATION FairServerSpec
CONSTANTS
    MaxConns = 2
    MaxThreads = 2
    MaxCalls = 1
CHECK_DEADLOCK FALSE
INVARIANT NoUseAfterFree
