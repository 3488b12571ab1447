SPECIFICATION FairConnSpec
CONSTANTS
    Users = {u1, u2}
    MsgSize = 2
    KernelRoom = 1
    HighWater = 3
    MaxMessages = 3
CHECK_DEADLOCK FALSE
INVARIANT FinAfterData
