SPECIFICATION FairSpec
CONSTANTS
    main = main
    io = io
    user = user
    Owner = io
    Others = {main, user}
    Tid <- MCTid
    Tasks = {f1, f2}
    IoHandlers = {h1}
    WakeupHandler = wakeup
    WakeupValue = 2
    EventFdMax = 3
    EEventsSize = 1
    MaxQuits = 1
    EarlyQuit = FALSE
CHECK_DEADLOCK FALSE
INVARIANTS
    TypeOK
    NoLostWakeup
    FifoExactlyOnce
PROPERTIES
    ImplementsMailbox
    LoopProgress
    IoServed
