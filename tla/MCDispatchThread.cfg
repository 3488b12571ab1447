SPECIFICATION ThreadSpec
CONSTANTS
    main = main
    io = io
    user = user
    Owner = io
    Others = {main, user}
    Main = main
    Tid <- MCTid
    Tasks = {f1, f2}
    IoHandlers = {h1}
    WakeupHandler = wakeup
    WakeupValue = 2
    EventFdMax = 3
    EEventsSize = 2
    MaxQuits = 1
    EarlyQuit = TRUE
CHECK_DEADLOCK FALSE
INVARIANTS
    ThreadTypeOK
PROPERTIES
    ThreadCallsReturn
    QuietAfterJoin
