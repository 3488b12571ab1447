SPECIFICATION FairLogSpec
CONSTANTS
    Loggers = {t1, t2}
    BufferCapacity = 2
    DropLimit = 3
    CheckEveryN = 3
    MaxMessages = 8
CHECK_DEADLOCK FALSE
INVARIANTS
    LogTypeOK
    SparesSuffice
    FileInOrder
    NoSleepOverWork
PROPERTIES
    MessagesWritten
    LogCallsReturn
