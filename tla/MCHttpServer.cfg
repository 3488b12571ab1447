SPECIFICATION HttpSpec
CONSTANTS
    Scripts <- MCScripts
    kBufBegin = 1
    kDefaultSize = 4
    kExtraSize = 8
CHECK_DEADLOCK FALSE
INVARIANTS
    HttpTypeOK
    PayloadKept
    RequestsInOrder
    WireIsAnswers
PROPERTIES
    ParseEnds
