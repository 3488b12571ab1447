SPECIFICATION AcceptorSpec
CONSTANTS
    Clients = {c1, c2, c3}
    MaxFds = 4
    MaxOthers = 2
CHECK_DEADLOCK FALSE
INVARIANTS
    AcceptorTypeOK
PROPERTIES
    OnlyOwnClosed
    ClientsAnswered
