CONSTANTS
    Workers = {w1, w2}
    Clients = {c1, c2}
    Fds <- MCFdsScarce
    Listen = 3
    NoConn = NoConn
SPECIFICATION Spec
PROPERTY WorkersStop
PROPERTY ClientsTerminate
CHECK_DEADLOCK FALSE
