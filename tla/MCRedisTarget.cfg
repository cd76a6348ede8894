CONSTANTS
    Workers = {w1}
    Clients = {c1, c2}
    Fds <- MCFds
    Listen = 3
    NoConn = NoConn
SPECIFICATION Spec
INVARIANT TypeOK
PROPERTY RequestAnswered
CHECK_DEADLOCK FALSE
