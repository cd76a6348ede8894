CONSTANTS
    Workers = {w1, w2}
    Clients = {c1, c2}
    Fds <- MCFds
    Listen = 3
    NoConn = NoConn
SPECIFICATION Spec
INVARIANT ReplyMatchesRequest
CHECK_DEADLOCK FALSE
