CONSTANTS
    NumOps = 1
    Args <- MCArgs
    NONE <- MCNone
    Garbage = {7, 99}
    CallerLen = {0}
    AssertsEnabled = TRUE
SPECIFICATION Spec
INVARIANT AcceptedOpDistGiven
CHECK_DEADLOCK FALSE
