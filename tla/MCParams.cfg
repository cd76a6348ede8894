CONSTANTS
    NumOps = 1
    Args <- MCArgs
    NONE <- MCNone
    Garbage = {7, 99}
    CallerLen = {0, 1}
    AssertsEnabled = TRUE
SPECIFICATION Spec
INVARIANT TypeOK
INVARIANT AcceptedFixedFieldsGiven
CHECK_DEADLOCK FALSE
