CONSTANTS
    NumThreads = 3
    CreateMayFail = TRUE
SPECIFICATION Spec
INVARIANT AllThreadsRan
