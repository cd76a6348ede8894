CONSTANTS
    NumThreads = 3
    Calls = 2
SPECIFICATION Spec
INVARIANT StartBarrier
