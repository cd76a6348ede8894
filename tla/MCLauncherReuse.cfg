CONSTANTS
    NumThreads = 4
    Calls = 2
SPECIFICATION Spec
INVARIANT TypeOK
INVARIANT FirstLaunchBarrier
INVARIANT AllThreadsRan
PROPERTY EveryCallReturns
