CONSTANTS
    Threads <- MCThreads
    Ops <- MCOps
    NumBuckets = 60
    U64Max <- MCU64Max
    Durations <- MCDurations
    Outcomes <- EmptyOutcomes
    MaxCallsPerSlot = 2
SPECIFICATION Spec
INVARIANT TypeOK
INVARIANT HistogramBracketsMinMax
INVARIANT HistogramMatchesCount
CHECK_DEADLOCK FALSE
