CONSTANTS
    NumThreads = 2
    OpDist <- MCOpDist
    NumBuckets = 3
    U64Max <- MCU64Max
    Durations <- MCDurations
    Outcomes <- EmptyOutcomes
    MaxIters = 2
    MaxNoise = 2
    RandomNoise = FALSE
SPECIFICATION Spec
INVARIANT TypeOK
INVARIANT ReportIsFinal
INVARIANT NoiseStopsPromptly
PROPERTY LauncherSpec
PROPERTY RunCompletes
