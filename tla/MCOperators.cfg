CONSTANTS
    MaxArg = 70
    NumOps = 3
    Width = 6
    MaxAlign = 3
    MaxLen = 5
    MaxCount = 2
SPECIFICATION Spec
INVARIANT Pow2RoundingCorrect
INVARIANT ModPowerOfTwoCorrect
INVARIANT CeilingCorrect
INVARIANT SelectionMatchesWeights
INVARIANT Int64AlignedInRange
INVARIANT SpentTimeConsistent
INVARIANT ShuffleIsSingleCycle
INVARIANT ThreadSafeDrawInRange
INVARIANT ThroughputBoundsOrdered
