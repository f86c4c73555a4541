CONSTANTS
    NumTuples <- MCNumTuples
    BatchTuples <- MCBatchTuples
    ArraySizes <- MCArraySizes
    TupleBytes <- MCTupleBytes
    ConsumptionGranule <- TupleGranule

SPECIFICATION Spec

INVARIANT NoFetchAssertionFailure

CHECK_DEADLOCK FALSE
