CONSTANTS
    NumTuples <- MCNumTuples
    BatchTuples <- MCBatchTuples
    ArraySizes <- MCArraySizes
    TupleBytes <- MCTupleBytes
    ConsumptionGranule <- ByteGranule

SPECIFICATION Spec

INVARIANT TypeOK
INVARIANT NoLostOrDuplicatedBytes
INVARIANT EOSOnlyWhenComplete
INVARIANT NoFetchAssertionFailure

PROPERTY FetchLoopEnds

\* The Java fetch loop ends with EOS or an exception and the producer stops
\* after EOS or an abort: such a state has no successor by design.
CHECK_DEADLOCK FALSE
