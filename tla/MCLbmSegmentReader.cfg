CONSTANTS
    Entries <- MCEntries
    BatchTuples <- MCBatchTuples

SPECIFICATION Spec

INVARIANT TypeOK
INVARIANT ReaderTupleStable
INVARIANT ReadsEachEntryOnceInOrder

PROPERTY ReaderReachesEOS

\* After EOS neither the producer nor the reader has anything left to do:
\* such a state has no successor by design.
CHECK_DEADLOCK FALSE
