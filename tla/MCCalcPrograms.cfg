CONSTANTS
    t1 = t1
    t2 = t2
    CHAR = CHAR
    VARCHAR = VARCHAR
    INT_32 = INT_32
    PTRSIZE = PTRSIZE
    NULL = NULL
    Null = Null
    Threads <- MCThreads
    MaxCalls <- MCMaxCalls
    Types <- MCTypes
    ArrayTypes <- MCArrayTypes
    POINTERSIZET = PTRSIZE
    OperandValues <- MCOperandValues
    Serialised = TRUE
SPECIFICATION Spec
INVARIANT TypeOK
INVARIANT RegisteredOnce
INVARIANT AssembledProgramsFindInstructions
INVARIANT PointerResultsConsistent
\* Every caller stops after MaxCalls calls and the programs they run.
CHECK_DEADLOCK FALSE
