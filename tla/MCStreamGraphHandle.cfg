CONSTANTS
    g1 = g1
    g2 = g2
    g3 = g3
    t1 = t1
    t2 = t2
    NULL = NULL
    Handles <- MCHandles
    Txns <- MCTxns
    SchedulerOf <- MCSchedulerOf
    OwnerHeld <- MCOwnerHeld
    SnapshotsEnabled = TRUE
    MaxRefs <- MCMaxRefs

SPECIFICATION Spec

INVARIANT TypeOK
INVARIANT NoOrphanedGlobalRef
INVARIANT OpenGraphScheduled

\* Every handle ends deallocated, or the bound on global refs stops reopens.
CHECK_DEADLOCK FALSE
