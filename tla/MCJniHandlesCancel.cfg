CONSTANTS
    o1 = o1
    c1 = c1
    NULL = NULL
    NoHandle = NoHandle
    Objects <- MCObjects
    Cancellers <- MCCancellers
    MaxHandles <- MCMaxHandles
    MaxRefs <- MCMaxRefs
    CancelSerialised = FALSE

SPECIFICATION Spec

INVARIANT CancelTargetLive
