CONSTANTS
    j1 = j1
    f1 = f1
    JavaThreads <- MCJavaThreads
    FennelThreads <- MCFennelThreads
    MaxDepth <- MCMaxDepth
    MaxLocalRefs <- MCMaxLocalRefs

SPECIFICATION Spec

INVARIANT TypeOK
INVARIANT EnvUsedOnlyWhenAttached

\* A JavaExcn that leaves a native method with no try terminates the
\* process, and a Fennel thread whose exception left its last native frame
\* has nothing more to do here: such states have no successor.
CHECK_DEADLOCK FALSE
