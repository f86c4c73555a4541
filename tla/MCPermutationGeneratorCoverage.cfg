CONSTANTS
    Args <- MCArgs
SPECIFICATION Spec
INVARIANT EveryPartitionPermutationPossible
CHECK_DEADLOCK FALSE
