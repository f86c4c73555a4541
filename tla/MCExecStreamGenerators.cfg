SPECIFICATION Spec
INVARIANT TypeOK
INVARIANT NoGeneratorAssertionFailure
INVARIANT ColumnsFollowDocumentedSequences
INVARIANT PoissonAscending
INVARIANT RowsArePartitionedPermutation
\* Both producers stop after their last row.
CHECK_DEADLOCK FALSE
