------------------------ MODULE MCExecStreamGenerators ------------------------
(* The generators of fennel/test/ExecStreamGenerator.h as a test suite     *)
(* uses them: a mock producer reads the seven column generators of a       *)
(* composite row to its last row, then another reads a                      *)
(* PermutationGenerator.  Each keeps its own state; the second starts when *)
(* the first has no row left.                                              *)
EXTENDS Naturals

VARIABLES args, gen, currentRow, currentCol, row, col, out, failed,
          pArgs, pValues, pRow, pCol, pRows

(* Nine rows: the MixedDup example of the comment (numDups 3, width 3)     *)
(* reaches its first duplicated run, DupRepeatingSeq wraps, and the        *)
(* Poisson column crosses four batch boundaries.                           *)
MCNumRows == 9
MCUintWidth == 16
MCDupArgs == {[numDups |-> 2, startValue |-> 0], [numDups |-> 3, startValue |-> 1]}
MCDupRepArgs == {[numSequence |-> 2, numDups |-> 2]}
MCRepArgs == {[nSequence |-> 4]}
MCMixedArgs == {[numDups |-> 3, startValue |-> 0, width |-> 3],
                [numDups |-> 2, startValue |-> 5, width |-> 1]}
MCStairArgs == {[height |-> 2, width |-> 3, start |-> 1]}
MCSeqArgs == {[start |-> 4, offset |-> 3]}
(* meanDistance 0.5 and 0.75 with batches of 2: batchRange truncates to 1; *)
(* meanDistance 1: values drawn from two per batch.                        *)
MCPoissonArgs == {[startValue |-> 0, mean |-> <<1, 2>>, batchSize |-> 2],
                  [startValue |-> 3, mean |-> <<3, 4>>, batchSize |-> 2],
                  [startValue |-> 0, mean |-> <<1, 1>>, batchSize |-> 2]}

(* The one-argument constructor over 3 rows, and partitions of 2, 3 and 4  *)
(* rows: the smallest partitions whose shuffle range is empty, one and     *)
(* several elements long.                                                  *)
MCPermArgs == {[nRows |-> 3, partSize |-> 0], [nRows |-> 4, partSize |-> 2],
               [nRows |-> 6, partSize |-> 3], [nRows |-> 4, partSize |-> 4]}

CG == INSTANCE ColumnGenerators WITH
        NumRows <- MCNumRows, UintWidth <- MCUintWidth, DupArgs <- MCDupArgs,
        DupRepArgs <- MCDupRepArgs, RepArgs <- MCRepArgs,
        MixedArgs <- MCMixedArgs, StairArgs <- MCStairArgs,
        SeqArgs <- MCSeqArgs, PoissonArgs <- MCPoissonArgs
PG == INSTANCE PermutationGenerator WITH
        Args <- MCPermArgs, args <- pArgs, values <- pValues, row <- pRow,
        col <- pCol, rows <- pRows

cvars == <<args, gen, currentRow, currentCol, row, col, out, failed>>
pvars == <<pArgs, pValues, pRow, pCol, pRows>>

Init == CG!Init /\ PG!Init

Next ==
    \/ CG!Next /\ UNCHANGED pvars
    \/ ~ENABLED CG!Next /\ PG!Next /\ UNCHANGED cvars

Spec == Init /\ [][Next]_<<cvars, pvars>>

-----------------------------------------------------------------------------
(* Both generators' state keeps its type.                                  *)
TypeOK == CG!TypeOK /\ PG!TypeOK

(* No constructor or next() assertion of a column generator fails.        *)
NoGeneratorAssertionFailure == CG!NoGeneratorAssertionFailure

(* Each column follows the sequence its class comment documents.          *)
ColumnsFollowDocumentedSequences == CG!ColumnsFollowDocumentedSequences

(* PoissonColumnGenerator's values never decrease across batches.          *)
PoissonAscending == CG!PoissonAscending

(* PermutationGenerator's rows are a permutation of 0 .. nRows-1 keeping   *)
(* every value in the partition its key column names.                      *)
RowsArePartitionedPermutation == PG!RowsArePartitionedPermutation
====
