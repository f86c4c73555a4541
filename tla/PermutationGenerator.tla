------------------------- MODULE PermutationGenerator -------------------------
(***************************************************************************)
(* PermutationGenerator of fennel/test/ExecStreamGenerator.h, read by a    *)
(* mock producer of two columns, row by row.                               *)
(*                                                                         *)
(* The constructor fills values with 0 .. nRows-1 (std::iota) and then     *)
(* std::random_shuffle's the whole vector, or, with a partition size, each *)
(* partition separately.  random_shuffle(first, last) permutes the         *)
(* half-open range [first, last); the model lets it produce any            *)
(* permutation of that range.  generateValue gives the partition number    *)
(* iRow / partitionSize in column 0 and values[iRow] otherwise.            *)
(***************************************************************************)
EXTENDS Integers, Sequences, Functions

CONSTANTS
    Args    \* constructor arguments [nRows, partSize]; partSize 0 is the
            \* one-argument constructor (partitionSize = 0)

NumCols == 2

(* PermutationGenerator(nRows, partSize) asserts nRows % partitionSize = 0. *)
ASSUME \A a \in Args : a.partSize > 0 => a.nRows % a.partSize = 0

-----------------------------------------------------------------------------
IotaFromOne(n) == [k \in 1 .. n |-> k]

(* std::iota(values.begin(), values.end(), 0).                             *)
Iota(n) == [k \in 1 .. n |-> k - 1]

(* The vectors std::random_shuffle(begin + first, begin + last) can leave: *)
(* positions first .. last-1 (from 0) permuted, the others untouched.      *)
RandomShuffle(vals, first, last) ==
    LET D == 0 .. last - first - 1
    IN { [k \in DOMAIN vals |->
            IF first <= k - 1 /\ k - 1 < last
            THEN vals[first + pi[k - 1 - first] + 1]
            ELSE vals[k]] : pi \in Bijection(D, D) }

ShuffleWholePrefix(vals, p, i) ==
    RandomShuffle(vals, 0, i * p + p - 1)

(* One iteration of the constructor's loop: start = i * partitionSize,     *)
(* end = start + partitionSize - 1, random_shuffle(begin + start,         *)
(* begin + end).                                                           *)
ShufflePartition(vals, p, i) ==
    LET start == i * p
        end == start + p - 1
    IN RandomShuffle(vals, start, end)

(* The iterations i .. nRows / partitionSize - 1 of that loop.             *)
RECURSIVE ShufflePartitionsFrom(_, _, _)
ShufflePartitionsFrom(vals, p, i) ==
    IF i >= Len(vals) \div p THEN {vals}
    ELSE UNION {ShufflePartitionsFrom(v, p, i + 1) : v \in ShufflePartition(vals, p, i)}

(* The values vectors each constructor can produce.                        *)
PermutationGeneratorValues(a) ==
    IF a.partSize = 0
    THEN RandomShuffle(Iota(a.nRows), 0, a.nRows)
    ELSE ShufflePartitionsFrom(Iota(a.nRows), a.partSize, 0)

(* generateValue(iRow, iCol).                                              *)
GenerateValue(a, vals, iRow, iCol) ==
    IF a.partSize # 0 /\ iCol = 0 THEN iRow \div a.partSize
    ELSE vals[iRow + 1]

-----------------------------------------------------------------------------
VARIABLES
    args,     \* the constructor's arguments
    values,   \* PermutationGenerator::values
    row, col, \* the mock producer's next call
    rows      \* the rows produced so far, each a sequence of column values

vars == <<args, values, row, col, rows>>

Init ==
    /\ args \in Args
    /\ values \in PermutationGeneratorValues(args)
    /\ row = 0
    /\ col = 0
    /\ rows = <<>>

(* The mock producer asks for each row's columns in turn.                  *)
Produce ==
    /\ row < args.nRows
    /\ LET v == GenerateValue(args, values, row, col) IN
       rows' = IF col = 0 THEN Append(rows, <<v>>)
               ELSE [rows EXCEPT ![row + 1] = Append(@, v)]
    /\ col' = (col + 1) % NumCols
    /\ row' = IF col = NumCols - 1 THEN row + 1 ELSE row
    /\ UNCHANGED <<args, values>>

Next == Produce

Spec == Init /\ [][Next]_vars

-----------------------------------------------------------------------------
TypeOK ==
    /\ values \in [1 .. args.nRows -> 0 .. args.nRows - 1]
    /\ row \in 0 .. args.nRows
    /\ col \in 0 .. NumCols - 1
    /\ rows \in Seq(Seq(0 .. args.nRows - 1))

Complete == [i \in 1 .. row |-> rows[i]]

(* Every complete row's value column belongs to the partition its key      *)
(* column names, and no value repeats: the generator's rows are a          *)
(* permutation of 0 .. nRows-1 that keeps each value in its partition,     *)
(* which is what the tests that group on column 0 rely on.                 *)
RowsArePartitionedPermutation ==
    /\ \A i, j \in 1 .. row : i # j => Complete[i][2] # Complete[j][2]
    /\ \A i \in 1 .. row : Complete[i][2] \in 0 .. args.nRows - 1
    /\ args.partSize # 0 =>
          \A i \in 1 .. row : Complete[i][1] = Complete[i][2] \div args.partSize

(* The arrangements a "permutation within each partition" allows.          *)
PartitionPermutations(a) ==
    { v \in [1 .. a.nRows -> 0 .. a.nRows - 1] :
        /\ IsInjective(v)
        /\ \A k \in 1 .. a.nRows : v[k] \div a.partSize = (k - 1) \div a.partSize }

(* Every arrangement that keeps each value in its partition is one the     *)
(* partitioned constructor can produce.                                    *)
EveryPartitionPermutationPossible ==
    args.partSize # 0 =>
        PartitionPermutations(args) \subseteq PermutationGeneratorValues(args)

====
