--------------------------- MODULE ColumnGenerators ---------------------------
(***************************************************************************)
(* The stateful column generators of fennel/test/ExecStreamGenerator.h     *)
(* driven through a CompositeExecStreamGenerator by a mock producer that   *)
(* asks for row 0, 1, ... and, in each row, column 0, 1, ... in turn.      *)
(*                                                                         *)
(* Each ColumnGenerator keeps its own position: its next() returns the     *)
(* value for the next call, whatever row the caller thinks it is on.  The  *)
(* composite therefore asserts that access is sequential, starting from    *)
(* currentRow = uint(-1), and forwards generateValue(iRow, iCol) to        *)
(* generators[iCol]->next().  PoissonColumnGenerator draws each batch from *)
(* its rng; the model lets rng(batchRange) return any value below          *)
(* batchRange.                                                             *)
(***************************************************************************)
EXTENDS Integers, Sequences, SequencesExt, TLC

CONSTANTS
    NumRows,       \* rows the mock producer generates
    DupArgs,       \* DupColumnGenerator(numDupsInit, startValue)
    DupRepArgs,    \* DupRepeatingSeqColumnGenerator(numSequenceInit, numDupsInit)
    RepArgs,       \* RepeatingSeqColumnGenerator(nSequenceInit)
    MixedArgs,     \* MixedDupColumnGenerator(numDupsInit, startValue, wid)
    StairArgs,     \* StairCaseColumnGenerator(height, width, start)
    SeqArgs,       \* SeqColumnGenerator(startInit, offsetInit)
    PoissonArgs,   \* PoissonColumnGenerator(startValue, meanDistance, batchSize)
                   \* with meanDistance = mean[1] / mean[2]
    UintWidth      \* bits of a uint (32 in the build; TLC's integers stop
                   \* at 2^31, so a model takes a narrower width)

(* uint arithmetic is modulo 2^UintWidth: uint(-1) + 1 wraps to 0.         *)
UintModulus == 2^UintWidth

(* The composite's columns, in the order of its generators vector.         *)
DupCol == 0
DupRepCol == 1
RepCol == 2
MixedCol == 3
StairCol == 4
SeqCol == 5
PoissonCol == 6
NumCols == 7
Cols == 0 .. NumCols - 1

(* The constructors' asserts.                                              *)
ASSUME \A a \in DupArgs : a.numDups > 0
ASSUME \A a \in DupRepArgs : a.numSequence > 0 /\ a.numDups > 0
ASSUME \A a \in RepArgs : a.nSequence > 0
ASSUME \A a \in MixedArgs : a.numDups > 0
ASSUME \A a \in PoissonArgs :
          /\ a.batchSize > 0 /\ a.mean[1] > 0 /\ a.mean[2] > 0
          /\ a.mean[1] * a.batchSize >= a.mean[2]

VARIABLES
    args,        \* the constructor arguments of each column's generator
    gen,         \* gen[c]: the fields of generators[c]
    currentRow,  \* CompositeExecStreamGenerator::currentRow
    currentCol,  \* CompositeExecStreamGenerator::currentCol
    row, col,    \* the mock producer's next call
    out,         \* out[c]: the values column c has returned, in order
    failed       \* an assert has failed (the process aborts)

vars == <<args, gen, currentRow, currentCol, row, col, out, failed>>

-----------------------------------------------------------------------------
(* The constructors.                                                       *)
NewDup(a) == [numDups |-> a.numDups, curValue |-> a.startValue * a.numDups]
NewDupRep(a) == [numDups |-> a.numDups, numSequence |-> a.numSequence,
                 curValue |-> 0]
NewRep(a) == [nSequence |-> a.nSequence, curValue |-> 0]
NewMixed(a) == [numDups |-> a.numDups, curValue |-> 0, width |-> a.width,
                nextValue |-> a.startValue, initialValue |-> a.startValue]
NewStair(a) == [s |-> a.start, h |-> a.height, w |-> a.width, iRow |-> 0]
NewSeq(a) == [offset |-> a.offset, curr |-> a.start - a.offset]
NewPoisson(a) == [nextValues |-> [i \in 1 .. a.batchSize |-> a.startValue],
                  ordinalInBatch |-> a.batchSize, batchUpper |-> a.startValue,
                  mean |-> a.mean]

NewCompositeRowZero == 0
NewCompositeRowSigned == -1

(* The composite's constructor: currentRow = uint(-1), currentCol the last *)
(* column.                                                                 *)
NewCompositeRow == UintModulus - 1
NewCompositeCol == NumCols - 1

-----------------------------------------------------------------------------
(* The next() of each generator: its value and its fields afterwards.      *)
DupNext(g) == [value |-> g.curValue \div g.numDups,
               gen |-> [g EXCEPT !.curValue = @ + 1]]

DupRepNext(g) == [value |-> (g.curValue % (g.numDups * g.numSequence)) \div g.numDups,
                  gen |-> [g EXCEPT !.curValue = @ + 1]]

RepNext(g) == [value |-> g.curValue % g.nSequence,
               gen |-> [g EXCEPT !.curValue = @ + 1]]

MixedNextLateReset(g) ==
    IF ((g.nextValue - g.initialValue) \div g.width) % 2 = 1
    THEN [value |-> g.nextValue + g.curValue \div g.numDups,
          gen |-> IF g.curValue = g.numDups
                  THEN [g EXCEPT !.curValue = 0, !.nextValue = @ + 1]
                  ELSE [g EXCEPT !.curValue = @ + 1]]
    ELSE [value |-> g.nextValue, gen |-> [g EXCEPT !.nextValue = @ + 1]]

(* In a duplicated block (odd ((nextValue - initialValue) / width)) the    *)
(* value is returned numDups times before nextValue moves on.              *)
MixedNext(g) ==
    IF ((g.nextValue - g.initialValue) \div g.width) % 2 = 1
    THEN LET cur == g.curValue + 1 IN
         [value |-> g.nextValue + g.curValue \div g.numDups,
          gen |-> IF cur = g.numDups
                  THEN [g EXCEPT !.curValue = 0, !.nextValue = @ + 1]
                  ELSE [g EXCEPT !.curValue = cur]]
    ELSE [value |-> g.nextValue, gen |-> [g EXCEPT !.nextValue = @ + 1]]

StairNext(g) == [value |-> g.s + g.h * (g.iRow \div g.w),
                 gen |-> [g EXCEPT !.iRow = @ + 1]]

SeqNext(g) == [value |-> g.curr + g.offset, gen |-> [g EXCEPT !.curr = @ + g.offset]]

(* batchRange = (int)(meanDistance * nextValues.size()).                   *)
BatchRange(g) == (g.mean[1] * Len(g.nextValues)) \div g.mean[2]

GenerateBatchKeepsUpper(g, draws) ==
    [g EXCEPT !.nextValues = SortSeq([i \in DOMAIN draws |-> g.batchUpper + draws[i]], <),
              !.ordinalInBatch = 0]

(* generateBatch: draws[i] is rng(batchRange); the batch is sorted and     *)
(* the next batch starts where this one's range ends.                      *)
GenerateBatch(g, draws) ==
    [g EXCEPT !.nextValues = SortSeq([i \in DOMAIN draws |-> g.batchUpper + draws[i]], <),
              !.batchUpper = @ + BatchRange(g),
              !.ordinalInBatch = 0]

(* next(): a new batch once the current one is used up.                    *)
PoissonNext(g, draws) ==
    LET b == IF g.ordinalInBatch >= Len(g.nextValues)
             THEN GenerateBatch(g, draws) ELSE g
    IN [value |-> b.nextValues[b.ordinalInBatch + 1],
        gen |-> [b EXCEPT !.ordinalInBatch = @ + 1]]

(* The rng outcomes one next() call may consume.                           *)
Draws(g) == IF g.ordinalInBatch >= Len(g.nextValues)
            THEN [1 .. Len(g.nextValues) -> 0 .. BatchRange(g) - 1]
            ELSE {[i \in 1 .. Len(g.nextValues) |-> 0]}

(* The batch assert: batchUpper > batchLower.                              *)
BatchOK(g) == g.ordinalInBatch >= Len(g.nextValues) => BatchRange(g) > 0

-----------------------------------------------------------------------------
(* generators[iCol]->next(), recording the value the column returned.      *)
Emit(c, r) ==
    /\ gen' = [gen EXCEPT ![c] = r.gen]
    /\ out' = [out EXCEPT ![c] = Append(@, r.value)]

ColumnNext(c) ==
    \/ c = DupCol /\ Emit(c, DupNext(gen[c]))
    \/ c = DupRepCol /\ Emit(c, DupRepNext(gen[c]))
    \/ c = RepCol /\ Emit(c, RepNext(gen[c]))
    \/ c = MixedCol /\ Emit(c, MixedNext(gen[c]))
    \/ c = StairCol /\ Emit(c, StairNext(gen[c]))
    \/ c = SeqCol /\ Emit(c, SeqNext(gen[c]))
    \/ /\ c = PoissonCol
       /\ IF BatchOK(gen[c])
          THEN /\ \E d \in Draws(gen[c]) : Emit(c, PoissonNext(gen[c], d))
               /\ UNCHANGED failed
          ELSE /\ failed' = TRUE
               /\ UNCHANGED <<gen, out>>

(* The asserts of CompositeExecStreamGenerator::generateValue.             *)
SequentialAccess(iRow, iCol) ==
    IF iCol = 0
    THEN /\ iRow = (currentRow + 1) % UintModulus
         /\ currentCol = NumCols - 1
    ELSE /\ iRow = currentRow
         /\ iCol = currentCol + 1

generateValue(iRow, iCol) ==
    IF SequentialAccess(iRow, iCol)
    THEN /\ currentRow' = iRow
         /\ currentCol' = iCol
         /\ ColumnNext(iCol)
         /\ iCol # PoissonCol => UNCHANGED failed
    ELSE /\ failed' = TRUE
         /\ UNCHANGED <<currentRow, currentCol, gen, out>>

-----------------------------------------------------------------------------
Init ==
    /\ args \in [dup: DupArgs, dupRep: DupRepArgs, rep: RepArgs,
                 mixed: MixedArgs, stair: StairArgs, seq: SeqArgs,
                 poisson: PoissonArgs]
    /\ gen = LET g == <<NewDup(args.dup), NewDupRep(args.dupRep),
                        NewRep(args.rep), NewMixed(args.mixed),
                        NewStair(args.stair), NewSeq(args.seq),
                        NewPoisson(args.poisson)>>
             IN [c \in Cols |-> g[c + 1]]
    /\ currentRow = NewCompositeRow
    /\ currentCol = NewCompositeCol
    /\ row = 0
    /\ col = 0
    /\ out = [c \in Cols |-> <<>>]
    /\ failed = FALSE

(* The mock producer asks for its rows in order, each column in order,     *)
(* until NumRows rows are out or an assert has stopped the process.       *)
Produce ==
    /\ ~failed
    /\ row < NumRows
    /\ generateValue(row, col)
    /\ col' = (col + 1) % NumCols
    /\ row' = IF col = NumCols - 1 THEN row + 1 ELSE row
    /\ UNCHANGED args

Next == Produce

Spec == Init /\ [][Next]_vars

-----------------------------------------------------------------------------
TypeOK ==
    /\ currentRow \in 0 .. UintModulus - 1
    /\ currentCol \in Cols
    /\ row \in 0 .. NumRows
    /\ col \in Cols
    /\ out \in [Cols -> Seq(Int)]
    /\ failed \in BOOLEAN

(* The sequences the generators' comments promise, as functions of the     *)
(* call number k (from 0).                                                 *)
DupDoc(a, k) == a.startValue + k \div a.numDups
DupRepDoc(a, k) == (k \div a.numDups) % a.numSequence
RepDoc(a, k) == k % a.nSequence
SeqDoc(a, k) == a.start + k * a.offset

(* "a mixture of unique rows or duplicate rows of numDups per value":      *)
(* runs of width values, alternately once each and numDups times each.     *)
RECURSIVE MixedDocFrom(_, _, _)
MixedDocFrom(a, v, n) ==
    IF n <= 0 THEN <<>>
    ELSE LET copies == IF ((v - a.startValue) \div a.width) % 2 = 1
                       THEN a.numDups ELSE 1
         IN [i \in 1 .. copies |-> v] \o MixedDocFrom(a, v + 1, n - copies)
MixedDoc(a, n) == SubSeq(MixedDocFrom(a, a.startValue, n), 1, n)

FollowsDoc(c, Doc(_)) == \A k \in 1 .. Len(out[c]) : out[c][k] = Doc(k - 1)

(* The mock producer's row-major calls pass the composite's sequential-    *)
(* access asserts, the first one across the uint(-1) + 1 wrap, and the     *)
(* Poisson generator's batchUpper > batchLower assert holds whenever its   *)
(* constructor's asserts did.                                              *)
NoGeneratorAssertionFailure == ~failed

(* Each column generator returns, call after call, the sequence its        *)
(* comment describes: Dup, DupRepeatingSeq, RepeatingSeq, Seq and the      *)
(* alternating runs of MixedDup.                                           *)
ColumnsFollowDocumentedSequences ==
    /\ FollowsDoc(DupCol, LAMBDA k : DupDoc(args.dup, k))
    /\ FollowsDoc(DupRepCol, LAMBDA k : DupRepDoc(args.dupRep, k))
    /\ FollowsDoc(RepCol, LAMBDA k : RepDoc(args.rep, k))
    /\ FollowsDoc(SeqCol, LAMBDA k : SeqDoc(args.seq, k))
    /\ out[MixedCol] = MixedDoc(args.mixed, Len(out[MixedCol]))

(* The Poisson column is ascending and never below its startValue, across  *)
(* batch boundaries as well as inside a sorted batch.                      *)
PoissonAscending ==
    /\ IsSorted(out[PoissonCol], <=)
    /\ \A k \in 1 .. Len(out[PoissonCol]) :
          out[PoissonCol][k] >= args.poisson.startValue

====
