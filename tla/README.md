# TLA+ models of the Fennel stream-buffer, calculator, test-generator and JNI layers

This directory holds TLA+ models of the parts of `src/` that have state,
concurrency or a protocol between callers. Each model is checked with TLC.
`PROJECT.json` lists:

- every component, modelled or not;
- the runs;
- the mutants each property must catch;
- the map from each definition to the source lines it translates;
- the findings;
- the hazards the code is exposed to.

## The system and how its parts interact

The repository is a slice of Fennel, the C++ storage and execution core behind
the Farrago SQL engine.

- **Execution streams** exchange tuples through an `ExecStreamBufAccessor`.
  Spec section 4.3 describes it; its code is not in the repository.
  - It is a single-producer, single-consumer buffer in state UNDERFLOW, DATA
    or EOS.
  - The producer fills the buffer only on request.
  - The consumer consumes bytes or whole tuples from the front.
  - `unmarshalTuple` leaves the tuple's consumption pending.
- **The JNI bridge** (`fennel/farrago/NativeMethods.cpp`, `JniUtil.h`,
  `JavaExcn.h`) is how Java drives Fennel.
  - It opens and closes stream graphs (`tupleStreamGraphOpen/Close`).
  - It pulls result bytes (`tupleStreamFetch`) or transform input
    (`tupleStreamTransformFetch`) out of a stream's buffer.
  - It aborts a graph (`CLOSE_ABORT`) or cancels a statement
    (`cancelExecution`) from another Java thread.
  - It keeps Java objects alive through global refs held in object handles
    and graph handles. All handles are counted by `JniUtil::handleCount` and
    optionally traced to a file.
  - Every entry point wraps the `JNIEnv` in a `JniEnvRef`. JNI calls go
    through `JniExceptionChecker`, which throws a pending Java exception as a
    C++ `JavaExcn`. The entry point's catch hands it back to Java with
    `handleExcn`. The handle entry points (`newObjectHandle`,
    `deleteObjectHandle`, `setObjectHandle`) and
    `getAccessorXmiForTupleDescriptor` have no such `try`. A thread created within Fennel gets its `JNIEnv` from a
    `JniEnvAutoRef`, which attaches and later detaches the thread.
- **Stream graph handles and schedulers.** Opening a graph:
  - points its `DynamicDelegatingSegment`s at the txn's snapshot segments;
  - starts its scheduler if the handle is the scheduler's only holder
    (`pScheduler.unique()`). A scheduler can be shared with the database
    handle, which started it.
- **The calculator.**
  - `CalcInit::instance()` (`fennel/calculator/CalcInit.cpp`) allocates a
    singleton and publishes it in `_instance`. Only then does it register
    the instruction tables, in eight calls. Its comment warns that it is not
    thread safe.
  - One of those calls registers `PointerGetSize` (GETS) and
    `PointerGetMaxSize` (GETMS) for every array type
    (`IntegralPointerInstruction.h`). A calculator program that uses them
    must find them in the table.
- **The test data generators** (`fennel/test/ExecStreamGenerator.h`) feed
  mock producer streams.
  - Column generators keep their own position and ignore the row they are
    asked for. A `CompositeExecStreamGenerator` therefore asserts that rows
    and columns are requested in order.
  - `PermutationGenerator` shuffles the rows within fixed-size partitions.
- **The bitmap segment reader**
  (`fennel/lucidera/bitmap/LbmSegmentReaderBase.cpp`) consumes through the
  buffer protocol. It keeps pointers into the tuple it unmarshalled until its
  next call consumes that tuple.

## Modules

| module | models | state | actions |
|---|---|---|---|
| `ExecStreamBuf` | the buffer accessor (spec 4.3), as operators on a record | state, tuples, consumed bytes, pending flag | produceTuples, markEOS, consumeData, unmarshalTuple, consumeTuple, demandData |
| `TupleStreamFetch` | `tupleStreamFetch`, `tupleStreamTransformFetch`, `CLOSE_ABORT` | buffer, tuples produced, aborted, client outcome, bytes received by Java, last return value | ProduceBatch, ProduceEOS, FetchEOS, FetchData, FetchAborted, TransformFetch, CloseAbort |
| `JniEnv` | `JniEnvRef`, `JniEnvAutoRef`, `JniExceptionChecker`, `JniLocalRefReaper`, `handleExcn`, `JavaExcn` | per thread: attached, stack of native frames (entry with a try / bare entry with none / auto ref / reaper, with `needDetach`), a `JavaExcn` unwinding, local refs, suppressDetach used; whether the process has terminated | EnterNativeMethod, EnterNativeMethodNoTry, JNI_OnLoad, JniEnvAutoRef, suppressDetach, JniCall(raises), JniLocalRefReaper, FrameExit, Unwind, handleExcn, EscapeNativeMethod |
| `LbmSegmentReader` | `init`, `readBitmapSegTuple`, `advanceSegment` | buffer, reader fields (startRID, byteSegOffset, byteSegLen, zeroBytes, singleton, descriptor position), entries seen | ProduceBatch, ProduceEOS, readBitmapSegTuple, advanceSegment |
| `StreamGraphHandle` | `tupleStreamGraphOpen`, `CLOSE_RESULT`, `CLOSE_DEALLOCATE` | handle alive, graph open, runtime-context ref, live global refs, txn, delegates, scheduler running | tupleStreamGraphOpen(h, txn, outcome), CloseResult, CloseDeallocate |
| `JniHandles` | object and execution handles, `handleCount`, handle tracing, `cancelExecution` from another thread | object slots and execution handles by address, live global refs, count, object handles freed but not yet counted down, each canceller's resolved handle, JniUtil phase, trace flags, creates minus deletes traced per address | new/setObjectHandle, deleteObjectHandle (free) and deleteObjectHandleDecrement (count and trace), new/deleteExecutionHandle, getExecutionHandleFromLong + cancelExecution, configure, shutdown |
| `CalcInit` | `CalcInit::instance()` | `_instance`, CalcInits allocated, times each registration ran, per-caller pc, lock | Call, Check, NewInstance, Register (one per registration call), Return |
| `PointerInstructions` | GETS/GETMS: signatures, `registerInstructions`, `create`, `exec` | (operators only) | — |
| `CalcPrograms` | `CalcInit` composed with the pointer instructions it registers, and a caller assembling and running GETS; GETMS | `CalcInit`'s state, instruction table, per caller: phase, program, pc, operand, results; a failed lookup | Call, Check, NewInstance, Register, Return, Assemble(type, value), Exec |
| `ColumnGenerators` | the seven stateful column generators behind a `CompositeExecStreamGenerator` | constructor arguments, each generator's fields, `currentRow`/`currentCol`, values returned per column | Produce: `generateValue` runs the composite's asserts and the column's `next()` (DupNext, DupRepNext, RepNext, MixedNext, StairNext, SeqNext, PoissonNext with GenerateBatch) |
| `PermutationGenerator` | the `PermutationGenerator` constructors and `generateValue` | constructor arguments, `values`, rows produced | Init runs the constructor (every outcome of `random_shuffle`), Produce |

### Correspondence with the code

- Each JNI call is one atomic action: the Java caller blocks in it, and other
  threads act between calls. There are three exceptions:
  - `deleteObjectHandle` is split after `delete pGlobalRef`: the count and
    the trace line come in a second step, and another thread's
    `newObjectHandle` can reuse the address in between.
  - `cancelExecution` is split into resolving the jlong
    (`getExecutionHandleFromLong`) and the store. A `deleteExecutionHandle`
    of another thread can fall between the two.
  - `CalcInit::instance()` is split at each registration call.
- **C++ exceptions.** In `TupleStreamFetch` and `StreamGraphHandle`, an
  exception inside a JNI call becomes a Java exception (`handleExcn`) and the
  call returns. `JniEnv` models that path frame by frame: each destructor
  runs as the `JavaExcn` unwinds through it. A failed `assert` ends the
  process; the model records it as an outcome.
- **Composition.**
  - `TupleStreamFetch` and `LbmSegmentReader` compose `ExecStreamBuf`
    through a named `INSTANCE`.
  - `CalcPrograms` composes `CalcInit` and `PointerInstructions`: the
    instruction table a program looks up is what the registration calls
    have filled.
  - `MCExecStreamGenerators` runs the column generators and then the
    permutation generator: `~ENABLED CG!Next /\ PG!Next`.
- **Code not in the tree.** `~StreamGraphHandle` is not in the
  repository, so `CloseDeallocate` may or may not delete the runtime-context
  ref; no property depends on which. `JniUtil.cpp` is missing too: attach,
  detach, `configure`, `shutdown` and `traceHandleCount` follow the contracts
  `JniUtil.h` documents.
- **Memory reuse.** `new` may return any free address in `JniHandles`, one
  freed earlier included. A store through a stale jlong therefore lands on
  freed memory, or on another live handle, and is modelled as a
  nondeterministic overwrite.

## Runs

| run | module / cfg | result | what it shows |
|---|---|---|---|
| fetch | `MCTupleStreamFetch` | pass (342 states) | 6 two-byte tuples in batches of 1-3, Java arrays of 1 and 3 bytes, and `isConsumptionPossible` needing one byte. `NoLostOrDuplicatedBytes`: Java's bytes followed by the buffer's bytes are exactly what was produced. `EOSOnlyWhenComplete`: a fetch returns 0 only after every byte arrived. `NoFetchAssertionFailure`: the asserts at lines 129/132/134/171/173 hold. `FetchLoopEnds`: the fetch loop ends, with or without a `CLOSE_ABORT`. |
| fetch_tuple_granule | `MCTupleStreamFetch` / `MCTupleStreamFetchTupleGranule.cfg` | violation | The fetch run with `isConsumptionPossible` meaning "a whole tuple" (spec 4.3). A 1-byte fetch leaves half a tuple, and the next fetch fails the assert at line 129. |
| bitmap_reader | `MCLbmSegmentReader` | pass (122 states) | Seven entries (singletons at RID 7 and 71, descriptors with trailing zero bytes) in batches of 1-3. `ReaderTupleStable`: the reader's entry stays pending at the front of the buffer while it is used. `ReadsEachEntryOnceInOrder`: each entry is read once, in order. `ReaderReachesEOS`: the reader reaches EOS. |
| jni_env | `MCJniEnv` | pass (1,530 states) | One Java thread and one Fennel thread, up to 3 nested frames and 2 local refs. `EnvUsedOnlyWhenAttached`: no JNI call runs on a detached thread, through nested auto refs, `suppressDetach`, reapers and `JavaExcn` unwinding. |
| jni_no_try | `MCJniEnv` / `MCJniEnvNoTry.cfg` | violation | `NoExceptionEscapesNativeMethod`: a JNI call raising in a native method with no `try` throws a `JavaExcn` out of the `extern "C"` function. |
| graph_handle | `MCStreamGraphHandle` | pass (~21k states) | Three graphs: two on the database's shared scheduler, one with its own. Two txns; open succeeds or throws at either point. `NoOrphanedGlobalRef`: every live global ref is some live handle's context. `OpenGraphScheduled`: an open graph's scheduler runs, whatever the other holders of a shared scheduler do. |
| jni_handles | `MCJniHandles` | pass (~1.2M states, ~45 s) | One object and null, three addresses, three global refs, one canceller serialised with deletion. `HandleCountExact`: `getHandleCount` equals the live handles plus those freed but not yet counted down. `GlobalRefsOwnedByHandles`: the live global refs are exactly those in live object handles. `TraceClosedBalanced`: once tracing has ended, no traced handle is left without its delete line. |
| jni_cancel_race | `MCJniHandles` / `MCJniHandlesCancel.cfg` | violation | `CancelTargetLive`: with no ordering between cancel and delete, `cancelExecution` stores through a handle that has been deleted. |
| jni_trace_reuse | `MCJniHandles` / `MCJniHandlesTrace.cfg` | violation | `TraceShowsAddressOnce`: an address is traced as created twice before it is deleted once. |
| calc_init | `MCCalcPrograms` | pass (~6k states) | Two callers, two calls each, serialised by a lock, as the code's "Not thread safe" comment requires; two array types; null and non-null pointer operands. `RegisteredOnce`: one CalcInit, each table registered once. `AssembledProgramsFindInstructions`: GETS and GETMS are found for every array type. `PointerResultsConsistent`: results are null exactly for a null operand, and GETS ≤ GETMS. |
| exec_stream_generators | `MCExecStreamGenerators` | pass (~277k states) | Nine rows over seven columns with two or three argument sets per generator, then the permutation generator with three rows and partitions of 2, 3 and 4. `NoGeneratorAssertionFailure`: the composite's asserts (across the `uint(-1)+1` wrap) and the Poisson batch assert hold. `ColumnsFollowDocumentedSequences`: the generators return what their comments describe (MixedDup is checked against a recursive definition). `PoissonAscending`: values ascend across batch boundaries. `RowsArePartitionedPermutation`: the rows are a permutation, each within its partition. |
| permutation_coverage | `MCPermutationGenerator` / `MCPermutationGeneratorCoverage.cfg` | violation | `EveryPartitionPermutationPossible`: the constructor cannot produce every within-partition arrangement. |

### Mutants

Every property of a passing run has a mutant in `PROJECT.json`. A mutant is a
plausible bug in a mapped definition, and TLC finds it under the run's cfg.
Examples:

- a nested auto ref that always detaches;
- a frame end that drops a local ref whatever the frame;
- `consumeData` that does not return an empty buffer to UNDERFLOW;
- a scheduler stopped without the `unique()` test;
- an old global ref not deleted on reopen;
- a delete that never decrements the handle count;
- shutdown closing the trace while handles are live;
- a register loop that skips the last array type;
- GETS and GETMS swapped;
- a reader that does not check for EOS.

### Deadlock

Deadlock checking is off only where the system really stops:

- a fetch loop that has ended;
- a reader at EOS;
- a terminated process, or a Fennel thread whose `JavaExcn` left its last
  frame;
- handles all deallocated, or the bounds on refs reached;
- a mock producer that has emitted its last row;
- callers of `CalcInit::instance()` that have made their last call and run
  their last program.

It is on for `jni_handles`: freed addresses are reused, so some call is
always possible.

## Findings

1. **Fetch versus "a tuple's worth"** (`NativeMethods.cpp:129`).
   `tupleStreamFetch` copies at most the Java array's length, which can end
   inside a tuple. On the next call it asserts `isConsumptionPossible()` as
   soon as `readStream` returns. The spec (4.3) defines
   `isConsumptionPossible()` as "at least one tuple's worth". Under that
   definition the fragment fails the assert. The code is correct only under
   the byte-granular reading of the spec's section 8 scenario. Run
   `fetch_tuple_granule` shows the violation.
2. **Partition shuffle misses the last row** (`ExecStreamGenerator.h:117`).
   `random_shuffle`'s end is exclusive, so `[start, start + partitionSize - 1)`
   never moves the last value of a partition. Run `permutation_coverage`
   shows it.
3. **cancelExecution against deleteExecutionHandle** (`NativeMethods.cpp:519`).
   `cancelExecution` casts the jlong and stores `aborted` with no check or
   lock. A delete between the cast and the store makes it a write to freed
   memory, or to another statement's handle at the reused address. The spec
   (section 5) requires cancellation to be safe. Neither the spec nor the
   code says that Java must serialise the two. Run `jni_cancel_race` shows
   the race; run `jni_handles` shows that with that discipline everything
   holds.
4. **Handle trace out of order** (`NativeMethods.cpp:457`).
   `deleteObjectHandle` runs `delete pGlobalRef` before
   `decrementHandleCount` writes the delete line. A concurrent
   `newObjectHandle` can be given the freed address and trace its create
   first. The trace then shows the address created twice before one delete.
   `deleteExecutionHandle` decrements first and does not have this problem.
   Run `jni_trace_reuse` shows it.
5. **Exceptions escaping native methods** (`NativeMethods.cpp:421`, `:433`).
   The spec says errors crossing the JNI boundary are converted into the
   host's exception type. `getAccessorXmiForTupleDescriptor` and the three
   object-handle entry points make JNI calls with no `try` ("TODO:  excn
   handling?"). A pending Java exception becomes a `JavaExcn` thrown out of
   an `extern "C"` function, and `std::terminate` runs. Run `jni_no_try`
   shows it.

## Bounds, fairness, abstractions

- **Bounds.** Each bound is a named constant in the MC module. Each is chosen
  so that the cases it is there for occur:
  - arrays are smaller than a tuple and cross batch boundaries;
  - singletons sit on both sides of a byte boundary;
  - a handle is reopened after a close and after a failed open;
  - a handle's address is freed and reused while a cancel is under way,
    and between a delete and its count-down;
  - an auto ref is nested in a native method and in another auto ref;
  - a `JavaExcn` unwinds an auto ref that attached its thread;
  - a `JavaExcn` unwinds a `JniLocalRefReaper` (two local refs);
  - every array type is assembled with null and non-null operands.
- **Integers.** `uint` is modelled modulo `2^UintWidth`. TLC's integers
  stop at 2^31, so the generators' run takes 16 bits. The wrap at
  `uint(-1) + 1` behaves the same at any width.
- **Randomness.** `random_shuffle` and the Poisson `rng` may return any
  permutation or any value in range. Every seed's outcome is covered.
- **Data abstraction.**
  - A tuple is a number of TupleBytes bytes; a byte is `<<tuple, offset>>`.
  - A bitmap entry is `[rid, bitmapLen, desc]`.
  - Global refs are fresh numbers; handle addresses are a small reusable
    set.
  - A pointer register is Null or `[length, storage]`.
  - `JniUtilParams` is reduced to whether a trace file is named.
- **Fairness.**
  - `TupleStreamFetch` assumes weak fairness of the producer (the scheduler
    runs a stream whose output underflows) and of the Java client (it keeps
    calling fetch until one returns 0). Nobody is obliged to abort.
  - `LbmSegmentReader` assumes weak fairness of the producer and of the
    reader's stream, which the single-threaded DfsTree scheduler runs in
    turn.
  - `JniEnv` assumes no fairness: nothing obliges a thread to leave native
    code.

## Not modelled, and why

- **Outside the repository.**
  - `JniUtil.cpp` is not in the repository. Attach, detach,
    `checkExceptions`, `handleExcn`, `configure`, `shutdown` and
    `traceHandleCount` follow the contracts documented in `JniUtil.h`.
  - `~StreamGraphHandle` is not in the repository; see above.
  - `readSegDescAndAdvance` and `ExecStreamBufAccessor` are modelled from
    their contracts (spec 4.3).
  - Whether the database handle holds the shared scheduler is the model's
    `OwnerHeld`.
  - The command interpreter behind `executeJavaCmd` is missing, so only
    that entry point's frame and catch are modelled.
- **Components left out:**
  - `Segment.h`: an abstract interface whose operations are pure virtual;
    the concrete segments are not in the repository.
  - `LcsClusterAppendExecStream.h`: member and method declarations only;
    the `.cpp` with the control flow is not in the repository.
  - the stateless test generators (Ramp, RampPartitioned, RampDuplicate,
    Const, DynamicParam, Random, and `StairCaseExecStreamGenerator`), each
    a function of its arguments;
  - XMI formatting, which is string building;
  - the header-only flat-file stream, which is declarations with no
    behaviour;
  - `NativeInstruction`, which is only a constructor assert and has no
    subclass here;
  - the remaining exception classes and `FileSystem.h`.

  `PROJECT.json` gives the reason for each.
- **Code left unmapped in modelled files.**
  - `JniUtil.h`: its static `jmethodID`/`jclass` members and the reflection
    helpers (`getClassName`, `toStdString`, `getIter`, `lookUpEnum`) are
    declarations with no state.
  - `IntegralPointerInstruction.h`: `describe`, `longName` and the GETMS
    copies of code the GETS definitions already translate.
- **Hazards with no property:** concurrent readers of an object handle
  during `setObjectHandle`.

## Plan for later sittings

1. `tupleStreamRestart` / `tupleStreamSetRunnable` / `tupleStreamGraphGetInputStreams`
   in `StreamGraphHandle`. They need a model of the scheduler's runnable set
   to say anything.
2. `CLOSE_ABORT` on a handle that `CLOSE_DEALLOCATE` has deleted: the same
   stale-jlong pattern as `cancelExecution`.
