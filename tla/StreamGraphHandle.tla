-------------------------- MODULE StreamGraphHandle --------------------------
(***************************************************************************)
(* The lifecycle of the stream graph handles the Java side drives through  *)
(* fennel/farrago/NativeMethods.cpp:                                       *)
(*                                                                         *)
(*  - tupleStreamGraphOpen(hGraph, hTxn): replaces the handle's global ref *)
(*    to the Java runtime context, sets the txn, points the handle's two   *)
(*    DynamicDelegatingSegments at the txn's snapshot and read-committed   *)
(*    snapshot segments (when snapshots are enabled), sets the error       *)
(*    target, asks the resource governor for resources, opens the graph    *)
(*    and starts the scheduler if the handle is its only holder.  Any of   *)
(*    requestResources and open may throw; the rest is then skipped.       *)
(*  - tupleStreamGraphClose(CLOSE_RESULT): stops the scheduler if only     *)
(*    this handle holds it, closes the graph, deletes the global ref.      *)
(*  - tupleStreamGraphClose(CLOSE_DEALLOCATE): stops the scheduler if only *)
(*    this handle holds it, removes the graph from it, deletes the handle. *)
(* (CLOSE_ABORT is modelled with the fetch loop in TupleStreamFetch.)      *)
(*                                                                         *)
(* A scheduler is held by pScheduler shared pointers: those of the handles *)
(* using it and, for the database's shared scheduler, the database handle, *)
(* which has started it.  pScheduler.unique() is "one holder".             *)
(***************************************************************************)
EXTENDS Naturals, FiniteSets

CONSTANTS
    Handles,            \* stream graph handles
    Txns,               \* transactions a graph can be opened in
    SchedulerOf,        \* SchedulerOf[h]: the scheduler handle h holds
    OwnerHeld,          \* schedulers the database handle also holds
    SnapshotsEnabled,   \* pDb->areSnapshotsEnabled()
    MaxRefs,            \* bound on the global refs NewGlobalRef creates
    NULL                \* the null jobject / no txn

Schedulers == {SchedulerOf[h] : h \in Handles}
RefIds == 1 .. MaxRefs

ASSUME NULL \notin RefIds \cup Txns
ASSUME SnapshotsEnabled \in BOOLEAN

(* Where tupleStreamGraphOpen stops: it returns normally, or the resource  *)
(* governor or the graph's open throws (handleExcn, return).               *)
OpenOutcomes == {"ok", "requestResourcesThrows", "openThrows"}

VARIABLES
    alive,        \* the handle has not been deleted (CLOSE_DEALLOCATE)
    graphOpen,    \* pExecStreamGraph->open() has completed and not closed
    ctxRef,       \* javaRuntimeContext
    liveRefs,     \* global refs created and not yet deleted
    nextRef,      \* the global ref NewGlobalRef will return next
    txnOf,        \* the txn set by setTxn
    delegate,     \* the snapshot segments the two delegating segments use
    running       \* running[s]: scheduler s started and not stopped

vars == <<alive, graphOpen, ctxRef, liveRefs, nextRef, txnOf, delegate,
          running>>

TypeOK ==
    /\ alive \in [Handles -> BOOLEAN]
    /\ graphOpen \in [Handles -> BOOLEAN]
    /\ ctxRef \in [Handles -> RefIds \cup {NULL}]
    /\ liveRefs \subseteq RefIds
    /\ nextRef \in 1 .. MaxRefs + 1
    /\ txnOf \in [Handles -> Txns \cup {NULL}]
    /\ delegate \in [Handles -> [snapshot: Txns \cup {NULL},
                                readCommitted: Txns \cup {NULL}]]
    /\ running \in [Schedulers -> BOOLEAN]

(* Handles as prepared by the command interpreter; the database's shared   *)
(* scheduler is already running, a handle's own one is not.                *)
Init ==
    /\ alive = [h \in Handles |-> TRUE]
    /\ graphOpen = [h \in Handles |-> FALSE]
    /\ ctxRef = [h \in Handles |-> NULL]
    /\ liveRefs = {}
    /\ nextRef = 1
    /\ txnOf = [h \in Handles |-> NULL]
    /\ delegate = [h \in Handles |-> [snapshot |-> NULL, readCommitted |-> NULL]]
    /\ running = [s \in Schedulers |-> s \in OwnerHeld]

(* pScheduler.unique() for handle h.                                       *)
Holders(s) == {g \in Handles : alive[g] /\ SchedulerOf[g] = s}
unique(h) ==
    Cardinality(Holders(SchedulerOf[h])) + (IF SchedulerOf[h] \in OwnerHeld THEN 1 ELSE 0) = 1

StopAlways(h) == running' = [running EXCEPT ![SchedulerOf[h]] = FALSE]

StopIfUnique(h) ==
    running' = IF unique(h) THEN [running EXCEPT ![SchedulerOf[h]] = FALSE]
                            ELSE running

-----------------------------------------------------------------------------
(* The part of tupleStreamGraphOpen that runs before anything can throw:   *)
(* the global ref is replaced, the txn set and the delegates swapped.      *)
ReplaceRuntimeContextStale(h) ==
    /\ liveRefs' = (liveRefs \ {ctxRef[h]}) \cup {nextRef}
    /\ ctxRef' = [ctxRef EXCEPT ![h] = nextRef - 1]
    /\ nextRef' = nextRef + 1

ReplaceRuntimeContextKeepOld(h) ==
    /\ liveRefs' = liveRefs \cup {nextRef}
    /\ ctxRef' = [ctxRef EXCEPT ![h] = nextRef]
    /\ nextRef' = nextRef + 1

ReplaceRuntimeContext(h) ==
    /\ liveRefs' = (liveRefs \ {ctxRef[h]}) \cup {nextRef}
    /\ ctxRef' = [ctxRef EXCEPT ![h] = nextRef]
    /\ nextRef' = nextRef + 1

SwapDelegates(h, t) ==
    delegate' = IF SnapshotsEnabled
                THEN [delegate EXCEPT ![h] = [snapshot |-> t, readCommitted |-> t]]
                ELSE delegate

(* The Java side opens a graph whose previous execution it has closed.     *)
tupleStreamGraphOpen(h, t, outcome) ==
    /\ alive[h]
    /\ ~graphOpen[h]
    /\ nextRef <= MaxRefs
    /\ ReplaceRuntimeContext(h)
    /\ txnOf' = [txnOf EXCEPT ![h] = t]
    /\ SwapDelegates(h, t)
    /\ IF outcome = "ok"
       THEN /\ graphOpen' = [graphOpen EXCEPT ![h] = TRUE]
            /\ running' = IF unique(h)
                          THEN [running EXCEPT ![SchedulerOf[h]] = TRUE]
                          ELSE running
       ELSE UNCHANGED <<graphOpen, running>>
    /\ UNCHANGED alive

CloseResult(h) ==
    /\ alive[h]
    /\ StopIfUnique(h)
    /\ graphOpen' = [graphOpen EXCEPT ![h] = FALSE]
    /\ liveRefs' = liveRefs \ {ctxRef[h]}
    /\ ctxRef' = [ctxRef EXCEPT ![h] = NULL]
    /\ UNCHANGED <<alive, nextRef, txnOf, delegate>>

(* delete &streamGraphHandle runs ~StreamGraphHandle, which is not in     *)
(* this tree: whether it deletes the javaRuntimeContext global ref is left *)
(* open (CLOSE_RESULT's DeleteGlobalRef-then-NULL suggests it may).       *)
CloseDeallocate(h) ==
    /\ alive[h]
    /\ StopIfUnique(h)
    /\ alive' = [alive EXCEPT ![h] = FALSE]
    /\ graphOpen' = [graphOpen EXCEPT ![h] = FALSE]
    /\ \/ UNCHANGED <<ctxRef, liveRefs>>
       \/ /\ liveRefs' = liveRefs \ {ctxRef[h]}
          /\ ctxRef' = [ctxRef EXCEPT ![h] = NULL]
    /\ UNCHANGED <<nextRef, txnOf, delegate>>

Next ==
    \E h \in Handles :
        \/ \E t \in Txns, o \in OpenOutcomes : tupleStreamGraphOpen(h, t, o)
        \/ CloseResult(h)
        \/ CloseDeallocate(h)

Spec == Init /\ [][Next]_vars

-----------------------------------------------------------------------------
(* Every global ref still live in the JVM is the runtime context of a      *)
(* handle: reopening a graph deletes the ref of its previous execution.    *)
NoOrphanedGlobalRef ==
    \A r \in liveRefs : \E h \in Handles : ctxRef[h] = r

(* Every open graph's scheduler is running, whether the graph has its own  *)
(* scheduler or shares the database's: closing one graph never stops a     *)
(* scheduler another open graph uses.                                      *)
OpenGraphScheduled ==
    \A h \in Handles : alive[h] /\ graphOpen[h] => running[SchedulerOf[h]]

====
