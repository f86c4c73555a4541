------------------------------ MODULE JniHandles ------------------------------
(***************************************************************************)
(* The JNI object and execution handles of fennel/farrago/NativeMethods.cpp *)
(* and the handle count of fennel/farrago/JniUtil.h.                       *)
(*                                                                         *)
(* An object handle is a heap-allocated jobject slot holding a global ref  *)
(* to a Java object, or NULL: newObjectHandle creates the slot (and a      *)
(* global ref when the object is not null), setObjectHandle deletes the    *)
(* slot's global ref and stores a new one, deleteObjectHandle deletes the  *)
(* ref and the slot, and then, as its last statement, decrements the       *)
(* count: in between, the slot's address is free and another thread's new *)
(* may return it.  An execution handle carries the aborted flag that    *)
(* cancelExecution sets.  Each new/delete moves JniUtil::handleCount, an   *)
(* AtomicCounter, which getHandleCount reports to Java (the Java side      *)
(* checks it for leaked handles).                                          *)
(*                                                                         *)
(* A handle is the address new returned, passed to Java as a jlong; new   *)
(* may return any address not in use, one freed earlier included.          *)
(* cancelExecution is called by a Java thread other than the one running   *)
(* and closing the statement: it casts the jlong back to a reference       *)
(* (getExecutionHandleFromLong) and then stores aborted through it, with   *)
(* no check that the handle is still allocated.  CancelSerialised says     *)
(* whether the Java side lets deleteExecutionHandle run only when no       *)
(* cancel of that handle is under way.                                     *)
(*                                                                         *)
(* JNI handle tracing: JniUtil::configure enables it when the parameters   *)
(* name a trace file, and every increment/decrementHandleCount then writes *)
(* a line for the handle's address to handleCountTraceStream, which pairs  *)
(* each delete with a create by address.  shutdown()                       *)
(* ends handle tracking: the stream is closed, or, while handles are still *)
(* live, closeHandleCountTraceOnZero makes the decrement that brings the   *)
(* count to 0 close it.                                                    *)
(***************************************************************************)
EXTENDS Integers, FiniteSets

CONSTANTS
    Objects,     \* non-null Java objects passed in
    NULL,        \* the null jobject
    MaxHandles,  \* bound on the handles allocated
    MaxRefs,     \* bound on the global refs created
    Cancellers,  \* Java threads that cancel statements
    NoHandle,    \* a canceller with no cancel under way
    CancelSerialised

ASSUME NULL \notin Objects
ASSUME CancelSerialised \in BOOLEAN

HandleIds == 1 .. MaxHandles
RefIds == 1 .. MaxRefs

VARIABLES
    objSlot,      \* objSlot[h]: the global ref in live object handle h
    execAborted,  \* execAborted[h]: the aborted flag of live execution handle h
    liveRefs,     \* global refs created and not deleted
    nextRef,
    handleCount,  \* JniUtil::handleCount
    cancelling,   \* cancelling[t]: the handle canceller t has resolved
    jniPhase,     \* "init" until configure, "configured", then "shutdown"
    traceEnabled, \* JniUtil::traceHandleCountEnabled
    closeOnZero,  \* JniUtil::closeHandleCountTraceOnZero
    traceOpen,    \* handleCountTraceStream is open
    traceBalance, \* traceBalance[a]: create lines minus delete lines the
                  \* trace shows for address a
    pendingDecrement \* addresses of object handles deleteObjectHandle has
                     \* freed and not yet uncounted

countVars == <<handleCount, traceOpen, traceBalance>>
configVars == <<jniPhase, traceEnabled, closeOnZero>>
vars == <<objSlot, execAborted, liveRefs, nextRef, cancelling, pendingDecrement,
          countVars, configVars>>

TypeOK ==
    /\ DOMAIN objSlot \subseteq HandleIds
    /\ \A h \in DOMAIN objSlot : objSlot[h] \in RefIds \cup {NULL}
    /\ DOMAIN execAborted \subseteq HandleIds
    /\ \A h \in DOMAIN execAborted : execAborted[h] \in BOOLEAN
    /\ liveRefs \subseteq RefIds
    /\ nextRef \in 1 .. MaxRefs + 1
    /\ handleCount \in 0 .. 2 * MaxHandles
    /\ cancelling \in [Cancellers -> HandleIds \cup {NoHandle}]
    /\ jniPhase \in {"init", "configured", "shutdown"}
    /\ traceEnabled \in BOOLEAN /\ closeOnZero \in BOOLEAN /\ traceOpen \in BOOLEAN
    /\ traceBalance \in [HandleIds -> -2 .. 2]
    /\ pendingDecrement \subseteq HandleIds

Init ==
    /\ objSlot = [h \in {} |-> NULL]
    /\ execAborted = [h \in {} |-> FALSE]
    /\ liveRefs = {}
    /\ nextRef = 1
    /\ handleCount = 0
    /\ cancelling = [t \in Cancellers |-> NoHandle]
    /\ jniPhase = "init"
    /\ traceEnabled = FALSE
    /\ closeOnZero = FALSE
    /\ traceOpen = FALSE
    /\ traceBalance = [a \in HandleIds |-> 0]
    /\ pendingDecrement = {}

(* The addresses new can return: those of no live handle.                  *)
FreeAddresses == HandleIds \ (DOMAIN objSlot \cup DOMAIN execAborted)

(* JniUtil::getHandleCount, which the native getHandleCount returns.       *)
getHandleCount == handleCount

(* JniUtilParams, reduced to what configure reads from it: whether        *)
(* jniHandleTraceFile names a file.                                        *)
JniUtilParams == BOOLEAN

(* traceHandleCount(pAction, pType, pHandle): a "create" or "delete" line  *)
(* for address a.                                                          *)
traceHandleCount(action, a) ==
    [traceBalance EXCEPT ![a] = IF action = "create" THEN @ + 1 ELSE @ - 1]

(* incrementHandleCount(pType, pHandle): count the handle and, when        *)
(* tracing, write its creation to the trace.                               *)
incrementHandleCount(a) ==
    /\ handleCount' = handleCount + 1
    /\ traceBalance' = IF traceEnabled /\ traceOpen THEN traceHandleCount("create", a)
                                                  ELSE traceBalance
    /\ UNCHANGED traceOpen

(* decrementHandleCount(pType, pHandle): uncount it, trace its deletion,   *)
(* and close the trace if shutdown asked for that at count 0.             *)
decrementHandleCount(a) ==
    /\ handleCount' = handleCount - 1
    /\ traceBalance' = IF traceEnabled /\ traceOpen THEN traceHandleCount("delete", a)
                                                  ELSE traceBalance
    /\ traceOpen' = IF closeOnZero /\ handleCount - 1 = 0 THEN FALSE ELSE traceOpen

(* f with h added (or overwritten) / removed.                              *)
Extend(f, h, v) == [x \in DOMAIN f \cup {h} |-> IF x = h THEN v ELSE f[x]]
Drop(f, h) == [x \in DOMAIN f \ {h} |-> f[x]]

(* The global ref NewGlobalRef(obj) returns: none for a null object.      *)
NewRef(obj) == IF obj = NULL THEN NULL ELSE nextRef
RefsAfterNew(obj) == IF obj = NULL THEN liveRefs ELSE liveRefs \cup {nextRef}
NextRefAfterNew(obj) == IF obj = NULL THEN nextRef ELSE nextRef + 1

-----------------------------------------------------------------------------
(* new jobject, then the global ref stored in it; a is the address new    *)
(* returned.                                                               *)
newObjectHandle(obj, a) ==
    /\ a \in FreeAddresses
    /\ obj # NULL => nextRef <= MaxRefs
    /\ objSlot' = Extend(objSlot, a, NewRef(obj))
    /\ liveRefs' = RefsAfterNew(obj)
    /\ nextRef' = NextRefAfterNew(obj)
    /\ incrementHandleCount(a)
    /\ UNCHANGED <<configVars, execAborted, cancelling, pendingDecrement>>

(* deleteObjectHandle up to its last statement: DeleteGlobalRef on the    *)
(* slot's ref, then delete pGlobalRef.  A second delete of an address      *)
(* reused meanwhile waits for the first one's decrement.                   *)
deleteObjectHandle(h) ==
    /\ h \in DOMAIN objSlot
    /\ h \notin pendingDecrement
    /\ liveRefs' = liveRefs \ {objSlot[h]}
    /\ objSlot' = Drop(objSlot, h)
    /\ pendingDecrement' = pendingDecrement \cup {h}
    /\ UNCHANGED <<configVars, execAborted, nextRef, countVars, cancelling>>

deleteObjectHandleDecrementNoCount(h) ==
    /\ h \in pendingDecrement
    /\ pendingDecrement' = pendingDecrement \ {h}
    /\ UNCHANGED <<configVars, objSlot, execAborted, liveRefs, nextRef, countVars,
                   cancelling>>

(* deleteObjectHandle's last statement:                                    *)
(* decrementHandleCount(JAVAOBJECTHANDLE_TYPE_STR, pGlobalRef), with the   *)
(* address of the slot it has deleted.                                     *)
deleteObjectHandleDecrement(h) ==
    /\ h \in pendingDecrement
    /\ pendingDecrement' = pendingDecrement \ {h}
    /\ decrementHandleCount(h)
    /\ UNCHANGED <<configVars, objSlot, execAborted, liveRefs, nextRef, cancelling>>

setObjectHandleCounts(h, obj) ==
    /\ h \in DOMAIN objSlot
    /\ obj # NULL => nextRef <= MaxRefs
    /\ liveRefs' = (liveRefs \ {objSlot[h]}) \cup
                   (IF obj = NULL THEN {} ELSE {nextRef})
    /\ objSlot' = [objSlot EXCEPT ![h] = NewRef(obj)]
    /\ nextRef' = NextRefAfterNew(obj)
    /\ incrementHandleCount(h)
    /\ UNCHANGED <<configVars, execAborted, cancelling, pendingDecrement>>

setObjectHandleKeepOld(h, obj) ==
    /\ h \in DOMAIN objSlot
    /\ obj # NULL => nextRef <= MaxRefs
    /\ liveRefs' = RefsAfterNew(obj)
    /\ objSlot' = [objSlot EXCEPT ![h] = NewRef(obj)]
    /\ nextRef' = NextRefAfterNew(obj)
    /\ UNCHANGED <<configVars, execAborted, countVars, cancelling, pendingDecrement>>

setObjectHandle(h, obj) ==
    /\ h \in DOMAIN objSlot
    /\ obj # NULL => nextRef <= MaxRefs
    /\ liveRefs' = (liveRefs \ {objSlot[h]}) \cup
                   (IF obj = NULL THEN {} ELSE {nextRef})
    /\ objSlot' = [objSlot EXCEPT ![h] = NewRef(obj)]
    /\ nextRef' = NextRefAfterNew(obj)
    /\ UNCHANGED <<configVars, execAborted, countVars, cancelling, pendingDecrement>>

newExecutionHandle(a) ==
    /\ a \in FreeAddresses
    /\ execAborted' = Extend(execAborted, a, FALSE)
    /\ incrementHandleCount(a)
    /\ UNCHANGED <<configVars, objSlot, liveRefs, nextRef, cancelling, pendingDecrement>>

(* Under CancelSerialised the Java side deletes a handle only when no     *)
(* cancel of it is under way.                                              *)
deleteExecutionHandle(h) ==
    /\ h \in DOMAIN execAborted
    /\ CancelSerialised => \A t \in Cancellers : cancelling[t] # h
    /\ execAborted' = Drop(execAborted, h)
    /\ decrementHandleCount(h)
    /\ UNCHANGED <<configVars, objSlot, liveRefs, nextRef, cancelling, pendingDecrement>>

(* cancelExecution, first step: Java passes the jlong of a statement it   *)
(* is running and getExecutionHandleFromLong casts it to a reference.      *)
getExecutionHandleFromLong(t, h) ==
    /\ cancelling[t] = NoHandle
    /\ h \in DOMAIN execAborted
    /\ cancelling' = [cancelling EXCEPT ![t] = h]
    /\ UNCHANGED <<configVars, objSlot, execAborted, liveRefs, nextRef, countVars,
                   pendingDecrement>>

(* cancelExecution, second step: execHandle.aborted = true.  The store     *)
(* goes to whatever now lives at the address: the handle resolved, an      *)
(* execution handle new has since placed there, or freed or reused memory *)
(* of an object handle, whose jobject it overwrites with any value.        *)
cancelExecution(t) ==
    LET h == cancelling[t] IN
    /\ h # NoHandle
    /\ cancelling' = [cancelling EXCEPT ![t] = NoHandle]
    /\ execAborted' = IF h \in DOMAIN execAborted
                      THEN [execAborted EXCEPT ![h] = TRUE] ELSE execAborted
    /\ objSlot' \in IF h \in DOMAIN objSlot
                    THEN {[objSlot EXCEPT ![h] = v] : v \in RefIds \cup {NULL}}
                    ELSE {objSlot}
    /\ UNCHANGED <<configVars, liveRefs, nextRef, countVars, pendingDecrement>>

(* JniUtil::configure(params): tracing is enabled, and the trace file      *)
(* opened, iff params.jniHandleTraceFile is not empty.                     *)
configure(traceFile) ==
    /\ jniPhase = "init"
    /\ jniPhase' = "configured"
    /\ traceEnabled' = traceFile
    /\ traceOpen' = traceFile
    /\ UNCHANGED <<objSlot, execAborted, liveRefs, nextRef, cancelling,
                   pendingDecrement, handleCount, traceBalance, closeOnZero>>

shutdownCloseAtOnce ==
    /\ jniPhase = "configured"
    /\ jniPhase' = "shutdown"
    /\ traceOpen' = FALSE
    /\ UNCHANGED <<objSlot, execAborted, liveRefs, nextRef, cancelling,
                   pendingDecrement, handleCount, traceBalance, traceEnabled,
                   closeOnZero>>

(* JniUtil::shutdown(): with tracing on, the trace is closed now if no     *)
(* handle is live, and otherwise when the count next reaches 0.           *)
shutdown ==
    /\ jniPhase = "configured"
    /\ jniPhase' = "shutdown"
    /\ IF traceEnabled /\ handleCount > 0
       THEN /\ closeOnZero' = TRUE /\ UNCHANGED traceOpen
       ELSE /\ traceOpen' = FALSE /\ UNCHANGED closeOnZero
    /\ UNCHANGED <<objSlot, execAborted, liveRefs, nextRef, cancelling,
                   pendingDecrement, handleCount, traceBalance, traceEnabled>>

Next ==
    \/ \E f \in JniUtilParams : configure(f)
    \/ shutdown
    \/ \E obj \in Objects \cup {NULL}, a \in HandleIds : newObjectHandle(obj, a)
    \/ \E a \in HandleIds : newExecutionHandle(a)
    \/ \E h \in HandleIds :
          \/ deleteObjectHandle(h)
          \/ deleteObjectHandleDecrement(h)
          \/ \E obj \in Objects \cup {NULL} : setObjectHandle(h, obj)
          \/ deleteExecutionHandle(h)
    \/ \E t \in Cancellers :
          \/ \E h \in HandleIds : getExecutionHandleFromLong(t, h)
          \/ cancelExecution(t)

Spec == Init /\ [][Next]_vars

-----------------------------------------------------------------------------
(* getHandleCount reports exactly the object and execution handles that    *)
(* are allocated and not deleted, whatever mix of new, set and delete,     *)
(* counting an object handle until its deleteObjectHandle has run to its   *)
(* end.                                                                    *)
HandleCountExact ==
    getHandleCount = Cardinality(DOMAIN objSlot) + Cardinality(DOMAIN execAborted)
                     + Cardinality(pendingDecrement)

(* The live global refs are exactly the non-null refs in live object       *)
(* handles: setObjectHandle and deleteObjectHandle release the ref they    *)
(* replace, whether the old or the new object is null.                     *)
GlobalRefsOwnedByHandles ==
    liveRefs = {objSlot[h] : h \in DOMAIN objSlot} \ {NULL}

(* When the handle trace is closed, every handle whose creation it        *)
(* recorded has its deletion recorded too: shutdown keeps the trace open  *)
(* until the last live handle, created by any thread before or after      *)
(* configure, is deleted.                                                  *)
TraceClosedBalanced ==
    (traceEnabled /\ ~traceOpen) => \A a \in HandleIds : traceBalance[a] <= 0

(* The trace pairs a delete line with the create line of the handle that   *)
(* lived at that address: it never shows a second create for an address    *)
(* before the delete of the handle that held it before, even when one      *)
(* thread's deleteObjectHandle frees a slot that another thread's          *)
(* newObjectHandle or newExecutionHandle gets back from new.               *)
TraceShowsAddressOnce == \A a \in HandleIds : traceBalance[a] <= 1

(* A cancel under way points at an execution handle still allocated: the  *)
(* store of cancelExecution never lands in memory deleteExecutionHandle    *)
(* has freed, possibly reused by another statement's handle.               *)
CancelTargetLive ==
    \A t \in Cancellers : cancelling[t] # NoHandle => cancelling[t] \in DOMAIN execAborted

=============================================================================
