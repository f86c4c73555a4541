-------------------------------- MODULE JniEnv --------------------------------
(***************************************************************************)
(* The per-thread JNI environment of fennel/farrago/JniUtil.h as the entry *)
(* points of fennel/farrago/NativeMethods.cpp and Fennel's own threads use *)
(* it.                                                                     *)
(*                                                                         *)
(* A Java thread enters native code through an entry point: a JniEnvRef on *)
(* the JNIEnv Java passed (executeJavaCmd and the others), or a            *)
(* JniEnvAutoRef (JNI_OnLoad), around a try whose catch calls handleExcn.  *)
(* The handle entry points (newObjectHandle, deleteObjectHandle,           *)
(* setObjectHandle) make their JNI calls with no try ("TODO:  excn        *)
(* handling?"): a JavaExcn thrown there leaves the extern "C" function,    *)
(* where no C++ handler is found, and std::terminate ends the process.     *)
(* A thread created within Fennel has no JNIEnv: a JniEnvAutoRef attaches  *)
(* it (getAttachedJavaEnv) and its destructor detaches it (detachJavaEnv)  *)
(* only if that constructor did the attaching; suppressDetach keeps the    *)
(* thread attached.  Every JNI call goes through JniEnvRef::operator->,    *)
(* whose JniExceptionChecker turns a pending Java exception into a C++     *)
(* JavaExcn holding the jthrowable as a local ref.  Destructors run when   *)
(* the exception unwinds their frame.  A JniLocalRefReaper deletes the     *)
(* local ref it guards when its frame ends.  Local refs of a Java thread   *)
(* are freed when its native method returns to Java.  A Fennel thread's    *)
(* code outside its native frames is not modelled: a JavaExcn leaving its  *)
(* last frame ends its part in the model.                                  *)
(***************************************************************************)
EXTENDS Naturals, Sequences, FiniteSets

CONSTANTS
    JavaThreads,    \* threads that call native methods from Java
    FennelThreads,  \* threads created within Fennel
    MaxDepth,       \* bound on nested frames per thread
    MaxLocalRefs    \* bound on local refs per thread

Threads == JavaThreads \cup FennelThreads

(* "entry": a native method whose body is a try with handleExcn; "bare": *)
(* one with no try; "auto": a JniEnvAutoRef; "reaper": a                  *)
(* JniLocalRefReaper.                                                      *)
Frame == [kind: {"entry", "bare", "auto", "reaper"}, needDetach: BOOLEAN]

VARIABLES
    attached,     \* attached[t]: t is attached to the JVM
    frames,       \* frames[t]: t's native frames, innermost last
    excn,         \* excn[t]: a JavaExcn is unwinding t's frames
    localRefs,    \* localRefs[t]: t's live JNI local refs
    suppressed,   \* suppressed[t]: a JniEnvAutoRef of t had suppressDetach
    usedDetached, \* a JNI call has been made on a detached thread's JNIEnv
    terminated    \* a C++ exception left a native method: std::terminate

vars == <<attached, frames, excn, localRefs, suppressed, usedDetached, terminated>>

TypeOK ==
    /\ attached \in [Threads -> BOOLEAN]
    /\ frames \in [Threads -> Seq(Frame)]
    /\ excn \in [Threads -> BOOLEAN]
    /\ localRefs \in [Threads -> 0 .. MaxLocalRefs]
    /\ suppressed \in [Threads -> BOOLEAN]
    /\ usedDetached \in BOOLEAN
    /\ terminated \in BOOLEAN

(* Java threads are attached by the JVM; Fennel threads start detached.    *)
Init ==
    /\ attached = [t \in Threads |-> t \in JavaThreads]
    /\ frames = [t \in Threads |-> <<>>]
    /\ excn = [t \in Threads |-> FALSE]
    /\ localRefs = [t \in Threads |-> 0]
    /\ suppressed = [t \in Threads |-> FALSE]
    /\ usedDetached = FALSE
    /\ terminated = FALSE

Top(t) == frames[t][Len(frames[t])]
Pop(t) == [frames EXCEPT ![t] = SubSeq(@, 1, Len(@) - 1)]
Push(t, f) == [frames EXCEPT ![t] = Append(@, f)]

FrameEndsAnyFrame(t, f) ==
    /\ attached' = [attached EXCEPT ![t] = IF f.needDetach THEN FALSE ELSE @]
    /\ localRefs' = [localRefs EXCEPT ![t] = @ - 1]

(* The destructor of frame f of t: detachJavaEnv when f's constructor     *)
(* attached the thread, DeleteLocalRef for a reaper.                       *)
FrameEnds(t, f) ==
    /\ attached' = [attached EXCEPT ![t] = IF f.needDetach THEN FALSE ELSE @]
    /\ localRefs' = [localRefs EXCEPT ![t] = IF f.kind = "reaper" THEN @ - 1 ELSE @]

-----------------------------------------------------------------------------
(* JniEnvRef pEnv(pEnvInit): Java calls a native method.                   *)
EnterNativeMethod(t) ==
    /\ t \in JavaThreads
    /\ frames[t] = <<>>
    /\ frames' = Push(t, [kind |-> "entry", needDetach |-> FALSE])
    /\ UNCHANGED <<attached, excn, localRefs, suppressed, usedDetached, terminated>>

(* JniEnvRef pEnv(pEnvInit) in newObjectHandle, deleteObjectHandle,        *)
(* setObjectHandle or getAccessorXmiForTupleDescriptor: no try follows,    *)
(* and the body makes its JNI calls (NewGlobalRef, DeleteGlobalRef,        *)
(* NewStringUTF) directly through pEnv.                                    *)
EnterNativeMethodNoTry(t) ==
    /\ t \in JavaThreads
    /\ frames[t] = <<>>
    /\ frames' = Push(t, [kind |-> "bare", needDetach |-> FALSE])
    /\ UNCHANGED <<attached, excn, localRefs, suppressed, usedDetached, terminated>>

getAttachedJavaEnvAlwaysDetach(t) == TRUE

(* getAttachedJavaEnv(needDetach): attach the thread unless it is already  *)
(* attached; needDetach says whether this call attached it.               *)
getAttachedJavaEnv(t) == ~attached[t]

(* JNI_OnLoad: a JniEnvAutoRef on the loading Java thread, then the try    *)
(* around staticInitFem.                                                   *)
JNI_OnLoad(t) ==
    /\ t \in JavaThreads
    /\ frames[t] = <<>>
    /\ frames' = Push(t, [kind |-> "entry", needDetach |-> getAttachedJavaEnv(t)])
    /\ attached' = [attached EXCEPT ![t] = TRUE]
    /\ UNCHANGED <<excn, localRefs, suppressed, usedDetached, terminated>>

(* JniEnvAutoRef(): in a Fennel thread, or in a helper a native method    *)
(* calls.                                                                  *)
JniEnvAutoRef(t) ==
    /\ ~excn[t]
    /\ Len(frames[t]) < MaxDepth
    /\ t \in JavaThreads => frames[t] # <<>>
    /\ frames[t] # <<>> => Top(t).kind # "bare"
    /\ frames' = Push(t, [kind |-> "auto", needDetach |-> getAttachedJavaEnv(t)])
    /\ attached' = [attached EXCEPT ![t] = TRUE]
    /\ UNCHANGED <<excn, localRefs, suppressed, usedDetached, terminated>>

(* JniEnvAutoRef::suppressDetach() on the innermost auto ref.              *)
suppressDetach(t) ==
    /\ ~excn[t]
    /\ frames[t] # <<>>
    /\ Top(t).kind = "auto"
    /\ frames' = [frames EXCEPT ![t][Len(frames[t])].needDetach = FALSE]
    /\ suppressed' = [suppressed EXCEPT ![t] = TRUE]
    /\ UNCHANGED <<attached, excn, localRefs, usedDetached, terminated>>

(* pEnv->Call...(): through operator->, whose JniExceptionChecker throws  *)
(* a JavaExcn, holding a new local ref, when the call left an exception.   *)
JniCall(t, raises) ==
    /\ ~excn[t]
    /\ frames[t] # <<>>
    /\ usedDetached' = (usedDetached \/ ~attached[t])
    /\ raises => localRefs[t] < MaxLocalRefs
    /\ excn' = [excn EXCEPT ![t] = raises]
    /\ localRefs' = [localRefs EXCEPT ![t] = IF raises THEN @ + 1 ELSE @]
    /\ UNCHANGED <<attached, frames, suppressed, terminated>>

(* A JNI call returning a local ref that a JniLocalRefReaper guards.       *)
JniLocalRefReaper(t) ==
    /\ ~excn[t]
    /\ frames[t] # <<>>
    /\ Top(t).kind # "bare"
    /\ Len(frames[t]) < MaxDepth
    /\ localRefs[t] < MaxLocalRefs
    /\ usedDetached' = (usedDetached \/ ~attached[t])
    /\ frames' = Push(t, [kind |-> "reaper", needDetach |-> FALSE])
    /\ localRefs' = [localRefs EXCEPT ![t] = @ + 1]
    /\ UNCHANGED <<attached, excn, suppressed, terminated>>

(* The innermost frame ends normally; a native method's frame returns to  *)
(* Java, which frees the method's local refs.                              *)
FrameExit(t) ==
    /\ ~excn[t]
    /\ frames[t] # <<>>
    /\ LET f == Top(t) IN
       /\ frames' = Pop(t)
       /\ IF f.kind \in {"entry", "bare"}
          THEN /\ attached' = [attached EXCEPT ![t] = IF f.needDetach THEN FALSE ELSE @]
               /\ localRefs' = [localRefs EXCEPT ![t] = 0]
          ELSE FrameEnds(t, f)
    /\ UNCHANGED <<excn, suppressed, usedDetached, terminated>>

(* The JavaExcn unwinds a frame that does not catch it: its destructor     *)
(* runs (~JniLocalRefReaper deletes its ref).                              *)
Unwind(t) ==
    /\ excn[t]
    /\ frames[t] # <<>>
    /\ Top(t).kind \in {"auto", "reaper"}
    /\ frames' = Pop(t)
    /\ FrameEnds(t, Top(t))
    /\ UNCHANGED <<excn, suppressed, usedDetached, terminated>>

(* catch (std::exception &ex) { pEnv.handleExcn(ex); } in an entry point: *)
(* the exception is raised in Java and the method returns, its local refs  *)
(* freed.                                                                  *)
handleExcn(t) ==
    /\ excn[t]
    /\ frames[t] # <<>>
    /\ Top(t).kind = "entry"
    /\ frames' = Pop(t)
    /\ excn' = [excn EXCEPT ![t] = FALSE]
    /\ attached' = [attached EXCEPT ![t] = IF Top(t).needDetach THEN FALSE ELSE @]
    /\ localRefs' = [localRefs EXCEPT ![t] = 0]
    /\ UNCHANGED <<suppressed, usedDetached, terminated>>

(* The JavaExcn reaches the frame of a native method with no try: it      *)
(* leaves the extern "C" function, no handler is found, and std::terminate *)
(* aborts the process.                                                     *)
EscapeNativeMethod(t) ==
    /\ excn[t]
    /\ frames[t] # <<>>
    /\ Top(t).kind = "bare"
    /\ terminated' = TRUE
    /\ UNCHANGED <<attached, frames, excn, localRefs, suppressed, usedDetached>>

(* Nothing runs once the process has terminated.                           *)
Next ==
    /\ ~terminated
    /\ \E t \in Threads :
        \/ EnterNativeMethod(t)
        \/ EnterNativeMethodNoTry(t)
        \/ JNI_OnLoad(t)
        \/ JniEnvAutoRef(t)
        \/ suppressDetach(t)
        \/ \E raises \in BOOLEAN : JniCall(t, raises)
        \/ JniLocalRefReaper(t)
        \/ FrameExit(t)
        \/ Unwind(t)
        \/ handleExcn(t)
        \/ EscapeNativeMethod(t)

Spec == Init /\ [][Next]_vars

-----------------------------------------------------------------------------
(* No JNI call runs on a detached thread's JNIEnv: a JniEnvAutoRef nested  *)
(* in a native method or in another auto ref finds the thread attached and *)
(* leaves it attached when it ends, normally or by an exception.           *)
EnvUsedOnlyWhenAttached == ~usedDetached /\ \A t \in JavaThreads : attached[t]

(* An error in native code reaches Java as a Java exception: no C++        *)
(* exception leaves a native method and terminates the process (spec.md:   *)
(* JNI errors are "converted at the boundary into the host's native        *)
(* exception type").                                                       *)
NoExceptionEscapesNativeMethod == ~terminated

====
