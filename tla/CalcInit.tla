------------------------------- MODULE CalcInit -------------------------------
(***************************************************************************)
(* CalcInit::instance() of fennel/calculator/CalcInit.cpp: the first call  *)
(* allocates the singleton, stores it in _instance and then registers the  *)
(* calculator's instruction tables one registration call after another;    *)
(* later calls return _instance at once.  The code warns that it is not    *)
(* thread safe.  Threads are callers that may each build calculators;      *)
(* Serialised says whether they call instance() under a common lock.       *)
(* _instance is a pointer-sized word: a racing read sees the old or the    *)
(* new value, which the interleaving of the steps below covers.            *)
(***************************************************************************)
EXTENDS Naturals, Sequences, FiniteSets

CONSTANTS
    Threads,     \* callers of CalcInit::instance()
    Serialised,  \* callers hold a common lock around instance()
    MaxCalls,    \* bound on the calls each thread makes
    NULL

ASSUME Serialised \in BOOLEAN

(* The registration calls of instance(), in order.                         *)
Registrations == <<"InstructionFactory", "ExtString", "ExtMath", "ExtDateTime",
                   "ExtRegExp", "ExtCast", "ExtDynamicVariable", "ExtWinAggFunc">>
NumRegs == Len(Registrations)

VARIABLES
    instance,    \* CalcInit::_instance: NULL or the number of a CalcInit
    allocated,   \* CalcInits allocated by new
    registered,  \* registered[r]: times registration call r has run
    pc,          \* pc[t]: where thread t is in instance()
    regStep,     \* regStep[t]: the registration call t makes next
    calls,       \* calls[t]: calls t has made
    lock         \* the callers' lock (when Serialised): NULL or its holder

vars == <<instance, allocated, registered, pc, regStep, calls, lock>>

PCs == {"idle", "check", "new", "register", "return"}

TypeOK ==
    /\ instance \in {NULL} \cup 1 .. Cardinality(Threads) * MaxCalls
    /\ allocated \in 0 .. Cardinality(Threads) * MaxCalls
    /\ registered \in [1 .. NumRegs -> Nat]
    /\ pc \in [Threads -> PCs]
    /\ regStep \in [Threads -> 1 .. NumRegs]
    /\ calls \in [Threads -> 0 .. MaxCalls]
    /\ lock \in {NULL} \cup Threads

Init ==
    /\ instance = NULL
    /\ allocated = 0
    /\ registered = [r \in 1 .. NumRegs |-> 0]
    /\ pc = [t \in Threads |-> "idle"]
    /\ regStep = [t \in Threads |-> 1]
    /\ calls = [t \in Threads |-> 0]
    /\ lock = NULL

-----------------------------------------------------------------------------
(* A caller enters instance(), taking the lock first when Serialised.      *)
Call(t) ==
    /\ pc[t] = "idle"
    /\ calls[t] < MaxCalls
    /\ Serialised => lock = NULL
    /\ lock' = IF Serialised THEN t ELSE lock
    /\ pc' = [pc EXCEPT ![t] = "check"]
    /\ calls' = [calls EXCEPT ![t] = @ + 1]
    /\ UNCHANGED <<instance, allocated, registered, regStep>>

CheckNoEarlyReturn(t) ==
    /\ pc[t] = "check"
    /\ pc' = [pc EXCEPT ![t] = "new"]
    /\ UNCHANGED <<instance, allocated, registered, regStep, calls, lock>>

(* if (_instance) return _instance;                                        *)
Check(t) ==
    /\ pc[t] = "check"
    /\ pc' = [pc EXCEPT ![t] = IF instance # NULL THEN "return" ELSE "new"]
    /\ UNCHANGED <<instance, allocated, registered, regStep, calls, lock>>

NewInstanceUncounted(t) ==
    /\ pc[t] = "new"
    /\ instance' = allocated
    /\ allocated' = allocated + 1
    /\ pc' = [pc EXCEPT ![t] = "register"]
    /\ regStep' = [regStep EXCEPT ![t] = 1]
    /\ UNCHANGED <<registered, calls, lock>>

(* _instance = new CalcInit;                                               *)
NewInstance(t) ==
    /\ pc[t] = "new"
    /\ instance' = allocated + 1
    /\ allocated' = allocated + 1
    /\ pc' = [pc EXCEPT ![t] = "register"]
    /\ regStep' = [regStep EXCEPT ![t] = 1]
    /\ UNCHANGED <<registered, calls, lock>>

(* One of registerInstructions() and the Ext...Register calls.             *)
Register(t) ==
    /\ pc[t] = "register"
    /\ registered' = [registered EXCEPT ![regStep[t]] = @ + 1]
    /\ IF regStep[t] = NumRegs
       THEN /\ pc' = [pc EXCEPT ![t] = "return"]
            /\ UNCHANGED regStep
       ELSE /\ regStep' = [regStep EXCEPT ![t] = @ + 1]
            /\ UNCHANGED pc
    /\ UNCHANGED <<instance, allocated, calls, lock>>

(* return _instance; the caller goes on to use the instruction tables.     *)
Return(t) ==
    /\ pc[t] = "return"
    /\ pc' = [pc EXCEPT ![t] = "idle"]
    /\ lock' = IF Serialised THEN NULL ELSE lock
    /\ UNCHANGED <<instance, allocated, registered, regStep, calls>>

Next ==
    \E t \in Threads :
        Call(t) \/ Check(t) \/ NewInstance(t) \/ Register(t) \/ Return(t)

Spec == Init /\ [][Next]_vars

-----------------------------------------------------------------------------

(* One CalcInit is ever allocated and each table is registered once,       *)
(* however many calls are made.                                            *)
RegisteredOnce ==
    /\ allocated <= 1
    /\ \A r \in 1 .. NumRegs : registered[r] <= 1

====
