------------------------------ MODULE MCJniEnv ------------------------------
(* One Java thread calling native methods and one thread created within   *)
(* Fennel; up to three nested frames (an auto ref in a native method with *)
(* a reaper inside, or two auto refs) and two local refs, so that a        *)
(* JavaExcn unwinds an auto ref that attached its thread and one that did *)
(* not, and unwinds a reaper whose destructor deletes its ref.             *)
EXTENDS JniEnv

CONSTANTS j1, f1

MCJavaThreads == {j1}
MCFennelThreads == {f1}
MCMaxDepth == 3
MCMaxLocalRefs == 2
=============================================================================
