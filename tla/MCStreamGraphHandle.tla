------------------------ MODULE MCStreamGraphHandle ------------------------
(* Two graphs on the database's shared scheduler and one with a scheduler  *)
(* of its own, opened in two txns with snapshots enabled; four global refs *)
(* let every graph be opened, closed and reopened.                         *)
EXTENDS StreamGraphHandle, TLC

CONSTANTS g1, g2, g3, t1, t2

MCHandles == {g1, g2, g3}
MCTxns == {t1, t2}
MCSchedulerOf == (g1 :> "dbScheduler") @@ (g2 :> "dbScheduler") @@ (g3 :> "g3Scheduler")
MCOwnerHeld == {"dbScheduler"}
MCMaxRefs == 4
=============================================================================
