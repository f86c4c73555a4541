--------------------------- MODULE MCJniHandles ---------------------------
(* One Java object and null; three heap addresses and three global refs    *)
(* allow an object handle to be set from null to an object and back while *)
(* an execution handle is created, cancelled, deleted and its address      *)
(* reused, and a deleted object handle's address is reused before its    *)
(* delete is counted; one Java thread cancels.                              *)
EXTENDS JniHandles

CONSTANTS o1, c1

MCObjects == {o1}
MCCancellers == {c1}
MCMaxHandles == 3
MCMaxRefs == 3
=============================================================================
