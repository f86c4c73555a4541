----------------------------- MODULE MCCalcPrograms -----------------------------
EXTENDS CalcPrograms

CONSTANTS t1, t2, CHAR, VARCHAR, INT_32, PTRSIZE

(* Two callers, two calls each: the second call of each takes the early   *)
(* return.  Two array types and one other; p is null, partly or wholly    *)
(* filled.                                                                 *)
MCThreads == {t1, t2}
MCMaxCalls == 2
MCTypes == {CHAR, VARCHAR, INT_32, PTRSIZE}
MCArrayTypes == <<CHAR, VARCHAR>>
MCOperandValues == {Null, [length |-> 1, storage |-> 2], [length |-> 2, storage |-> 2]}
====
