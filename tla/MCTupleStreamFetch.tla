------------------------- MODULE MCTupleStreamFetch -------------------------
(* Six two-byte tuples, produced one to three at a time, fetched into Java *)
(* arrays of one byte (smaller than a tuple) or three bytes (a tuple and a *)
(* half), so that fetches split tuples and cross batch boundaries.         *)
EXTENDS TupleStreamFetch

MCNumTuples   == 6
MCBatchTuples == 3
MCArraySizes  == {1, 3}
MCTupleBytes  == 2

(* isConsumptionPossible() true with a byte available (the spec's section  *)
(* 8 scenario) or only with a whole tuple available (its section 4.3).     *)
ByteGranule  == 1
TupleGranule == MCTupleBytes
=============================================================================
