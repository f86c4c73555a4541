---------------------------- MODULE ExecStreamBuf ----------------------------
(***************************************************************************)
(* The buffer between a producer stream and its consumer                   *)
(* (ExecStreamBufAccessor, spec section 4.3), as operators on a record so  *)
(* that the modules of its consumers can compose it.                       *)
(*                                                                         *)
(* The producer fills the buffer with a batch of tuples only when it is    *)
(* in UNDERFLOW, and marks EOS only then; the consumer consumes bytes or   *)
(* whole tuples from the front; consuming the last byte returns the buffer *)
(* to UNDERFLOW, which requests production.  A tuple is a model value of   *)
(* TupleBytes bytes; a byte is identified by <<tuple, offset>>.            *)
(***************************************************************************)
LOCAL INSTANCE Naturals
LOCAL INSTANCE Sequences

CONSTANTS
    TupleBytes,          \* marshalled size of every tuple
    ConsumptionGranule   \* bytes isConsumptionPossible() requires

ASSUME TupleBytes \in Nat \ {0}
ASSUME ConsumptionGranule \in 1 .. TupleBytes

States == {"UNDERFLOW", "DATA", "EOS"}

EmptyBuf == [state |-> "UNDERFLOW", tuples |-> <<>>, cbConsumed |-> 0,
             pending |-> FALSE]

BufType(T) ==
    [state: States, tuples: Seq(T), cbConsumed: Nat, pending: BOOLEAN]

(* Bytes the producer has put in the buffer and the consumer not consumed. *)
getConsumptionAvailable(b) == Len(b.tuples) * TupleBytes - b.cbConsumed

(* The k-th byte of the buffer's contents.                                 *)
ByteAt(b, k) == <<b.tuples[(k - 1) \div TupleBytes + 1], (k - 1) % TupleBytes>>

(* The producer provides a batch of tuples (only on request: UNDERFLOW).   *)
produceTuples(b, batch) ==
    [b EXCEPT !.state = "DATA", !.tuples = batch, !.cbConsumed = 0]

markEOS(b) == [b EXCEPT !.state = "EOS"]

isConsumptionPossible(b) ==
    /\ b.state = "DATA"
    /\ getConsumptionAvailable(b) >= ConsumptionGranule

getConsumptionAvailableBounded(b, cbLimit) ==
    IF getConsumptionAvailable(b) < cbLimit THEN getConsumptionAvailable(b) ELSE cbLimit

(* The bytes a consumer copies out before consuming n of them.             *)
ConsumptionBytes(b, n) == [i \in 1 .. n |-> ByteAt(b, b.cbConsumed + i)]

(* consumeData: advance the consumption cursor; once everything is         *)
(* consumed the buffer is empty and production is requested.               *)
consumeDataNoReset(b, n) == [b EXCEPT !.cbConsumed = @ + n]

consumeData(b, n) ==
    IF b.cbConsumed + n = Len(b.tuples) * TupleBytes
    THEN EmptyBuf
    ELSE [b EXCEPT !.cbConsumed = @ + n]

(* unmarshalTuple: the tuple at the cursor; its consumption is pending.    *)
unmarshalTuple(b) == b.tuples[b.cbConsumed \div TupleBytes + 1]

markConsumptionPending(b) == [b EXCEPT !.pending = TRUE]

consumeTupleKeepsCursor(b) == [b EXCEPT !.pending = FALSE]

consumeTuple(b) == consumeData([b EXCEPT !.pending = FALSE], TupleBytes)

(* demandData: TRUE iff a tuple can be consumed now; otherwise production  *)
(* has been requested (the buffer is already in UNDERFLOW) or EOS holds.   *)
demandData(b) == b.state # "EOS" /\ isConsumptionPossible(b)

=============================================================================
