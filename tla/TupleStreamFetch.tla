--------------------------- MODULE TupleStreamFetch ---------------------------
(***************************************************************************)
(* A Java client draining a stream graph's output through the JNI entry    *)
(* points of fennel/farrago/NativeMethods.cpp, against the producer stream *)
(* that fills the output buffer and a second Java thread that may abort    *)
(* the graph.                                                              *)
(*                                                                         *)
(*  - tupleStreamFetch: scheduler->readStream(stream) runs the graph until *)
(*    the output buffer is not in UNDERFLOW (or throws once the graph is   *)
(*    aborted); then returns 0 on EOS, else asserts isConsumptionPossible, *)
(*    copies getConsumptionAvailableBounded(array length) bytes into the   *)
(*    Java array, asserts the count is non-zero and consumes them;         *)
(*  - tupleStreamTransformFetch: the same on a stream's input accessor,    *)
(*    without readStream: 0 on EOS, -1 when nothing can be consumed;       *)
(*  - tupleStreamGraphClose(CLOSE_ABORT): scheduler->abort(graph).         *)
(* A C++ exception inside either fetch is turned into a Java exception by  *)
(* handleExcn and the call returns 0; a failed assert ends the process.    *)
(***************************************************************************)
EXTENDS Integers, Sequences

CONSTANTS
    NumTuples,      \* tuples the producer stream emits before EOS
    BatchTuples,    \* most tuples the producer writes in one quantum
    ArraySizes,     \* lengths of the Java byte arrays passed to a fetch
    TupleBytes,
    ConsumptionGranule

ASSUME NumTuples \in Nat \ {0} /\ BatchTuples \in Nat \ {0}
ASSUME ArraySizes \subseteq Nat \ {0}

Buf == INSTANCE ExecStreamBuf

Tuples == 1 .. NumTuples

(* The byte stream the producer emits, in order.                           *)
AllBytes == [i \in 1 .. NumTuples * TupleBytes |->
                <<(i - 1) \div TupleBytes + 1, (i - 1) % TupleBytes>>]

VARIABLES
    buf,        \* the graph's output buffer
    produced,   \* tuples written into the buffer so far
    aborted,    \* scheduler->abort(graph) has run
    client,     \* "running", or how the Java client's fetch loop ended
    javaBytes,  \* bytes copied into Java arrays, in order
    lastRet     \* value the last fetch returned to Java

vars == <<buf, produced, aborted, client, javaBytes, lastRet>>

ClientEnds == {"eos", "exception", "assert"}

TypeOK ==
    /\ buf \in Buf!BufType(Tuples)
    /\ produced \in 0 .. NumTuples
    /\ aborted \in BOOLEAN
    /\ client \in {"running"} \cup ClientEnds
    /\ javaBytes \in Seq(Tuples \X (0 .. TupleBytes - 1))
    /\ lastRet \in {-1} \cup 0 .. NumTuples * TupleBytes

Init ==
    /\ buf = Buf!EmptyBuf
    /\ produced = 0
    /\ aborted = FALSE
    /\ client = "running"
    /\ javaBytes = <<>>
    /\ lastRet = 0

-----------------------------------------------------------------------------
(* The producer stream's execute(quantum): asked for data (UNDERFLOW), it  *)
(* writes up to BatchTuples tuples, or marks EOS once it has none left.    *)
ProduceBatchOverrun ==
    /\ ~aborted
    /\ buf.state = "UNDERFLOW"
    /\ produced < NumTuples
    /\ \E k \in 1 .. BatchTuples :
          /\ buf' = Buf!produceTuples(buf, [i \in 1 .. k |-> produced + i])
          /\ produced' = produced + k
    /\ UNCHANGED <<aborted, client, javaBytes, lastRet>>

ProduceBatchAnyState ==
    /\ ~aborted
    /\ buf.state # "EOS"
    /\ \E k \in 1 .. BatchTuples :
          /\ produced + k <= NumTuples
          /\ buf' = Buf!produceTuples(buf, [i \in 1 .. k |-> produced + i])
          /\ produced' = produced + k
    /\ UNCHANGED <<aborted, client, javaBytes, lastRet>>

ProduceBatch ==
    /\ ~aborted
    /\ buf.state = "UNDERFLOW"
    /\ \E k \in 1 .. BatchTuples :
          /\ produced + k <= NumTuples
          /\ buf' = Buf!produceTuples(buf, [i \in 1 .. k |-> produced + i])
          /\ produced' = produced + k
    /\ UNCHANGED <<aborted, client, javaBytes, lastRet>>

ProduceEOSWithData ==
    /\ ~aborted
    /\ buf.state # "EOS"
    /\ produced = NumTuples
    /\ buf' = Buf!markEOS(buf)
    /\ UNCHANGED <<produced, aborted, client, javaBytes, lastRet>>

ProduceEOS ==
    /\ ~aborted
    /\ buf.state = "UNDERFLOW"
    /\ produced = NumTuples
    /\ buf' = Buf!markEOS(buf)
    /\ UNCHANGED <<produced, aborted, client, javaBytes, lastRet>>

(* The part both fetch entry points share once data can be consumed:       *)
(* cbActual = getConsumptionAvailableBounded(cbLimit); assert(cbActual);   *)
(* copy; consumeData(pBuffer + cbActual); return cbActual.                 *)
CopyOut(cbLimit) ==
    LET cbActual == Buf!getConsumptionAvailableBounded(buf, cbLimit) IN
    IF cbActual = 0 \/ cbLimit < cbActual
    THEN /\ client' = "assert"
         /\ UNCHANGED <<buf, javaBytes, lastRet>>
    ELSE /\ javaBytes' = javaBytes \o Buf!ConsumptionBytes(buf, cbActual)
         /\ buf' = Buf!consumeData(buf, cbActual)
         /\ lastRet' = cbActual
         /\ UNCHANGED client

(* tupleStreamFetch, once readStream has returned (the buffer is not in    *)
(* UNDERFLOW).                                                             *)
FetchEOS ==
    /\ client = "running"
    /\ buf.state = "EOS"
    /\ client' = "eos"
    /\ lastRet' = 0
    /\ UNCHANGED <<buf, produced, aborted, javaBytes>>

FetchData(cbLimit) ==
    /\ client = "running"
    /\ buf.state = "DATA"
    /\ IF Buf!isConsumptionPossible(buf)
       THEN CopyOut(cbLimit)
       ELSE /\ client' = "assert"
            /\ UNCHANGED <<buf, javaBytes, lastRet>>
    /\ UNCHANGED <<produced, aborted>>

(* readStream on an aborted graph throws; handleExcn raises it in Java and *)
(* the fetch returns 0.  Whether the abort is noticed before data already  *)
(* in the buffer is returned is left open.                                 *)
FetchAbortedWaits ==
    /\ client = "running"
    /\ aborted
    /\ UNCHANGED vars

FetchAborted ==
    /\ client = "running"
    /\ aborted
    /\ client' = "exception"
    /\ lastRet' = 0
    /\ UNCHANGED <<buf, produced, aborted, javaBytes>>

(* tupleStreamTransformFetch: no readStream; -1 tells the Java transform   *)
(* that nothing can be consumed yet.                                       *)
TransformFetch(cbLimit) ==
    /\ client = "running"
    /\ \/ /\ buf.state = "EOS"
          /\ client' = "eos"
          /\ lastRet' = 0
          /\ UNCHANGED <<buf, javaBytes>>
       \/ /\ buf.state # "EOS"
          /\ ~Buf!isConsumptionPossible(buf)
          /\ lastRet' = -1
          /\ UNCHANGED <<buf, javaBytes, client>>
       \/ /\ buf.state # "EOS"
          /\ Buf!isConsumptionPossible(buf)
          /\ CopyOut(cbLimit)
    /\ UNCHANGED <<produced, aborted>>

(* tupleStreamGraphClose(CLOSE_ABORT) from another Java thread.            *)
CloseAbort ==
    /\ ~aborted
    /\ aborted' = TRUE
    /\ UNCHANGED <<buf, produced, client, javaBytes, lastRet>>

ProducerStep == ProduceBatch \/ ProduceEOS

ClientStep ==
    \/ FetchEOS \/ FetchAborted
    \/ \E n \in ArraySizes : FetchData(n) \/ TransformFetch(n)

Next == ProducerStep \/ ClientStep \/ CloseAbort

(* The scheduler keeps running a producer whose output underflows, and the *)
(* Java client keeps fetching until a fetch returns 0.  Nobody is obliged  *)
(* to abort.                                                               *)
Spec == Init /\ [][Next]_vars /\ WF_vars(ProducerStep) /\ WF_vars(ClientStep)

-----------------------------------------------------------------------------
(* What Java has received followed by what is still in the buffer is       *)
(* exactly what the producer has written, in order: no byte lost,          *)
(* duplicated or reordered across fetches that split tuples.               *)
NoLostOrDuplicatedBytes ==
    LET inBuf == [i \in 1 .. Buf!getConsumptionAvailable(buf) |->
                     Buf!ByteAt(buf, buf.cbConsumed + i)]
    IN javaBytes \o inBuf = SubSeq(AllBytes, 1, produced * TupleBytes)

(* A fetch returns 0 without an exception only after Java has received     *)
(* every byte the producer emitted.                                        *)
EOSOnlyWhenComplete == client = "eos" => javaBytes = AllBytes

(* The asserts of tupleStreamFetch and tupleStreamTransformFetch           *)
(* (isConsumptionPossible after readStream, cbActual non-zero and within   *)
(* the array) never fail.                                                  *)
NoFetchAssertionFailure == client # "assert"

(* The Java client's fetch loop always ends: with EOS, or with the         *)
(* exception of an abort.                                                  *)
FetchLoopEnds == <>(client \in ClientEnds)

=============================================================================
