--------------------------- MODULE LbmSegmentReader ---------------------------
(***************************************************************************)
(* The bitmap segment reader of                                            *)
(* fennel/lucidera/bitmap/LbmSegmentReaderBase.cpp reading bitmap entry    *)
(* tuples from its input buffer, and the upstream stream that fills that   *)
(* buffer.  A DfsTree scheduler runs both in one thread: the producer      *)
(* runs when the reader has returned EXECRC_BUF_UNDERFLOW.                 *)
(*                                                                         *)
(* readBitmapSegTuple leaves the tuple it unmarshals with its consumption  *)
(* pending: the reader keeps pointers (pSegStart, pSegDescStart) into the  *)
(* buffer and uses them in advanceSegment until its next call consumes the *)
(* tuple.  A bitmap entry is a record: its start RID, whether it carries a *)
(* bitmap (a singleton does not), and its segment descriptors as           *)
(* <<byteSegLen, zeroBytes>> pairs.                                        *)
(***************************************************************************)
EXTENDS Naturals, Sequences

CONSTANTS
    Entries,     \* Entries[i]: the i-th bitmap entry the producer emits
    BatchTuples  \* most tuples the producer writes in one quantum

NumTuples == Len(Entries)
Tuples == 1 .. NumTuples

LbmOneByteSize == 8

\* One bitmap entry per buffer slot; the reader consumes whole tuples.
Buf == INSTANCE ExecStreamBuf WITH TupleBytes <- 1, ConsumptionGranule <- 1

NoTuple == 0

VARIABLES
    buf,            \* pInAccessor's buffer
    produced,       \* entries the producer has written
    rc,             \* what readBitmapSegTuple last returned
    cur,            \* the tuple pBitmapSegTuple was unmarshalled from
    startRID,
    byteSegOffset,
    byteSegLen,
    zeroBytes,
    singleton,
    descPos,        \* pSegDescStart, as an index into cur's descriptors
    seen            \* the entries readBitmapSegTuple returned, in order

readerVars == <<rc, cur, startRID, byteSegOffset, byteSegLen, zeroBytes,
                singleton, descPos, seen>>
vars == <<buf, produced, readerVars>>

MaxRID == LET rids == {Entries[i].rid : i \in Tuples}
          IN CHOOSE r \in rids : \A s \in rids : s <= r
MaxLen == NumTuples * 8

TypeOK ==
    /\ buf \in Buf!BufType(Tuples)
    /\ produced \in 0 .. NumTuples
    /\ rc \in {"NONE", "EOS", "UNDERFLOW", "YIELD"}
    /\ cur \in {NoTuple} \cup Tuples
    /\ startRID \in 0 .. MaxRID
    /\ byteSegOffset \in 0 .. MaxRID \div LbmOneByteSize + MaxLen
    /\ byteSegLen \in 0 .. MaxLen
    /\ zeroBytes \in 0 .. MaxLen
    /\ singleton \in 0 .. 255
    /\ descPos \in 0 .. MaxLen
    /\ seen \in Seq(Tuples)

(* LbmSegmentReaderBase::init *)
Init ==
    /\ buf = Buf!EmptyBuf
    /\ produced = 0
    /\ rc = "NONE"
    /\ cur = NoTuple
    /\ startRID = 0
    /\ byteSegOffset = 0
    /\ byteSegLen = 0
    /\ zeroBytes = 0
    /\ singleton = 0
    /\ descPos = 0
    /\ seen = <<>>

-----------------------------------------------------------------------------
(* The upstream stream's execute: writes entries on request, then EOS.     *)
ProduceBatch ==
    /\ buf.state = "UNDERFLOW"
    /\ \E k \in 1 .. BatchTuples :
          /\ produced + k <= NumTuples
          /\ buf' = Buf!produceTuples(buf, [i \in 1 .. k |-> produced + i])
          /\ produced' = produced + k
    /\ UNCHANGED readerVars

ProduceEOS ==
    /\ buf.state = "UNDERFLOW"
    /\ produced = NumTuples
    /\ buf' = Buf!markEOS(buf)
    /\ UNCHANGED <<produced, readerVars>>

ByteSegOffsetOfRid(rid) == rid

(* The byte segment number of a RID: startRID / LbmOneByteSize.           *)
ByteSegOffsetOf(rid) == rid \div LbmOneByteSize

(* The fields readBitmapSegTuple derives from the unmarshalled entry t:    *)
(* byteSegOffset from startRID, the descriptor (NULL when empty) and the   *)
(* bitmap, or for a singleton a one-byte bitmap with startRID's bit set.   *)
LoadEntry(t) ==
    LET e == Entries[t] IN
    /\ cur' = t
    /\ seen' = Append(seen, t)
    /\ startRID' = e.rid
    /\ byteSegOffset' = ByteSegOffsetOf(e.rid)
    /\ zeroBytes' = 0
    /\ descPos' = IF e.desc = <<>> THEN 0 ELSE 1
    /\ IF e.bitmapLen > 0
       THEN /\ byteSegLen' = e.bitmapLen
            /\ UNCHANGED singleton
       ELSE /\ byteSegLen' = 1
            /\ singleton' = (2 ^ (e.rid % LbmOneByteSize)) % 256
    /\ rc' = "YIELD"

UnmarshalConsumed(b) ==
    /\ buf' = Buf!consumeTuple(b)
    /\ LoadEntry(Buf!unmarshalTuple(b))

(* unmarshalTuple leaves the tuple's consumption pending.                  *)
Unmarshal(b) ==
    /\ buf' = Buf!markConsumptionPending(b)
    /\ LoadEntry(Buf!unmarshalTuple(b))

readBitmapSegTupleNoEOSCheck ==
    /\ rc # "EOS"
    /\ LET b == IF buf.pending THEN Buf!consumeTuple(buf) ELSE buf IN
       IF Buf!demandData(b)
       THEN Unmarshal(b)
       ELSE /\ buf' = b
            /\ rc' = "UNDERFLOW"
            /\ UNCHANGED <<cur, startRID, byteSegOffset, byteSegLen,
                           zeroBytes, singleton, descPos, seen>>
    /\ UNCHANGED produced

(* readBitmapSegTuple: EOS first; else consume the previous tuple if its   *)
(* consumption is pending, demand data (UNDERFLOW if none) and unmarshal.  *)
readBitmapSegTuple ==
    /\ rc # "EOS"
    /\ \/ /\ buf.state = "EOS"
          /\ rc' = "EOS"
          /\ UNCHANGED <<buf, cur, startRID, byteSegOffset, byteSegLen,
                         zeroBytes, singleton, descPos, seen>>
       \/ /\ buf.state # "EOS"
          /\ LET b == IF buf.pending THEN Buf!consumeTuple(buf) ELSE buf IN
             IF Buf!demandData(b)
             THEN Unmarshal(b)
             ELSE /\ buf' = b
                  /\ rc' = "UNDERFLOW"
                  /\ UNCHANGED <<cur, startRID, byteSegOffset, byteSegLen,
                                 zeroBytes, singleton, descPos, seen>>
    /\ UNCHANGED produced

(* readSegDescAndAdvance: the next descriptor gives the segment's length   *)
(* and its trailing zero bytes; the descriptor pointer moves past it.      *)
readSegDescAndAdvance(d) ==
    /\ byteSegLen' = Entries[cur].desc[d][1]
    /\ zeroBytes' = Entries[cur].desc[d][2]
    /\ descPos' = d + 1

(* advanceSegment, called while the reader holds an entry with descriptors *)
(* left (pSegDescStart < pSegDescEnd).                                     *)
advanceSegment ==
    /\ rc = "YIELD"
    /\ descPos \in 1 .. Len(Entries[cur].desc)
    /\ byteSegOffset' = byteSegOffset + byteSegLen + zeroBytes
    /\ readSegDescAndAdvance(descPos)
    /\ UNCHANGED <<buf, produced, rc, cur, startRID, singleton, seen>>

ProducerStep == ProduceBatch \/ ProduceEOS
ReaderStep == readBitmapSegTuple \/ advanceSegment

Next == ProducerStep \/ ReaderStep

(* The scheduler keeps running both streams until the reader sees EOS.     *)
Spec == Init /\ [][Next]_vars /\ WF_vars(ProducerStep) /\ WF_vars(ReaderStep)

-----------------------------------------------------------------------------
(* While the reader holds an entry (its pointers into the input buffer are *)
(* live), that entry is still at the front of the buffer with its          *)
(* consumption pending: the producer cannot have overwritten it.           *)
ReaderTupleStable ==
    rc = "YIELD" =>
        /\ buf.state = "DATA"
        /\ buf.pending
        /\ Buf!unmarshalTuple(buf) = cur

(* readBitmapSegTuple returns every entry once, in the order produced, and *)
(* EOS only after the last one.                                            *)
ReadsEachEntryOnceInOrder ==
    /\ seen = [i \in 1 .. Len(seen) |-> i]
    /\ rc = "EOS" => Len(seen) = NumTuples

(* The reader eventually sees EOS.                                         *)
ReaderReachesEOS == <>(rc = "EOS")

=============================================================================
