------------------------- MODULE MCLbmSegmentReader -------------------------
(* The bitmap segment reader as the tests drive it, reading its input to   *)
(* EOS.                                                                    *)
EXTENDS LbmSegmentReader

(* A singleton at the last RID of byte 0, an entry with one bitmap segment *)
(* and no descriptor starting at byte 1, entries with two descriptors      *)
(* (with trailing zero bytes) and a singleton on a byte boundary, produced *)
(* one to three at a time so that batches end between and after entries.  *)
MCEntries ==
    << [rid |-> 7,  bitmapLen |-> 0, desc |-> <<>>],
       [rid |-> 8,  bitmapLen |-> 2, desc |-> <<>>],
       [rid |-> 16, bitmapLen |-> 3, desc |-> << <<1, 0>>, <<2, 1>> >>],
       [rid |-> 40, bitmapLen |-> 0, desc |-> <<>>],
       [rid |-> 48, bitmapLen |-> 2, desc |-> << <<1, 2>>, <<1, 0>> >>],
       [rid |-> 71, bitmapLen |-> 0, desc |-> <<>>],
       [rid |-> 80, bitmapLen |-> 4, desc |-> << <<2, 0>>, <<1, 3>>, <<1, 0>> >>] >>

MCBatchTuples == 3
=============================================================================
