------------------------ MODULE MCPermutationGenerator ------------------------
EXTENDS PermutationGenerator

(* The one-argument constructor over 3 rows, and partitions of 2, 3 and 4  *)
(* rows: the smallest partitions whose shuffle range is empty, one and     *)
(* several elements long.                                                  *)
MCArgs == {[nRows |-> 3, partSize |-> 0], [nRows |-> 4, partSize |-> 2],
           [nRows |-> 6, partSize |-> 3], [nRows |-> 4, partSize |-> 4]}
====
