------------------------------ MODULE MCIngest ------------------------------
(* Instances of Ingest for TLC.                                            *)
EXTENDS Ingest

CONSTANTS i1, i2

Kinds == {"item", "mistyped", "garbled"}

(* Every mixture of good and bad inputs; which of the two is the better    *)
(* one does not matter, as they are read in either order.                  *)
Two(first, second) == [i \in Items |-> IF i = i1 THEN first ELSE second]
AllInputs == {Two(k, k) : k \in Kinds} \union
             {Two("item", "mistyped"), Two("item", "garbled"), Two("mistyped", "garbled")}
AllBackends == {"inmem", "pgstac", "opensearch", "spatialite"}
AllReceivers == {"stdin", "dir", "sqs"}
OnlySQS == {"sqs"}
=============================================================================
