-------------------------- MODULE MCClusterWriter --------------------------
(* Two kinds of block of different length, so that a block out of place    *)
(* shows; two clusters, so that one can damage the other.                  *)
EXTENDS ClusterWriter

MCFlavours == {"memory", "file"}
MCBlocks == {"SimpleBlock", "BlockGroup"}
MCBlockLen == [b \in MCBlocks |-> IF b = "SimpleBlock" THEN 2 ELSE 3]
MCMetaSizes == {2, 3}
MCBefore == {"new"}
MCBeforeClose == {"new", "open"}
=============================================================================
