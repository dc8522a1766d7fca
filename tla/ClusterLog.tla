---------------------------- MODULE ClusterLog ----------------------------
(***************************************************************************)
(* What the Cluster interface promises (src/include/tawara/cluster.h): a   *)
(* cluster is opened by write(), takes blocks, and is final in the stream, *)
(* with all of them, once finalise() returns.                              *)
(***************************************************************************)
EXTENDS Naturals, Sequences

CONSTANT Blocks

VARIABLES
    contents,  \* the blocks of the cluster at hand
    phase,     \* "new", "open" or "closed"
    log        \* the contents of every final cluster, in stream order

vars == <<contents, phase, log>>

Init == contents = <<>> /\ phase = "new" /\ log = <<>>

(* A block is taken while the cluster can still come to hold it.           *)
Accept(b) ==
    /\ phase # "closed"
    /\ contents' = Append(contents, b)
    /\ UNCHANGED <<phase, log>>

(* Erased blocks are gone from the cluster at hand, never from the log.    *)
Erase(i, j) ==
    /\ contents' = SubSeq(contents, 1, i - 1) \o SubSeq(contents, j, Len(contents))
    /\ UNCHANGED <<phase, log>>

(* A cluster written again starts with what it holds, or with nothing.     *)
Open ==
    /\ phase # "open"
    /\ phase' = "open"
    /\ contents' \in {contents, <<>>}
    /\ UNCHANGED log

Close ==
    /\ phase = "open"
    /\ phase' = "closed"
    /\ log' = Append(log, contents)
    /\ UNCHANGED contents

Renew ==
    /\ phase = "closed"
    /\ phase' = "new"
    /\ contents' = <<>>
    /\ UNCHANGED log

Next ==
    \/ \E b \in Blocks : Accept(b)
    \/ \E i, j \in 1..(Len(contents) + 1) : i <= j /\ Erase(i, j)
    \/ Open
    \/ Close
    \/ Renew

Spec == Init /\ [][Next]_vars
=============================================================================
