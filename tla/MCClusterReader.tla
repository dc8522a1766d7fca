-------------------------- MODULE MCClusterReader --------------------------
(* A cluster with up to four children, right and wrong, whose size field   *)
(* may name the end of any of them or miss it by one, followed by another  *)
(* cluster, with blocks or without.                                        *)
EXTENDS ClusterReader

Element(kind, len, own) == [kind |-> kind, len |-> len, own |-> own, declared |-> 0, at |-> 0]
Header(len, declared) ==
    [kind |-> "Cluster", len |-> len, own |-> len, declared |-> declared, at |-> 0]

Timecode == Element("Timecode", 3, 3)
BlockA == Element("Block", 5, 5)
BlockB == Element("Block", 7, 7)

MetaChoices ==
    {<<>>, <<Timecode>>, <<Element("Timecode", 5, 3)>>,
     <<Timecode, Element("SilentTracks", 6, 6)>>,
     <<Element("SilentTracks", 2, 0), Element("SilentTracks", 4, 4), Timecode>>,
     <<Element("SilentTracks", 6, 6), Timecode, Element("SilentTracks", 4, 4)>>,
     <<Element("Position", 2, 0), Element("PrevSize", 4, 4), Timecode>>}

BlockChoices ==
    {<<>>, <<BlockA>>, <<BlockA, BlockB>>, <<BlockB, BlockA, BlockB>>,
     <<BlockA, Timecode>>, <<Element("Block", 6, 5), BlockB>>,
     <<Element("Block", 10, 5), BlockA>>,
     <<Element("Bad", 5, 5)>>, <<BlockA, Element("Bad", 4, 4)>>,
     <<Element("Stranger", 3, 3)>>, <<BlockA, Element("Stranger", 3, 3)>>}

Following == {<<>>, <<Header(12, 10), Timecode, BlockB>>, <<Header(12, 3), Timecode>>}

LenOf(es) == FoldLeft(LAMBDA n, e : n + e.len, 0, es)

Sizes(es) ==
    LET ends == {LenOf(SubSeq(es, 1, k)) : k \in {0} \cup DOMAIN es}
    IN  (ends \cup {LenOf(es) + 1, LenOf(es) - 1}) \cap Nat

Placed(es) ==
    [k \in DOMAIN es |-> [es[k] EXCEPT !.at = LenOf(SubSeq(es, 1, k - 1))]]

MCStreams ==
    UNION {{Placed(<<Header(h, d)>> \o m \o b \o f) : d \in Sizes(m \o b)} :
        h \in {12, 6}, m \in MetaChoices, b \in BlockChoices, f \in Following}

MCFlavours == {"memory", "file"}
=============================================================================
