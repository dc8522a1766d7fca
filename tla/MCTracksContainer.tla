------------------------- MODULE MCTracksContainer -------------------------
(* Two containers and three entries, with two numbers and two UIDs; bodies *)
(* of other programs with up to two entries.                               *)
EXTENDS TracksContainer, TLC

MCForeign == UNION {[1..n -> Records] : n \in 0..2}

MCSymmetry == Permutations(Entries) \cup Permutations(Holders)
=============================================================================
