--------------------------- MODULE MCVoidElement ---------------------------
(* Three width classes narrow enough that targets cross every boundary:    *)
(* targets from too small to be an element to well inside the third class. *)
EXTENDS VoidElement

MCVintLimit == <<10, 20, 40>>
MCTargets == (0..3) \cup (9..13) \cup (20..25)
=============================================================================
