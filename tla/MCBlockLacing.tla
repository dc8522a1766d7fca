--------------------------- MODULE MCBlockLacing ---------------------------
(* Widths of 12, 40, ... values  and a count of eight values stand for   *)
(* 128, 16384, ... and 256.  Foreign blocks lie in every field: the count, *)
(* the sizes, the size of the body, and how much of it is there.           *)
EXTENDS BlockLacing

MCVintLimit == <<12, 40, 100, 200>>

Stored(v, w) == [value |-> v, width |-> w]

ForeignSizes == {<<>>, <<Stored(0, 1)>>, <<Stored(2, 1)>>, <<Stored(5, 2)>>,
                 <<Stored(2, 1), Stored(3, 1)>>, <<Stored(2, 1), Stored(6, 1)>>,
                 <<Stored(1, 1), Stored(20, 2)>>, <<Stored(1, 1), Stored(2, 4)>>}

ForeignBlock(l, c, s, b, p) ==
    [track |-> 1, lacing |-> l, count |-> c, sizes |-> s, body |-> b,
     present |-> p, written |-> <<>>, by |-> "another"]

MCForeign ==
    {ForeignBlock("ebml", c, s, b, b + d) :
        c \in {0, 1, 2, 3, 7}, s \in ForeignSizes, b \in {4, 5, 7, 9, 13, 21},
        d \in {-3, 0, 3}}
    \cup
    {ForeignBlock(l, c, <<>>, b, b + d) :
        l \in {"none", "fixed", "xiph"}, c \in {0, 1, 2, 3, 7},
        b \in {0, 3, 4, 5, 6, 11}, d \in {0, 3}}

MCGarbage == {Stored(0, 1), Stored(7, 1), Stored(30, 2)}
=============================================================================
