-------------------------- MODULE MCSegmentReader --------------------------
(* All segments of up to four elements, and some of the usual shapes, with *)
(* every choice of what their SeekHeads name; what they name is there, or, *)
(* in those of three elements, may be said to be anywhere: at another      *)
(* element, inside one, close to the end and behind it.  Segments with two *)
(* late SeekHeads that name different things.  Clusters have no, one or    *)
(* two blocks.  Those of up to three elements and the usual ones also with *)
(* sizes that end early, at and between elements, or late, and with narrow *)
(* size fields.                                                            *)
EXTENDS SegmentReader, SequencesExt

Element(kind, len, blocks) ==
    [kind |-> kind, len |-> len, blocks |-> blocks, names |-> <<>>, narrow |-> 0]

MCElements ==
    {Element("SeekHead", 5, 0), Element("Info", 8, 0), Element("Tracks", 6, 0),
     Element("Cluster", 14, 0), Element("Cluster", 22, 2), Element("Cues", 7, 0),
     Element("Void", 3, 0), Element("Stranger", 4, 0)}

Usual ==
    {<<a, Element("Info", 8, 0), Element("Tracks", 6, 0), b, c, d>> :
        a \in {Element("SeekHead", 5, 0), Element("Void", 3, 0)},
        b \in {Element("Cluster", 14, 0), Element("Cluster", 18, 1)},
        c \in {Element("Cluster", 22, 2), Element("Cues", 13, 0)},
        d \in {Element("Cluster", 14, 0), Element("SeekHead", 20, 0)}}

LenOf(l) == Ends(l)[Len(l)]
Offset(l, i) == Ends(l)[i - 1]

(* The entries, for the kinds in `ks`, that a SeekHead in `l` may have.    *)
Names(l, ks) ==
    LET first(k) == CHOOSE i \in DOMAIN l : l[i].kind = k /\
                        \A j \in 1..(i - 1) : l[j].kind # k
        there == {k \in ks : \E i \in DOMAIN l : l[i].kind = k}
    IN  SetToSeq({[kind |-> k, offset |-> Offset(l, first(k))] : k \in there})

Naming(l, ks) ==
    [i \in DOMAIN l |-> IF l[i].kind = "SeekHead"
                        THEN [l[i] EXCEPT !.names = Names(l, ks)] ELSE l[i]]

(* SeekHeads that name what is not where they say.                         *)
Lying(l, ks, p) ==
    [i \in DOMAIN l |->
        IF l[i].kind = "SeekHead"
        THEN [l[i] EXCEPT !.names = SetToSeq({[kind |-> k, offset |-> p] : k \in ks})]
        ELSE l[i]]

Wrong(l) == {0, 5, 8, LenOf(l) - 2, LenOf(l), LenOf(l) + LongestId}

(* Two SeekHeads among the others, each with its own names, and a cluster. *)
TwoHeads ==
    LET head == Element("SeekHead", 5, 0)
        body == <<Element("Info", 8, 0), Element("Tracks", 6, 0), head, head>>
        Named(l, first, second) ==
            [i \in DOMAIN l |->
                IF l[i].kind # "SeekHead" THEN l[i]
                ELSE [l[i] EXCEPT !.names =
                        Names(l, IF \A j \in 1..(i - 1) : l[j].kind # "SeekHead"
                                 THEN first ELSE second)]]
    IN  {Named(Append([i \in 1..4 |-> body[p[i]]], Element("Cluster", 18, 1)), f, s) :
            p \in {q \in [1..4 -> 1..4] : \A i, j \in 1..4 : q[i] = q[j] => i = j},
            f \in SUBSET Wanted, s \in SUBSET Wanted}

Short == UNION {[1..n -> MCElements] : n \in 1..3} \cup Usual
Shapes == [1..4 -> MCElements] \cup Short

Segment(l, size, n) == [elements |-> l, declared |-> size, narrow |-> n]

Sizes(l) == {LenOf(l), LenOf(l) + 5, LenOf(l) - l[Len(l)].len, 14}

Narrower(l) ==
    [i \in DOMAIN l |-> IF l[i].kind = "Cluster" THEN [l[i] EXCEPT !.narrow = 3] ELSE l[i]]

MCSegments ==
    {Segment(l, LenOf(l), 0) : l \in {Naming(s, ks) : s \in Shapes, ks \in SUBSET Wanted}}
    \cup UNION {{Segment(l, size, n) : size \in Sizes(l), n \in {0, 7}} :
                    l \in {Naming(s, ks) : s \in Short, ks \in SUBSET Wanted}}
    \cup {Segment(l, LenOf(l), 0) : l \in TwoHeads}
    \cup {Segment(l, LenOf(l), 0) :
            l \in UNION {{Lying(s, ks, p) : ks \in SUBSET Wanted, p \in Wrong(s)} :
                            s \in {l \in [1..3 -> MCElements] : \E i \in 1..3 : l[i].kind = "SeekHead"}}}
    \cup {Segment(Narrower(l), LenOf(l), 0) : l \in {Naming(s, Wanted) : s \in Short}}
=============================================================================
