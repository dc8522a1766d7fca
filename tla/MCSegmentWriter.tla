-------------------------- MODULE MCSegmentWriter --------------------------
(* Paddings, from too small to be an element to roomy, around the sizes    *)
(* at which a SeekHead of no, one or two entries (5, 19 or 33 bytes) and   *)
(* a SegmentInfo fit exactly, leave one byte, or do not fit.               *)
EXTENDS SegmentWriter

MCVintLimit == <<128, 16384>>
MCPadSizes == {0, 14, 28, 42}
MCInfoSizes == {8, 9}
MCKinds == {"Tracks", "Cluster"}
=============================================================================
