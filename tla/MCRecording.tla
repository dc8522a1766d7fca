---------------------------- MODULE MCRecording ----------------------------
(* Two clusters, with up to two blocks and one.  The paddings hold the     *)
(* SeekHead of two entries and the SegmentInfo (33 and 8 bytes) with two   *)
(* bytes to spare, with one, or not.                                       *)
EXTENDS Recording

MCVintLimit == <<128, 16384>>
MCMaxBlocks == <<2, 1>>

MCForeign ==
    {Header("text", "tawara", 0, 0), Header("marker", "tawara", 0, 0),
     Header("text", "none", 0, 0), Header("none", "other", 0, 0),
     Header("none", "tawara", 2, 0), Header("none", "tawara", 0, 1)}
=============================================================================
