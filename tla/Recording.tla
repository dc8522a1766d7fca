----------------------------- MODULE Recording -----------------------------
(***************************************************************************)
(* A whole document: a program records it as src/examples/write.cpp does   *)
(* and stops, at its end, by an exception nobody catches, or at any other  *)
(* point; another opens the file, as src/examples/read.cpp or through      *)
(* TawaraImpl (src/src/tawara_impl.cpp), and reads every block.            *)
(*                                                                         *)
(* The segment is written by SegmentWriter and read by SegmentReader; here *)
(* are the clusters in between, the EBML header, and what a reader finds   *)
(* in a file that was left as it was.                                      *)
(***************************************************************************)
EXTENDS ByteStream, SequencesExt

CONSTANTS
    VintLimit, PadSizes, InfoSizes,
    HeaderSize,                  \* of the EBML header
    Foreign,                     \* headers of other programs
    EBMLVersion, VersionMajor,   \* TawaraEBMLVersion, TawaraVersionMajor
    TracksSize, BlockSize,
    MaxBlocks                    \* bound: blocks of the first cluster, the second...

VARIABLES
    stream, eof, wpos, rpos, joint, seg, index, indexBody, info, kept,
    threw, fin, pc,
    stage,     \* "empty", "tracks", "clusters", "open", "flush", "finalise",
               \* "stopped", "reading" or "refused"
    header,    \* what the EBML header says
    cluster,   \* the cluster object that is written
    sizes,     \* the size fields of the clusters in the stream
    recorded,  \* history: the blocks pushed
    verdict,   \* of the reader, about the header
    doc, said, \* the segment as the reader finds it
    rat, rindex, have, last, phase, result, cur, blk, visited

writerVars == <<stream, eof, wpos, rpos, joint, seg, index, indexBody, info,
                kept, threw, fin, pc>>
recorderVars == <<header, cluster, sizes, recorded>>
readerVars == <<rat, rindex, have, last, phase, result, cur, blk, visited>>
found == <<verdict, doc, said, readerVars>>
vars == <<writerVars, stage, recorderVars, found>>

MaxClusters == Len(MaxBlocks)

W == INSTANCE SegmentWriter WITH
        Kinds <- {"Tracks", "Cluster", "Block"}, KindSizes <- {TracksSize, BlockSize},
        Starts <- {HeaderSize},
        MaxElements <- 1 + FoldLeft(LAMBDA n, m : n + m + 1, 0, MaxBlocks)

R == INSTANCE SegmentReader WITH
        Segments <- {}, layout <- doc, declared <- said, narrow <- 0,
        at <- rat, index <- rindex

(* Headers: what comes before the header, whether it is one, and the       *)
(* versions a reader must know.                                            *)
Header(lead, type, read, docRead) ==
    [lead |-> lead, type |-> type, read |-> read, docRead |-> docRead]
NoHeader == Header("none", "none", 0, 0)
OwnHeader == Header("none", "tawara", EBMLVersion, VersionMajor)

(* A cluster without blocks: its header, and a timecode of 3 bytes.        *)
ClusterHeader == 12
ClusterMeta == 3

NoCluster == [kind |-> "none", at |-> 0, blocks |-> 0, pending |-> 0]

----------------------------------------------------------------------------
(* The program that records.  No exception is caught.                      *)
Runs == threw = {}

(* Onto an empty file the header is put by prepare_stream(), or by the     *)
(* program itself.                                                         *)
WriteHeader ==
    /\ stage = "empty"
    /\ W!Emit(Plain("EBML", 0, HeaderSize), HeaderSize)
    /\ header' = OwnHeader
    /\ stage' = "tracks"
    /\ UNCHANGED <<joint, seg, index, indexBody, info, kept, threw, fin, pc,
                   cluster, sizes, recorded, found>>

SetPad ==
    /\ Runs /\ stage = "tracks" /\ eof = HeaderSize
    /\ \E n \in PadSizes : W!SetPad(n)
    /\ UNCHANGED <<stage, recorderVars, found>>

OpenSegment ==
    /\ Runs /\ stage = "tracks" /\ eof = HeaderSize
    /\ W!Write
    /\ UNCHANGED <<stage, recorderVars, found>>

WriteTracks ==
    /\ Runs /\ stage = "tracks"
    /\ \E indexed \in BOOLEAN : W!AppendElement("Tracks", TracksSize, indexed)
    /\ stage' = "clusters"
    /\ UNCHANGED <<recorderVars, found>>

(* Only the first cluster is given to the index.                           *)
OpenCluster(kind) ==
    /\ Runs /\ stage = "clusters" /\ Len(recorded) < MaxClusters
    /\ \E indexed \in BOOLEAN :
        /\ indexed => recorded = <<>>
        /\ W!AppendElement("Cluster", ClusterHeader + ClusterMeta, indexed)
    /\ cluster' = [NoCluster EXCEPT !.kind = kind, !.at = wpos]
    /\ sizes' = [p \in DOMAIN sizes \cup {wpos} |->
                    IF p = wpos THEN ClusterMeta ELSE sizes[p]]
    /\ recorded' = Append(recorded, 0)
    /\ stage' = "open"
    /\ UNCHANGED <<header, found>>

(* A file cluster writes each block at once, a memory cluster keeps them.  *)
KeepsOne(c) == [c EXCEPT !.blocks = 1, !.pending = 1]
Keeping(c) == [c EXCEPT !.blocks = @ + 1, !.pending = @ + 1]

PushBlock ==
    /\ Runs /\ stage = "open"
    /\ Last(recorded) < MaxBlocks[Len(recorded)]
    /\ \/ /\ cluster.kind = "file"
          /\ W!AppendElement("Block", BlockSize, FALSE)
          /\ cluster' = [cluster EXCEPT !.blocks = @ + 1]
       \/ /\ cluster.kind = "memory"
          /\ cluster' = Keeping(cluster)
          /\ UNCHANGED writerVars
    /\ recorded' = [recorded EXCEPT ![Len(recorded)] = @ + 1]
    /\ UNCHANGED <<stage, header, sizes, found>>

FinaliseCluster ==
    /\ Runs /\ stage = "open"
    /\ stage' = "flush"
    /\ UNCHANGED <<writerVars, recorderVars, found>>

FlushBlock ==
    /\ Runs /\ stage = "flush" /\ cluster.pending > 0
    /\ W!AppendElement("Block", BlockSize, FALSE)
    /\ cluster' = [cluster EXCEPT !.pending = @ - 1]
    /\ UNCHANGED <<stage, header, sizes, recorded, found>>

StillProvisional(n) == ClusterMeta
BodyOf(n) == ClusterMeta + n * BlockSize

CloseCluster ==
    /\ Runs /\ stage = "flush" /\ cluster.pending = 0
    /\ sizes' = [sizes EXCEPT ![cluster.at] = BodyOf(cluster.blocks)]
    /\ cluster' = NoCluster
    /\ stage' = "clusters"
    /\ UNCHANGED <<writerVars, header, recorded, found>>

FinaliseSegment ==
    /\ Runs /\ stage = "clusters"
    /\ W!FinaliseBegin
    /\ stage' = "finalise"
    /\ UNCHANGED <<recorderVars, found>>

FinaliseGoesOn ==
    /\ Runs /\ stage = "finalise"
    /\ W!FinaliseStep
    /\ UNCHANGED <<stage, recorderVars, found>>

(* The program ends, or is ended.                                          *)
Stop ==
    /\ stage \notin {"stopped", "reading", "refused"}
    /\ stage' = "stopped"
    /\ UNCHANGED <<writerVars, recorderVars, found>>

----------------------------------------------------------------------------
(* The file as a reader finds it: element after element, by what their     *)
(* size fields say.  Bytes in the middle of an element are none.           *)

BlocksIn(p, q) ==
    Cardinality({b \in p..(q - 1) : stream[b].kind = "Block" /\ stream[b].at = b})

Element(kind, len, blocks, names) ==
    [kind |-> kind, len |-> len, blocks |-> blocks, names |-> names, narrow |-> 0]

ElementAt(p) ==
    LET e == stream[p] IN
    IF e.at # p THEN Element("Garbage", End(e) - p, 0, <<>>)
    ELSE IF e.kind = "Cluster"
    THEN Element("Cluster", ClusterHeader + sizes[p],
                 BlocksIn(End(e), p + ClusterHeader + sizes[p]), <<>>)
    ELSE Element(e.kind, e.len, 0, e.entries)

Layout ==
    LET from[p \in Positions] ==
            IF p >= eof THEN <<>>
            ELSE <<ElementAt(p)>> \o from[p + ElementAt(p).len]
    IN  from[W!BodyStart]

(* prepare_stream() looks for the byte a header starts with, and compares  *)
(* both versions with that of the library.                                 *)
LooksForHeader(h) == h.lead # "marker"
Prepare(h) ==
    IF h.type = "none" \/ ~LooksForHeader(h) THEN "NotEBML"
    ELSE IF h.type # "tawara" THEN "NotTawara"
    ELSE IF h.read > VersionMajor THEN "BadReadVersion"
    ELSE IF h.docRead > VersionMajor THEN "BadDocReadVersion" ELSE "ok"

(* The examples want the header at the start of the file.                  *)
Examine(h) ==
    IF h.type = "none" \/ h.lead # "none" THEN "NotEBML"
    ELSE IF h.type # "tawara" THEN "NotTawara"
    ELSE IF h.read > EBMLVersion THEN "BadReadVersion"
    ELSE IF h.docRead > VersionMajor THEN "BadDocReadVersion" ELSE "ok"

SegmentThere == pc # "new"

OpenFile(opened) ==
    /\ stage = "stopped"
    /\ verdict' = opened
    /\ IF opened = "ok" /\ SegmentThere /\ W!BodyStart < eof
       THEN /\ stage' = "reading"
            /\ doc' = Layout
            /\ said' = stream[seg.offset + W!IdLen].size
       ELSE stage' = "refused" /\ UNCHANGED <<doc, said>>
    /\ UNCHANGED <<writerVars, recorderVars, readerVars>>

ReadDocument ==
    /\ stage = "reading"
    /\ R!Read \/ R!Iterate
    /\ UNCHANGED <<writerVars, stage, recorderVars, verdict, said>>

----------------------------------------------------------------------------
Init ==
    /\ joint \in BOOLEAN /\ rpos = 0
    /\ \E n \in PadSizes :
        seg = [offset |-> 0, size |-> n, pad |-> n, writing |-> FALSE]
    /\ \/ /\ stage = "empty" /\ header = NoHeader
          /\ stream = [p \in Positions |-> Free]
          /\ eof = 0 /\ wpos = 0
       \/ /\ stage = "tracks" /\ header \in Foreign
          /\ stream = [p \in Positions |->
                IF p < HeaderSize THEN Plain("EBML", 0, HeaderSize) ELSE Free]
          /\ eof = HeaderSize /\ wpos = HeaderSize
    /\ index = <<>> /\ indexBody = 0
    /\ info \in InfoSizes
    /\ kept = {} /\ threw = {} /\ fin = W!NoFin /\ pc = "new"
    /\ cluster = NoCluster /\ sizes = <<>> /\ recorded = <<>>
    /\ verdict = "none" /\ doc = <<>> /\ said = 0
    /\ rat = 0 /\ rindex = <<>> /\ have = {} /\ last = 0
    /\ phase = "start" /\ result = "none" /\ cur = 0 /\ blk = 1 /\ visited = <<>>

Record ==
    \/ WriteHeader \/ SetPad \/ OpenSegment \/ WriteTracks
    \/ OpenCluster("memory") \/ OpenCluster("file") \/ PushBlock
    \/ FinaliseCluster \/ FlushBlock \/ CloseCluster
    \/ FinaliseSegment \/ FinaliseGoesOn

ReadBack == OpenFile(Prepare(header)) \/ OpenFile(Examine(header)) \/ ReadDocument

Next == Record \/ Stop \/ ReadBack

(* Programs may stop; a reader that has opened a file reads on.            *)
Spec == Init /\ [][Next]_vars /\ WF_vars(ReadDocument)

----------------------------------------------------------------------------
(* The blocks by number of their cluster and number in it.                 *)
Nth(i) == Cardinality({j \in 1..i : doc[j].kind = "Cluster"})
Seen == [k \in DOMAIN visited |-> <<Nth(visited[k][1]), visited[k][2]>>]
Recorded ==
    FlattenSeq([c \in DOMAIN recorded |-> [b \in 1..recorded[c] |-> <<c, b>>]])

Finished == pc = "closed" /\ Runs

(* What a program has recorded and finalised without an exception is read  *)
(* without one, the tracks through the index and every block in order,     *)
(* however it was padded and indexed; not even one block is another matter.*)
FinishedIsRead ==
    stage = "reading" /\ Finished /\ Recorded # <<>> =>
        /\ result = "none"
        /\ R!ReadReturned => \E i \in R!Found(rindex, "Tracks") : R!IsAt("Tracks", R!PlaceOf(rindex[i]))
        /\ phase = "done" => Seen = Recorded

(* Wherever the program stopped, between any two writes, the reader is on  *)
(* blocks that were recorded, from the first on and without a gap; and it  *)
(* gets to none before finalise() of the segment was under way.            *)
UnfinishedIsHonest ==
    stage = "reading" =>
        /\ IsPrefix(Seen, Recorded)
        /\ R!ReadReturned => pc \notin {"new", "open"} \/ ~Runs

(* A reader comes to an end with any file.                                 *)
ReadingEnds == (stage = "reading") ~> (phase \in {"done", "failed"})

(* A stream that is not empty is treated "as an existing EBML file and     *)
(* read" (tawara.h:68-70): that of this library among them, as a test      *)
(* expects (test_tawara.cpp:88-100).                                       *)
OwnIsAccepted == header = OwnHeader /\ stage \in {"reading", "refused"} => verdict = "ok"
=============================================================================
