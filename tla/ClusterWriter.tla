--------------------------- MODULE ClusterWriter ---------------------------
(***************************************************************************)
(* Writing clusters one after the other into a stream: write(), blocks by  *)
(* push_back(), finalise() (src/src/cluster.cpp and the two kinds of       *)
(* cluster).  A memory cluster keeps its blocks and finalise() writes      *)
(* them; a file cluster writes each block as it comes.  Both patch the     *)
(* size field that write() left provisional.                               *)
(*                                                                         *)
(* Between two calls the caller may use the stream for something else, for *)
(* instance to read from a std::fstream, which moves the position.         *)
(***************************************************************************)
EXTENDS ByteStream, Sequences

CONSTANTS
    Flavours,          \* "memory", "file"
    Blocks, BlockLen,  \* blocks, and how many bytes each takes
    MetaSizes,         \* what meta_size() can be
    Start,             \* where in the stream the first cluster is written
    MetaPhases,        \* when the caller sets timecode, silent tracks, ...
    PushPhases,        \* when the caller calls push_back()
    MaxClusters, MaxBlocks     \* bounds: clusters, and blocks in each

Phases == {"new", "open", "closed"}
OwnKinds == {"Free", "Before", "ClusterID", "ClusterSize", "Meta"}

IdLen == 4
SizeLen == 8
HeaderLen == IdLen + SizeLen

ASSUME ClusterAssumption ==
    /\ Flavours \subseteq {"memory", "file"}
    /\ BlockLen \in [Blocks -> Nat \ {0}]
    /\ MetaSizes \subseteq Nat \ {0}
    /\ Start \in 0..StreamMax
    /\ MetaPhases \subseteq Phases /\ PushPhases \subseteq Phases
    /\ MaxClusters \in Nat /\ MaxBlocks \in Nat
    /\ Blocks \cap OwnKinds = {}

VARIABLES
    stream, eof,
    wpos,      \* tellp()
    moved,     \* the caller has moved the write position away from the end
    c,         \* the cluster object
    phase,     \* which of write() and finalise() it has seen last
    kept,      \* history: what closed clusters consist of, size field aside
    closed,    \* history: offsets of the closed clusters
    threw      \* history: exceptions thrown so far

vars == <<stream, eof, wpos, moved, c, phase, kept, closed, threw>>
streamVars == <<stream, eof, wpos, moved>>

New(flavour, meta) ==
    [flavour |-> flavour, offset |-> 0, meta |-> meta, writing |-> FALSE,
     blocks |-> <<>>,          \* blocks_ of a memory cluster
     start |-> 0, end |-> 0]   \* blocks_start_pos_, blocks_end_pos_

InMemory == c.flavour = "memory"

(* How many bytes the first blocks take together, for any number of them.  *)
Sums(bs) ==
    LET sum[i \in 0..Len(bs)] == IF i = 0 THEN 0 ELSE sum[i - 1] + BlockLen[bs[i]]
    IN  sum

LenOf(bs) == Sums(bs)[Len(bs)]

(* Where blocks come to lie when written one after the other.              *)
BlockAt(bs, from, i) == Plain(bs[i], from + Sums(bs)[i - 1], BlockLen[bs[i]])

SkipsLast(bs, from) == {BlockAt(bs, from, i) : i \in 1..(Len(bs) - 1)}
Laid(bs, from) == {BlockAt(bs, from, i) : i \in 1..Len(bs)}

(* What a reader finds between two positions: it goes from each whole      *)
(* element to the next.                                                    *)
ReadableAt(s, p) ==
    p \in Positions /\ s[p].at = p /\ p < End(s[p]) /\ Whole(s, s[p])

BlocksIn(s, from, to) ==
    LET walk[p \in Nat] ==
            IF p < to /\ ReadableAt(s, p) THEN <<s[p].kind>> \o walk[End(s[p])]
                                          ELSE <<>>
    IN  walk[from]

(* The blocks come behind the metadata.                                    *)
BlocksOf(s, offset) ==
    LET body == offset + HeaderLen
    IN  BlocksIn(s, End(s[body]), body + s[offset + IdLen].size)

PutAll(s, es) ==
    [p \in Positions |->
        IF \E e \in es : p \in Bytes(e) THEN CHOOSE e \in es : p \in Bytes(e)
                                        ELSE s[p]]

(* body_size(), from what the object holds now.                            *)
OmitsMeta == IF InMemory THEN LenOf(c.blocks) ELSE c.end - c.start
BodySize ==
    c.meta + (IF InMemory THEN LenOf(c.blocks) ELSE c.end - c.start)

SizeField(at, n) == Extent("ClusterSize", at + IdLen, SizeLen, n, <<>>)

----------------------------------------------------------------------------
(* timecode(), silent_tracks(), previous_size()                            *)
SetMeta(n) ==
    /\ phase \in MetaPhases
    /\ c' = [c EXCEPT !.meta = n]
    /\ UNCHANGED <<streamVars, phase, kept, closed, threw>>

(* write(): ID, a provisional size and the metadata.  A file cluster then  *)
(* notes where its blocks go; one written again still counts the blocks it *)
(* had before into the provisional size.                                   *)
Write ==
    LET id == Plain("ClusterID", wpos, IdLen)
        meta == Plain("Meta", wpos + HeaderLen, c.meta)
    IN  /\ phase # "open" /\ ~moved /\ Len(closed) < MaxClusters
        /\ End(meta) <= StreamMax
        /\ stream' = Put(Put(Put(stream, id), SizeField(wpos, BodySize)), meta)
        /\ eof' = IF End(meta) > eof THEN End(meta) ELSE eof
        /\ wpos' = End(meta)
        /\ c' = IF InMemory
                THEN [c EXCEPT !.offset = wpos, !.writing = TRUE]
                ELSE [c EXCEPT !.offset = wpos, !.writing = TRUE,
                               !.start = End(meta), !.end = End(meta)]
        /\ phase' = "open"
        /\ UNCHANGED <<moved, kept, closed, threw>>

(* push_back() of a memory cluster takes a block whatever the state.       *)
PushInMemory(b) ==
    /\ phase \in PushPhases /\ InMemory /\ Len(c.blocks) < MaxBlocks
    /\ c' = [c EXCEPT !.blocks = Append(@, b)]
    /\ UNCHANGED <<streamVars, phase, kept, closed, threw>>

(* push_back() of a file cluster writes the block behind the last one,     *)
(* wherever the caller left the position, and leaves it there.             *)
WhereTheCallerIs == wpos
BlockPos == c.end

PushInFile(b) ==
    LET e == Plain(b, BlockPos, BlockLen[b])
    IN  /\ phase \in PushPhases /\ ~InMemory /\ c.writing
        /\ Len(BlocksIn(stream, c.start, c.end)) < MaxBlocks
        /\ End(e) <= StreamMax
        /\ stream' = Put(stream, e)
        /\ eof' = IF End(e) > eof THEN End(e) ELSE eof
        /\ wpos' = End(e)
        /\ moved' = FALSE
        /\ c' = [c EXCEPT !.end = End(e)]
        /\ UNCHANGED <<phase, kept, closed, threw>>

PushRefused ==
    /\ ~InMemory /\ ~c.writing
    /\ threw' = threw \cup {"NotWriting in push_back"}
    /\ UNCHANGED <<streamVars, c, phase, kept, closed>>

(* erase() and clear(), which file clusters do not have                    *)
Erase(i, j) ==
    /\ InMemory
    /\ c' = [c EXCEPT !.blocks = SubSeq(@, 1, i - 1) \o SubSeq(@, j, Len(@))]
    /\ UNCHANGED <<streamVars, phase, kept, closed, threw>>

(* finalise(): a memory cluster writes its blocks at the write position;   *)
(* the size goes over the provisional one, the position back.              *)
BackTo(end) == end

Finalise ==
    LET blocks == IF InMemory THEN Laid(c.blocks, wpos)
                  ELSE {stream[p] : p \in c.start..(c.end - 1)}
        end == IF InMemory THEN wpos + LenOf(c.blocks) ELSE wpos
        written == IF InMemory THEN PutAll(stream, blocks) ELSE stream
    IN  /\ phase = "open" /\ c.writing
        /\ InMemory => ~moved
        /\ end <= StreamMax
        /\ stream' = Put(written, SizeField(c.offset, BodySize))
        /\ eof' = IF end > eof THEN end ELSE eof
        /\ wpos' = BackTo(end)
        /\ c' = [c EXCEPT !.writing = FALSE]
        /\ phase' = "closed"
        /\ kept' = kept \cup blocks \cup {stream[c.offset],
                                          stream[c.offset + HeaderLen]}
        /\ closed' = Append(closed, c.offset)
        /\ UNCHANGED <<moved, threw>>

FinaliseRefused ==
    /\ ~c.writing
    /\ threw' = threw \cup {"NotWriting in finalise"}
    /\ UNCHANGED <<streamVars, c, phase, kept, closed>>

(* The caller goes on with another cluster object.                         *)
Renew ==
    /\ phase = "closed"
    /\ \E f \in Flavours, n \in MetaSizes : c' = New(f, n)
    /\ phase' = "new"
    /\ UNCHANGED <<streamVars, kept, closed, threw>>

(* The caller uses the stream for something else, and goes back to its end *)
(* before anything that relies on the position: write(), and finalise() of *)
(* a memory cluster.                                                       *)
MoveAway ==
    /\ wpos' = 0 /\ moved' = TRUE
    /\ UNCHANGED <<stream, eof, c, phase, kept, closed, threw>>

MoveBack ==
    /\ moved
    /\ wpos' = eof /\ moved' = FALSE
    /\ UNCHANGED <<stream, eof, c, phase, kept, closed, threw>>

Init ==
    /\ stream = [p \in Positions |->
                  IF p < Start THEN Plain("Before", 0, Start) ELSE Free]
    /\ eof = Start /\ wpos = Start /\ moved = FALSE
    /\ \E f \in Flavours, n \in MetaSizes : c = New(f, n)
    /\ phase = "new"
    /\ kept = {Plain("Before", 0, Start)}
    /\ closed = <<>>
    /\ threw = {}

Next ==
    \/ \E n \in MetaSizes : SetMeta(n)
    \/ Write
    \/ \E b \in Blocks : PushInMemory(b) \/ PushInFile(b)
    \/ PushRefused
    \/ \E i, j \in 1..(Len(c.blocks) + 1) : i < j /\ Erase(i, j)
    \/ Finalise
    \/ FinaliseRefused
    \/ Renew
    \/ MoveAway
    \/ MoveBack

Spec == Init /\ [][Next]_vars

----------------------------------------------------------------------------
(* No cluster, once finalised, loses a byte of its metadata or its blocks  *)
(* to what is written later, whatever the caller does with the position    *)
(* while a file cluster is open.                                           *)
NothingOverwritten == \A e \in kept : Whole(stream, e)

(* The sizes that closed clusters declare lead a reader from each cluster  *)
(* to the next one and from the last one to the open cluster or the end    *)
(* (cluster.h:97-99, "the correct size value written over the dummy").     *)
DeclaredSizesChain ==
    \A i \in 1..Len(closed) :
        LET field == stream[closed[i] + IdLen]
            next == IF i < Len(closed) THEN closed[i + 1]
                    ELSE IF phase = "open" THEN c.offset ELSE eof
        IN  /\ field.kind = "ClusterSize" /\ field.at = closed[i] + IdLen
            /\ Whole(stream, field)
            /\ closed[i] + HeaderLen + field.size = next

(* A writer of clusters implements the log of clusters that the interface  *)
(* promises, where the log is what a reader recovers from the bytes in the *)
(* stream: blocks taken are there, in order, once, and stay there.         *)
Log == INSTANCE ClusterLog WITH
    contents <- IF InMemory THEN c.blocks ELSE BlocksIn(stream, c.start, c.end),
    log <- [i \in 1..Len(closed) |-> BlocksOf(stream, closed[i])]

ImplementsLog == Log!Spec
=============================================================================
