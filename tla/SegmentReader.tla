--------------------------- MODULE SegmentReader ---------------------------
(***************************************************************************)
(* Reading a segment (src/src/segment.cpp): read_body() reads or builds an *)
(* index of the level-1 elements, just as far as it has to, reads the      *)
(* SegmentInfo and leaves the rest alone.  The block iterator then starts  *)
(* from the index and goes from cluster to cluster by their sizes          *)
(* (src/include/tawara/segment.h).                                         *)
(*                                                                         *)
(* A segment is the sequence of its level-1 elements and the size it       *)
(* declares, which is another one if its writer never came to finalise().  *)
(* Offsets count bytes from the start of its body.  The code reckons with  *)
(* size fields of 8 bytes in segments and clusters; those of other writers *)
(* may be narrower.                                                        *)
(***************************************************************************)
EXTENDS Integers, Sequences

CONSTANT Segments      \* what there may be to read

Wanted == {"Info", "Tracks", "Cluster"}
Indexed == {"Cues", "Attachments", "Chapters", "Tags"}

HeaderLen == 12        \* ID and size field of a segment or a cluster
MinBody == 10          \* IDs of Tracks and a Cluster, and two size bytes
LongestId == 8         \* the most octets ids::read() takes

(* A level-1 element: `names` are the entries of a SeekHead, `blocks` the  *)
(* number of blocks in a cluster, and `narrow` the bytes by which its size *)
(* field is narrower than the code expects.                                *)
Entries == [kind : STRING, offset : Nat]
Elements == [kind : STRING, len : Nat \ {0}, blocks : Nat, names : Seq(Entries),
             narrow : 0..7]

(* A cluster has a header and something in its body.                       *)
ASSUME SegmentsAssumption ==
    \A s \in Segments :
        /\ s.elements \in Seq(Elements) /\ s.elements # <<>>
        /\ s.declared \in Nat /\ s.narrow \in 0..7
        /\ \A i \in 1..Len(s.elements) :
              s.elements[i].kind = "Cluster" =>
                  s.elements[i].len + s.elements[i].narrow > HeaderLen

VARIABLES
    layout,    \* the segment that is read,
    declared,  \* the size it says it has,
    narrow,    \* and by how much its size field is narrower than 8 bytes
    at,        \* tellg()
    index,     \* seg.index, in the order of insertion
    have,      \* the have_ flags that are set
    last,      \* last_read_end
    phase,     \* where read_body() or the iteration is
    result,    \* the exception that ended it, if any
    cur, blk,  \* the block iterator: a cluster (0: none), a block in it
    visited    \* history: the blocks it has been on

segment == <<layout, declared, narrow>>
readVars == <<segment, at, index, have, last>>
iterVars == <<cur, blk, visited>>
vars == <<readVars, phase, result, iterVars>>

(* Where the elements of a segment end; the first starts at 0.             *)
Ends(es) ==
    LET ends[i \in 0..Len(es)] == IF i = 0 THEN 0 ELSE ends[i - 1] + es[i].len
    IN  ends

At(i) == Ends(layout)[i - 1]
EndOf(i) == At(i) + layout[i].len
LayoutEnd == Ends(layout)[Len(layout)]

IsAt(kind, p) == \E i \in DOMAIN layout : At(i) = p /\ layout[i].kind = kind
ElementAt(p) == CHOOSE i \in DOMAIN layout : At(i) = p

(* find(): of entries with the same ID, a multimap gives the oldest.       *)
Found(entries, kind) == {i \in DOMAIN entries : entries[i].kind = kind}
Find(entries, kind) ==
    entries[CHOOSE i \in Found(entries, kind) : \A j \in Found(entries, kind) : i <= j]

KindsNamed(names) == {kind \in Wanted : Found(names, kind) # {}}

(* What comes of reading an ID at a place where the element that is wanted *)
(* does not start: another element does, or the stream is at its end, or   *)
(* the bytes are the inside of an element.  Those may look like any other  *)
(* ID, like none, or like one that goes on behind the end; it is assumed   *)
(* that they never look like the ID that is wanted.                        *)
StartsAt(p) == \E i \in DOMAIN layout : At(i) = p
Inside(p) == p < LayoutEnd /\ ~StartsAt(p)

Misread(p) ==
    {why \in {"OtherId", "ReadError", "InvalidVarInt", "InvalidEBMLID"} :
        /\ why = "OtherId" => p < LayoutEnd
        /\ why = "ReadError" => p + LongestId > LayoutEnd /\ ~StartsAt(p)
        /\ why \in {"InvalidVarInt", "InvalidEBMLID"} => Inside(p)}

(* What read_body() and open_cluster() make of it.                         *)
InBody(why) == IF why = "OtherId" THEN "NoSegmentInfo" ELSE why
InIteration ==
    [OtherId |-> "InvalidChildID in iteration", ReadError |-> "ReadError in iteration",
     InvalidVarInt |-> "InvalidVarInt in iteration",
     InvalidEBMLID |-> "InvalidEBMLID in iteration"]

IterationFailures ==
    {"InvalidChildID in iteration", "ReadError in iteration", "InvalidVarInt in iteration",
     "InvalidEBMLID in iteration", "undefined in iteration"}

(* to_segment_offset() and to_stream_offset()                              *)
TrueOffset(p) == p
OffsetOf(p) == p - narrow
PlaceOf(entry) == entry.offset + narrow

Fail(why) == phase' = "failed" /\ result' = why

----------------------------------------------------------------------------
(* A body that cannot hold Tracks and a cluster is refused unread; the     *)
(* index has been cleared by then.                                         *)
RefuseBody ==
    /\ phase = "start" /\ declared < MinBody
    /\ Fail("BadBodySize")
    /\ UNCHANGED <<readVars, iterVars>>

(* A SeekHead that comes first is the index.                               *)
ReadFirst ==
    /\ phase = "start" /\ declared >= MinBody
    /\ phase' = "scan"
    /\ IF layout[1].kind = "SeekHead"
       THEN /\ index' = layout[1].names
            /\ have' = {"SeekHead"} \cup KindsNamed(layout[1].names)
            /\ at' = EndOf(1) /\ last' = EndOf(1)
       ELSE UNCHANGED <<at, index, have, last>>
    /\ UNCHANGED <<segment, result, iterVars>>

(* What is missing is searched for, element by element.                    *)
Searching == at < declared /\ ~({"SeekHead"} \cup Wanted \subseteq have)

Meet(kinds) ==
    /\ phase = "scan" /\ Searching /\ at < LayoutEnd
    /\ layout[ElementAt(at)].kind \in kinds

Here == layout[ElementAt(at)]
OnlyWhatIsRead(e) == IF e.kind = "Void" THEN 0 ELSE e.len
SkipLen(e) == e.len
Skipped == at' = at + SkipLen(Here)
PastItsId == [kind |-> Here.kind, offset |-> OffsetOf(at + 4)]
Entry == [kind |-> Here.kind, offset |-> OffsetOf(at)]

(* Another SeekHead replaces the index, with all that the search has put   *)
(* into it; the flags stay.  Only a first element sets the flag that makes *)
(* a second SeekHead an error.                                             *)
TakeIndex == index' = Here.names /\ have' = have \cup KindsNamed(Here.names)

MeetSeekHead ==
    /\ Meet({"SeekHead"})
    /\ IF "SeekHead" \in have
       THEN Fail("MultipleSeekHeads") /\ UNCHANGED readVars
       ELSE /\ TakeIndex
            /\ Skipped /\ last' = at'
            /\ UNCHANGED <<segment, phase, result>>
    /\ UNCHANGED iterVars

MeetInfoOrTracks ==
    /\ Meet({"Info", "Tracks"})
    /\ have' = have \cup {Here.kind}
    /\ index' = Append(index, Entry)
    /\ Skipped
    /\ UNCHANGED <<segment, last, phase, result, iterVars>>

(* Only the first cluster goes into the index.                             *)
FirstCluster == "Cluster" \notin have

MeetCluster ==
    /\ Meet({"Cluster"})
    /\ have' = have \cup {"Cluster"}
    /\ index' = IF FirstCluster THEN Append(index, Entry) ELSE index
    /\ Skipped
    /\ UNCHANGED <<segment, last, phase, result, iterVars>>

MeetOther ==
    /\ Meet(Indexed \cup {"Void"})
    /\ index' = IF Here.kind = "Void" THEN index ELSE Append(index, Entry)
    /\ Skipped
    /\ UNCHANGED <<segment, have, last, phase, result, iterVars>>

MeetStranger ==
    /\ phase = "scan" /\ Searching /\ at < LayoutEnd
    /\ Here.kind \notin Wanted \cup Indexed \cup {"SeekHead", "Void"}
    /\ Fail("InvalidChildID")
    /\ UNCHANGED <<readVars, iterVars>>

(* The segment is shorter than it says.                                    *)
MeetEnd ==
    /\ phase = "scan" /\ Searching /\ at = LayoutEnd
    /\ Fail("ReadError")
    /\ UNCHANGED <<readVars, iterVars>>

StopSearching ==
    /\ phase = "scan" /\ ~Searching
    /\ phase' = "check"
    /\ UNCHANGED <<readVars, result, iterVars>>

(* The SegmentInfo is read from where the index says it is: an ID other    *)
(* than its own there makes it missing, no ID is an error of reading IDs.  *)
(* Dereferencing find() when the index has no entry for it is undefined    *)
(* behaviour.                                                              *)
EndFirst(p) == last
Further(p) == IF p > last THEN p ELSE last

Check ==
    /\ phase = "check"
    /\ IF "Info" \notin have
       THEN Fail("NoSegmentInfo") /\ UNCHANGED <<at, last>>
       ELSE IF Found(index, "Info") = {}
       THEN Fail("undefined") /\ UNCHANGED <<at, last>>
       ELSE IF ~IsAt("Info", PlaceOf(Find(index, "Info")))
       THEN /\ \E why \in Misread(PlaceOf(Find(index, "Info"))) : Fail(InBody(why))
            /\ UNCHANGED <<at, last>>
       ELSE LET end == EndOf(ElementAt(PlaceOf(Find(index, "Info")))) IN
            /\ last' = Further(end)
            /\ IF "Tracks" \notin have THEN Fail("NoTracks") /\ at' = end
               ELSE IF "Cluster" \notin have THEN Fail("NoClusters") /\ at' = end
               ELSE phase' = "ready" /\ at' = last' /\ UNCHANGED result
    /\ UNCHANGED <<segment, index, have, iterVars>>

----------------------------------------------------------------------------
(* open_cluster() reads an ID other than the one it wants, or none.        *)
NoClusterAt(p) == \E why \in Misread(p) : Fail(InIteration[why])

(* The block iterator starts at the cluster in the index, if there is one. *)
Begin ==
    /\ phase = "ready"
    /\ IF Found(index, "Cluster") = {}
       THEN phase' = "done" /\ UNCHANGED <<result, iterVars>>
       ELSE IF IsAt("Cluster", PlaceOf(Find(index, "Cluster")))
       THEN /\ phase' = "iterate"
            /\ cur' = ElementAt(PlaceOf(Find(index, "Cluster")))
            /\ blk' = 1
            /\ UNCHANGED <<result, visited>>
       ELSE NoClusterAt(PlaceOf(Find(index, "Cluster"))) /\ UNCHANGED iterVars
    /\ UNCHANGED readVars

(* ++ within a cluster                                                     *)
VisitBlock ==
    /\ phase = "iterate" /\ blk <= layout[cur].blocks
    /\ visited' = Append(visited, <<cur, blk>>)
    /\ blk' = blk + 1
    /\ UNCHANGED <<readVars, phase, result, cur>>

(* ++ of the cluster iterator: the segment counts as ended as soon as its  *)
(* size, counted from its first byte, is passed, and anything but a        *)
(* cluster ends in the exception meant to be caught.  Reaching the end     *)
(* while no block has been found yet dereferences the null cluster.        *)
EndsEarly(p) == p + 2 * HeaderLen >= declared
PastEnd(p) == p + HeaderLen - narrow >= declared

(* size() of a cluster counts a size field of 8 bytes.                     *)
Behind(i) == EndOf(i) + layout[i].narrow

NextCluster ==
    LET p == Behind(cur) IN
    /\ phase = "iterate" /\ blk > layout[cur].blocks
    /\ \/ /\ PastEnd(p) /\ visited # <<>>
          /\ phase' = "done" /\ cur' = 0
          /\ UNCHANGED <<result, blk>>
       \/ /\ PastEnd(p) /\ visited = <<>>
          /\ Fail("undefined in iteration") /\ cur' = 0
          /\ UNCHANGED blk
       \/ /\ ~PastEnd(p) /\ IsAt("Cluster", p)
          /\ cur' = ElementAt(p) /\ blk' = 1
          /\ UNCHANGED <<phase, result>>
       \/ /\ ~PastEnd(p) /\ ~IsAt("Cluster", p)
          /\ NoClusterAt(p)
          /\ UNCHANGED <<cur, blk>>
    /\ UNCHANGED <<readVars, visited>>

Init ==
    /\ \E s \in Segments :
        layout = s.elements /\ declared = s.declared /\ narrow = s.narrow
    /\ at = 0 /\ index = <<>> /\ have = {} /\ last = 0
    /\ phase = "start" /\ result = "none"
    /\ cur = 0 /\ blk = 1 /\ visited = <<>>

Finished == phase \in {"done", "failed"} /\ UNCHANGED vars

Read ==
    \/ RefuseBody \/ ReadFirst
    \/ MeetSeekHead \/ MeetInfoOrTracks \/ MeetCluster
    \/ MeetOther \/ MeetStranger \/ MeetEnd
    \/ StopSearching \/ Check

Iterate == Begin \/ VisitBlock \/ NextCluster

Next == Read \/ Iterate \/ Finished

(* A running call takes its next step.                                     *)
Spec == Init /\ [][Next]_vars /\ WF_vars(Read \/ Iterate)

----------------------------------------------------------------------------
(* Facts about the segment, for stating what reading it should give.       *)
Has(kind) == \E i \in DOMAIN layout : layout[i].kind = kind
HasInside(kind) == \E i \in DOMAIN layout : layout[i].kind = kind /\ At(i) < declared
FirstOf(kind) ==
    CHOOSE i \in DOMAIN layout :
        layout[i].kind = kind /\ \A j \in 1..(i - 1) : layout[j].kind # kind

(* The SeekHeads that are read: the first element, or else all the others. *)
Heads == {i \in DOMAIN layout :
            layout[i].kind = "SeekHead" /\ (i = 1 \/ layout[1].kind # "SeekHead")}
NamedBy(i) == KindsNamed(layout[i].names)

(* What they name is there, and the first of its kind.                     *)
NamesLead ==
    \A i \in Heads : \A k \in NamedBy(i) :
        Has(k) /\ PlaceOf(Find(layout[i].names, k)) = At(FirstOf(k))

(* Where they say that a kind is, and where they are wrong in that.        *)
NamedPlaces(kind) ==
    {PlaceOf(Find(layout[i].names, kind)) : i \in {h \in Heads : kind \in NamedBy(h)}}
Astray(kind) == {p \in NamedPlaces(kind) : ~IsAt(kind, p)}

(* A SeekHead that is not the first element names whatever of the wanted   *)
(* kinds comes before it, or is named by one that does.                    *)
LateIndexComplete ==
    \A i \in Heads : \A j \in 1..(i - 1) : \A k \in Wanted :
        layout[j].kind = k \/ (j \in Heads /\ k \in NamedBy(j)) => k \in NamedBy(i)

(* After a cluster there are only clusters, as wide as the code expects,   *)
(* and some block is there.                                                *)
ClustersLast ==
    \A i, j \in DOMAIN layout :
        i < j /\ layout[i].kind = "Cluster" => layout[j].kind = "Cluster"
ClustersWide == \A i \in DOMAIN layout : layout[i].narrow = 0
Blocks == UNION {{<<i, b>> : b \in 1..layout[i].blocks} :
                    i \in {i \in DOMAIN layout : layout[i].kind = "Cluster"}}

ReadReturned == phase \in {"ready", "iterate", "done"}

(* read_body() accepts only segments with SegmentInfo, Tracks and a        *)
(* cluster, where it takes the word of a SeekHead for the last two; and    *)
(* the exception it throws names something that is wrong, although it      *)
(* looks no further than it must, and takes the size for what it is        *)
(* (segment.h:572-577, 590-594).  A SegmentInfo that is missing is inside  *)
(* the declared size nowhere, or a SeekHead says that it is where          *)
(* something else is; a ReadError means that the size is too large, or     *)
(* that a SeekHead puts the SegmentInfo at or behind the last octets; and  *)
(* what is no ID was read because one puts it inside an element.           *)
VerdictJustified ==
    /\ ReadReturned => /\ Has("Info")
                       /\ \A k \in Wanted : Has(k) \/ \E i \in Heads : k \in NamedBy(i)
    /\ result = "NoSegmentInfo" =>
            ~HasInside("Info") \/ \E p \in Astray("Info") : p < LayoutEnd
    /\ result = "NoTracks" => ~HasInside("Tracks")
    /\ result = "NoClusters" => ~HasInside("Cluster")
    /\ result = "ReadError" =>
            declared > LayoutEnd \/ \E p \in Astray("Info") : p + LongestId > LayoutEnd
    /\ result \in {"InvalidVarInt", "InvalidEBMLID"} => \E p \in Astray("Info") : Inside(p)
    /\ result = "MultipleSeekHeads" =>
            \E i, j \in DOMAIN layout :
                i # j /\ layout[i].kind = "SeekHead" /\ layout[j].kind = "SeekHead"

(* read_body() leaves the read position at the end of the SegmentInfo, or  *)
(* of the SeekHead if that lies behind it (segment.h:579-582): of a late   *)
(* SeekHead only if the search came that far.                              *)
PointerPlaced ==
    ReadReturned /\ LateIndexComplete /\ NamesLead =>
        LET ends == {EndOf(i) : i \in {FirstOf("Info")} \cup Heads}
        IN  /\ at \in ends
            /\ declared >= LayoutEnd => \A p \in ends : p <= at

(* After read_body() the index leads to SegmentInfo, Tracks and the first  *)
(* cluster: examples/read.cpp:133-135 dereferences find() on it, because   *)
(* "otherwise the call to segment.read() would have thrown an error".  It  *)
(* does so with a size field of any width if there was none in the stream. *)
IndexGuaranteed ==
    ReadReturned => \A k \in Wanted :
        /\ Found(index, k) # {}
        /\ PlaceOf(Find(index, k)) = At(FirstOf(k))

IndexGuaranteedIfComplete == LateIndexComplete /\ NamesLead => IndexGuaranteed

(* The iteration is on the blocks of the clusters in order and leaves none *)
(* out, wherever a wrong size makes it end; it is on every block, and ends *)
(* without an exception, when the size is right, clusters come last and    *)
(* not all are empty, and the index survives.                              *)
Precedes(x, y) == x[1] < y[1] \/ (x[1] = y[1] /\ x[2] < y[2])
VisitedBefore(n) == {visited[m] : m \in 1..(n - 1)}

InOrder ==
    \A n \in DOMAIN visited :
        visited[n] \in Blocks /\ \A x \in VisitedBefore(n) : Precedes(x, visited[n])
NoneLeftOut ==
    \A n \in DOMAIN visited, x \in Blocks :
        Precedes(x, visited[n]) => x \in VisitedBefore(n)

IterationComplete ==
    LateIndexComplete /\ NamesLead /\ ClustersWide =>
        /\ InOrder /\ NoneLeftOut
        /\ ClustersLast /\ Blocks # {} /\ declared = LayoutEnd =>
            /\ phase = "done" => \A x \in Blocks : \E n \in DOMAIN visited : visited[n] = x
            /\ result \notin IterationFailures

(* Reading and iterating come to an end, whatever the segment.             *)
Terminates == <>(phase \in {"done", "failed"})
=============================================================================
