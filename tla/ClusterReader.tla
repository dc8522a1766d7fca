--------------------------- MODULE ClusterReader ---------------------------
(***************************************************************************)
(* Reading clusters (src/src/cluster.cpp).  A memory cluster takes all its *)
(* blocks out of the stream (src/src/memory_cluster.cpp).  A file cluster  *)
(* notes where they are (src/src/file_cluster.cpp) and reads them, while   *)
(* the client uses the stream for other things, one by one through         *)
(* iterators (src/include/tawara/file_cluster.h).                          *)
(*                                                                         *)
(* A stream is the sequence of its elements, the header of a cluster (its  *)
(* ID and size field) being one.  Besides its length an element has the    *)
(* length its object will say it has once it is read: another one if the   *)
(* writer chose wider fields than this library does, or wrote a default.   *)
(***************************************************************************)
EXTENDS Integers, SequencesExt

CONSTANTS
    Streams,       \* what there may be to read
    Cuts,          \* octets that may be missing at the end
    Flavours,      \* "memory", "file"
    Iterators,
    Places         \* where the client moves to, as elements of the stream

Meta == {"Timecode", "SilentTracks", "Position", "PrevSize"}
BlockIds == {"Block", "Bad"}    \* SimpleBlock or BlockGroup, or what has its ID
HeaderLen == 12                 \* a Cluster ID and a size field of 8 octets

Elements ==
    [kind : STRING, len : Nat \ {0}, own : Nat,
     at : Nat,           \* where it is
     declared : Nat]     \* of a cluster: its size field

ASSUME StreamsAssumption ==
    /\ \A s \in Streams :
        /\ s \in Seq(Elements) /\ s # <<>>
        /\ \A k \in DOMAIN s : s[k].at = IF k = 1 THEN 0 ELSE s[k - 1].at + s[k - 1].len
    /\ Cuts \subseteq Nat /\ Flavours \subseteq {"memory", "file"}

VARIABLES
    items, end,   \* the stream, and where it ends
    rpos,         \* tellg()
    obj,          \* the cluster object
    its,          \* the iterators on it
    phase,        \* the call that is under way, or "idle", "ready" when a
                  \* cluster has been read, "astray" when it goes wrong
    read, have,   \* read_bytes and have_timecode
    saved,        \* the position a call will go back to
    result,       \* what the last call returned or threw
    number,       \* and count() counted
    cluster,      \* history: the element that was last read as a cluster
    cpos          \* history: where the client has left the read position

vars == <<items, end, rpos, obj, its, phase, read, have, saved, result,
          number, cluster, cpos>>
stream == <<items, end>>

At(k) == items[k].at
EndOf(k) == At(k) + items[k].len
StreamEnd == EndOf(Len(items))
StartsAt(p) == {k \in DOMAIN items : At(k) = p}
There(p) == p < end /\ StartsAt(p) # {}
ItemAt(p) == CHOOSE k \in StartsAt(p) : TRUE
Whole(k) == EndOf(k) <= end

(* What reset() leaves: a timecode of zero has a size all the same.        *)
NoMeta == [Timecode |-> 2, SilentTracks |-> 0, Position |-> 0, PrevSize |-> 0]

NewObject(flavour) ==
    [flavour |-> flavour, offset |-> 0, meta |-> NoMeta,
     blocks |-> <<>>,                             \* memory
     opened |-> FALSE, start |-> 0, stop |-> 0]   \* file: istream_, positions

NoBlock == [block |-> 0, seen |-> <<>>, begun |-> FALSE]

InMemory == obj.flavour = "memory"

(* size(), from what the object holds.                                     *)
Sums(ns) ==
    LET sum[i \in 0..Len(ns)] == IF i = 0 THEN 0 ELSE sum[i - 1] + ns[i] IN sum
OwnLen(ks) == Sums([i \in DOMAIN ks |-> items[ks[i]].own])[Len(ks)]
ForgetsSilent(meta) == meta.Timecode + meta.Position + meta.PrevSize
MetaLen(meta) ==
    meta.Timecode + meta.SilentTracks + meta.Position + meta.PrevSize
ObjectSize ==
    HeaderLen + MetaLen(obj.meta)
        + (IF InMemory THEN OwnLen(obj.blocks) ELSE obj.stop - obj.start)

----------------------------------------------------------------------------
(* read(), the client having read the ID.  An exception leaves the         *)
(* position wherever the call had got to.                                  *)
Idle == phase \in {"idle", "ready"}
Declared == items[cluster].declared

ReadCluster ==
    /\ Idle
    /\ \E k \in DOMAIN items :
        /\ items[k].kind = "Cluster" /\ Whole(k)
        /\ cluster' = k /\ rpos' = EndOf(k)
        /\ obj' = [obj EXCEPT !.offset = At(k), !.meta = NoMeta]
    /\ phase' = "meta" /\ result' = "none" /\ number' = 0
    /\ its' = [i \in Iterators |-> NoBlock]
    /\ UNCHANGED <<stream, read, have, saved, cpos>>

Forget == read' = 0 /\ have' = FALSE /\ saved' = 0

Return(state, why) ==
    /\ phase' = state /\ result' = why /\ cpos' = rpos /\ number' = 0
    /\ Forget
    /\ UNCHANGED <<stream, rpos, obj, its, cluster>>

(* Every loop of these calls takes elements until the size is used up, and *)
(* the ID must be one of those it knows.                                   *)
Taking(p, size) == phase = p /\ read < size
Here == ItemAt(rpos)
Knows(kinds) == There(rpos) /\ items[Here].kind \in kinds

(* A second SilentTracks adds to the list, another child replaces the      *)
(* value.                                                                  *)
Merged(old, e) ==
    [old EXCEPT ![e.kind] =
        IF e.kind = "SilentTracks" /\ @ > 0 /\ e.own > 0 THEN @ + e.own - 2 ELSE e.own]

Took(k) == rpos' = EndOf(k) /\ read' = read + items[k].len

ReadMeta ==
    /\ Taking("meta", Declared) /\ Knows(Meta) /\ Whole(Here)
    /\ Took(Here)
    /\ obj' = [obj EXCEPT !.meta = Merged(@, items[Here])]
    /\ have' = (have \/ items[Here].kind = "Timecode")
    /\ UNCHANGED <<stream, its, phase, saved, result, number, cluster, cpos>>

(* The first block ends the metadata.  A memory cluster forgets the blocks *)
(* it had and reads these; a file cluster passes over whatever is left.    *)
(* The stream is a file: seeking behind its end is no error.               *)
MeetBlock ==
    /\ Taking("meta", Declared) /\ Knows(BlockIds)
    /\ IF InMemory
       THEN /\ phase' = "blocks" /\ obj' = [obj EXCEPT !.blocks = <<>>]
            /\ UNCHANGED <<rpos, read>>
       ELSE /\ rpos' = rpos + Declared - read /\ read' = Declared
            /\ obj' = [obj EXCEPT !.opened = TRUE, !.start = rpos, !.stop = rpos']
            /\ UNCHANGED phase
    /\ UNCHANGED <<stream, its, have, saved, result, number, cluster, cpos>>

ReadBlock ==
    /\ Taking("blocks", Declared) /\ Knows({"Block"}) /\ Whole(Here)
    /\ Took(Here)
    /\ obj' = [obj EXCEPT !.blocks = Append(@, Here)]
    /\ UNCHANGED <<stream, its, phase, have, saved, result, number, cluster, cpos>>

(* Another ID, a block with something wrong inside, or no more octets.     *)
ReadFails ==
    /\ \/ /\ Taking("meta", Declared)
          /\ ~Knows(BlockIds) /\ (Knows(Meta) => ~Whole(Here))
       \/ /\ Taking("blocks", Declared)
          /\ Knows({"Block"}) => ~Whole(Here)
    /\ Return("idle", "unreadable")

NotShort(n, size) == n >= size
Exact(n, size) == n = size

EndRead ==
    /\ phase \in {"meta", "blocks"} /\ ~(read < Declared)
    /\ IF ~Exact(read, Declared) THEN Return("idle", "BadBodySize")
       ELSE IF ~have THEN Return("idle", "MissingChild")
       ELSE Return("ready", "ok")

----------------------------------------------------------------------------
(* The client moves about in the stream.                                   *)
Seek ==
    /\ Idle /\ \E k \in Places \cap DOMAIN items : rpos' = At(k)
    /\ cpos' = rpos' /\ result' = "none" /\ number' = 0
    /\ UNCHANGED <<stream, obj, its, phase, read, have, saved, cluster>>

Usable == phase = "ready" /\ ~InMemory

(* count() walks over the blocks without reading them.  Of an object that  *)
(* has never met a block it asserts otherwise.                             *)
Length == obj.stop - obj.start

StartCount ==
    /\ Usable /\ obj.opened
    /\ phase' = "count" /\ saved' = rpos /\ rpos' = obj.start
    /\ number' = 0 /\ result' = "none"
    /\ UNCHANGED <<stream, obj, its, read, have, cluster, cpos>>

CountBlock ==
    /\ Taking("count", Length) /\ Knows(BlockIds)
    /\ Took(Here) /\ number' = number + 1
    /\ UNCHANGED <<stream, obj, its, phase, have, saved, result, cluster, cpos>>

LeftThere(from, to) == to
Restored(from, to) == from

EndCount ==
    /\ phase = "count"
    /\ IF read < Length
       THEN ~Knows(BlockIds) /\ Return("ready", "exception")
       ELSE IF ~Exact(read, Length) THEN Return("ready", "exception")
       ELSE /\ phase' = "ready" /\ result' = "counted" /\ Forget
            /\ rpos' = Restored(saved, rpos)
            /\ UNCHANGED <<stream, obj, its, number, cluster, cpos>>

CountAsserts ==
    /\ Usable /\ ~obj.opened
    /\ phase' = "astray" /\ result' = "assertion" /\ number' = 0
    /\ UNCHANGED <<stream, rpos, obj, its, read, have, saved, cluster, cpos>>

----------------------------------------------------------------------------
(* load_block(): the end is recognised by its position.                    *)
Load(i, p) ==
    /\ \/ /\ p = obj.stop
          /\ its' = [its EXCEPT ![i].block = 0, ![i].begun = TRUE]
          /\ result' = "loaded" /\ UNCHANGED <<rpos, phase, cpos>>
       \/ /\ p # obj.stop /\ There(p)
          /\ items[ItemAt(p)].kind = "Block" /\ Whole(ItemAt(p))
          /\ its' = [its EXCEPT ![i] =
                [block |-> ItemAt(p), seen |-> Append(@.seen, ItemAt(p)), begun |-> TRUE]]
          /\ rpos' = Restored(rpos, EndOf(ItemAt(p)))
          /\ result' = "loaded" /\ UNCHANGED <<phase, cpos>>
       \/ /\ p # obj.stop /\ (StartsAt(p) # {} \/ p >= end)
          /\ There(p) => items[ItemAt(p)].kind # "Block" \/ ~Whole(ItemAt(p))
          /\ result' = "exception" /\ rpos' = p /\ cpos' = p
          /\ UNCHANGED <<its, phase>>
    /\ number' = 0
    /\ UNCHANGED <<stream, obj, read, have, saved, cluster>>

Begin(i) == Usable /\ ~its[i].begun /\ Load(i, obj.start)

(* ++ goes on behind the block, by the length the block says it has.       *)
WhereTheStreamIs(k) == rpos
BehindBlock(k) == At(k) + items[k].own

Increment(i) == Usable /\ its[i].block # 0 /\ Load(i, BehindBlock(its[i].block))

(* Between two elements of the stream anything may be found; the model     *)
(* stops there.                                                            *)
IncrementAstray(i) ==
    LET p == BehindBlock(its[i].block) IN
    /\ Usable /\ its[i].block # 0
    /\ p # obj.stop /\ StartsAt(p) = {} /\ p < end
    /\ phase' = "astray" /\ result' = "astray" /\ number' = 0
    /\ UNCHANGED <<stream, rpos, obj, its, read, have, saved, cluster, cpos>>

----------------------------------------------------------------------------
Init ==
    /\ items \in Streams
    /\ \E n \in Cuts : end = StreamEnd - n
    /\ \E f \in Flavours : obj = NewObject(f)
    /\ its = [i \in Iterators |-> NoBlock]
    /\ rpos = 0 /\ cpos = 0 /\ saved = 0
    /\ phase = "idle" /\ read = 0 /\ have = FALSE
    /\ result = "none" /\ number = 0 /\ cluster = 0

Next ==
    \/ ReadCluster \/ ReadMeta \/ MeetBlock \/ ReadBlock \/ ReadFails \/ EndRead
    \/ Seek
    \/ StartCount \/ CountBlock \/ EndCount \/ CountAsserts
    \/ \E i \in Iterators : Begin(i) \/ Increment(i) \/ IncrementAstray(i)

Spec == Init /\ [][Next]_vars

----------------------------------------------------------------------------
(* What is in the stream, for stating what reading it should give.         *)
BodyAt(k) == EndOf(k)
Stop(k) == BodyAt(k) + items[k].declared
Inside(k) == {j \in DOMAIN items : j > k /\ At(j) < Stop(k)}
Fills(k) == \A j \in Inside(k) : EndOf(j) <= Stop(k)
BlocksOf(k) == {j \in Inside(k) : items[j].kind = "Block"}

(* A sequence of the members of S, each once and in order.                 *)
Lists(ks, S) == ToSet(ks) = S /\ \A i, j \in DOMAIN ks : i < j => ks[i] < ks[j]

HasBlocks(k) == \E j \in Inside(k) : items[j].kind \in BlockIds
BeforeBlocks(k) ==
    {j \in Inside(k) : \A b \in Inside(k) : items[b].kind \in BlockIds => j < b}

MetaGood(k) ==
    /\ \A j \in BeforeBlocks(k) : items[j].kind \in Meta /\ Whole(j)
    /\ \E j \in BeforeBlocks(k) : items[j].kind = "Timecode"

BlocksGood(k) ==
    /\ Stop(k) <= StreamEnd /\ Fills(k)
    /\ \A j \in Inside(k) \ BeforeBlocks(k) : items[j].kind = "Block" /\ Whole(j)

FirstBlockThere(k) ==
    \A b \in Inside(k) \ BeforeBlocks(k) : b - 1 \in BeforeBlocks(k) \cup {k} => At(b) < end

Canonical(k) ==
    /\ items[k].len = HeaderLen
    /\ \A j \in Inside(k) : items[j].own = items[j].len
    /\ \A i, j \in Inside(k) : items[i].kind \in Meta /\ items[j].kind = items[i].kind => i = j

Answers == {"ok", "BadBodySize", "MissingChild", "unreadable"}
Good(k) == MetaGood(k) /\ BlocksGood(k)

(* read() accepts what it should and nothing else: metadata with a         *)
(* timecode, then blocks, that fill the declared size and are there, or of *)
(* a file cluster all that it looks at.                                    *)
VerdictJustified ==
    Idle /\ result \in Answers =>
        (result = "ok" <=>
            /\ MetaGood(cluster)
            /\ IF InMemory \/ ~HasBlocks(cluster) THEN BlocksGood(cluster)
               ELSE FirstBlockThere(cluster))

(* Both kinds of cluster have the same blocks, whatever else was read with *)
(* the same object before and is read from the stream meanwhile: in        *)
(* memory, by count(), and by iterators that run side by side, if the      *)
(* writer chose the widths that this library would have chosen.  Without   *)
(* any block an object keeps those it had.                                 *)
SameBlocks ==
    cluster # 0 /\ Good(cluster) /\ HasBlocks(cluster) =>
        LET blocks == BlocksOf(cluster) IN
        /\ Idle /\ InMemory /\ result = "ok" => Lists(obj.blocks, blocks)
        /\ Idle /\ result = "counted" => number = Cardinality(blocks)
        /\ ~InMemory /\ Canonical(cluster) =>
            /\ phase # "astray" /\ result # "exception"
            /\ \A i \in Iterators : its[i].begun =>
                Lists(its[i].seen,
                      {b \in blocks : its[i].block # 0 => b <= its[i].block})

(* offset() and size() of a cluster that was read lead to what follows it, *)
(* as the iterators over the segment's clusters assume (segment.h:182-184).*)
Footprint ==
    (/\ Idle /\ result = "ok"
     /\ MetaGood(cluster) /\ Canonical(cluster) /\ HasBlocks(cluster)) =>
        obj.offset + ObjectSize = Stop(cluster)

(* A client that reads on while it counts and iterates finds the stream    *)
(* where it left it.                                                       *)
PositionIsClients == Idle /\ result \in {"ok", "counted", "loaded"} => rpos = cpos
=============================================================================
