--------------------------- MODULE MasterElement ---------------------------
(***************************************************************************)
(* Elements made of other elements.  Each class has its own body_size(),   *)
(* write_body(), read_body() and reset(), written by hand and to the same  *)
(* pattern: a child is written unless it has a certain value, a read       *)
(* starts from a reset object and takes children in any order until it has *)
(* counted as many bytes as the body has.  What the four functions of a    *)
(* class say about each child is a row of the tables below.                *)
(*                                                                         *)
(* A value is 0 (zero or empty), 1 or 2; 1 is the default where the        *)
(* default is not zero.  A list is a sequence of values.                   *)
(***************************************************************************)
EXTENDS Integers, FiniteSets, SequencesExt

CONSTANTS
    Kinds,          \* the classes in use
    MaxList,        \* members the client puts into a list
    MaxChanges      \* changes the client makes to an object, and another
                    \* program to the body it reads

VARIABLES
    kind,       \* class of the elements
    obj,        \* the object written or read: a value for each child
    body,       \* the children in the stream, and the size declared
    sent,       \* the object that was written there
    rd,         \* read_body(): next child, bytes counted, children seen
    outcome,
    budget      \* changes left

vars == <<kind, obj, body, sent, rd, outcome, budget>>

Values == 0..2
Positive == {1, 2}
Flag == {0, 1}
Unset == -1
Undefined == -2

(* A child: its name; its value in a new object; the value reset() leaves; *)
(* those that are not written; those that are legal to read; those its     *)
(* setter takes; and whether a body must have it.                          *)
Row(name, new, reset, skip, legal, set, need) ==
    [name |-> name, list |-> FALSE, new |-> new, reset |-> reset, skip |-> skip,
     legal |-> legal, set |-> set, need |-> need, keyed |-> FALSE]

Optional(name, default, legal) ==
    Row(name, default, default, {default}, legal, legal \cup {default}, FALSE)

Always(name, default) == Row(name, default, default, {}, Values, Values, FALSE)

Required(name, reset, legal) == Row(name, 1, reset, {}, legal, legal, TRUE)

(* A list that must have a member is needed, one that is kept in a map is  *)
(* keyed: in order and without duplicates.                                 *)
List(name, legal, need, keyed) ==
    [name |-> name, list |-> TRUE, new |-> <<>>, reset |-> <<>>, skip |-> {},
     legal |-> legal, set |-> legal, need |-> need, keyed |-> keyed]

----------------------------------------------------------------------------
(* A SegmentInfo keeps a have_ flag with each child but the timecode       *)
(* scale. Setting an identifier or a string to nothing clears both; a      *)
(* duration is refused unless it is positive, and with a date it stays set *)
(* until the object is reset.  A timecode scale set to zero becomes the    *)
(* default, one read as zero stays zero.                                   *)
Clearable(name) == name \notin {"tc_scale", "duration", "date"}

SegmentInfoSet(name) ==
    IF name = "date" THEN Values
    ELSE Positive \cup {v \in {Unset} : Clearable(name)}

SegmentInfoSkip(name) == {v \in {Unset} : name # "tc_scale"}

SegmentInfoNew(name) == IF name = "tc_scale" THEN 1 ELSE Unset

SegmentInfo ==
    LET names == <<"tc_scale", "uid", "seg_fn", "prev_uid", "prev_fn", "next_uid",
                   "next_fn", "seg_fam", "duration", "date", "title", "muxer", "writer">>
    IN  [c \in DOMAIN names |->
            LET n == names[c]
            IN  Row(n, SegmentInfoNew(n), SegmentInfoNew(n), SegmentInfoSkip(n), Values,
                    SegmentInfoSet(n), FALSE)]

EBMLElement ==
    <<Always("ver", 1), Always("read_ver", 1), Always("max_id_length", 1),
      Always("max_size_length", 1), Always("doc_type", 1), Always("doc_type_ver", 1),
      Always("doc_type_read_ver", 1)>>

AttachedFile ==
    <<Optional("desc", 0, Values), Required("name", 0, Values),
      Required("mime", 0, Values), Required("data", 0, Positive),
      Required("uid", 0, Positive)>>

Attachments == <<List("files", Values, TRUE, FALSE)>>

CueTrackPosition ==
    <<Required("track", 1, Positive), Required("cluster_pos", 0, Values),
      Optional("block_num", 1, Positive), Optional("codec_state", 0, Values),
      List("ref_blocks", Values, FALSE, FALSE)>>

CuePoint ==
    <<Required("timecode", 0, Values), List("positions", Values, TRUE, FALSE)>>

Cues == <<List("cues", Values, TRUE, TRUE)>>

(* The default duration and the attachment link are not written when zero, *)
(* and refused when they are read as zero.  FlagDefault is no member: see  *)
(* ReadIgnored.  An operation is never empty.                              *)
TrackEntry ==
    <<Required("number", 0, Positive), Required("uid", 0, Positive),
      Required("type", 1, Flag), Required("codec_id", 0, Positive),
      Optional("enabled", 1, Flag), Optional("forced", 0, Flag),
      Optional("lacing", 1, Flag), Optional("min_cache", 0, Values),
      Optional("max_cache", 0, Values), Optional("default_dur", 0, Positive),
      Optional("timecode_scale", 1, Positive),
      Optional("max_block_add_id", 0, Values), Optional("name", 0, Values),
      Optional("codec_private", 0, Values), Optional("codec_name", 0, Values),
      Optional("attachment_link", 0, Positive), Optional("decode_all", 0, Flag),
      List("overlays", Values, FALSE, FALSE), Optional("operation", 0, Positive)>>

TrackJoinBlocks == <<List("uids", Positive, TRUE, FALSE)>>

Tracks == <<List("entries", Values, TRUE, TRUE)>>

(* reset() sets the duration to a default it does not have: the member     *)
(* default_ was never initialised.                                         *)
BlockGroup ==
    <<Required("block", 0, Positive), Optional("additions", 0, Positive),
      Row("duration", 0, Undefined, {0}, Values, Values, FALSE),
      Optional("ref_priority", 0, Values), List("ref_blocks", Values, FALSE, FALSE),
      Optional("codec_state", 0, Values)>>

BlockMore ==
    <<Optional("add_id", 1, Positive), Required("additional", 0, Values)>>

BlockAdditions == <<List("additions", Values, TRUE, FALSE)>>

SeekElement == <<Required("indexed_id", 1, Values), Required("offset", 0, Values)>>

(* A cluster before its blocks.  The SilentTracks element around the       *)
(* numbers of silent tracks has a loop of its own with the same checks and *)
(* is left out here.                                                       *)
Cluster ==
    <<Required("timecode", 0, Values), List("silent_tracks", Values, FALSE, FALSE),
      Optional("position", 0, Values), Optional("prev_size", 0, Values)>>

Table ==
    [SegmentInfo |-> SegmentInfo, EBMLElement |-> EBMLElement,
     AttachedFile |-> AttachedFile, Attachments |-> Attachments,
     CueTrackPosition |-> CueTrackPosition, CuePoint |-> CuePoint, Cues |-> Cues,
     TrackEntry |-> TrackEntry, TrackJoinBlocks |-> TrackJoinBlocks,
     Tracks |-> Tracks, BlockGroup |-> BlockGroup, BlockMore |-> BlockMore,
     BlockAdditions |-> BlockAdditions, SeekElement |-> SeekElement,
     Cluster |-> Cluster]

ASSUME KindsAssumption == Kinds \subseteq DOMAIN Table

(* These two refuse anything behind the second of their children.          *)
Pairs == {"SeekElement", "BlockMore"}

Rows == Table[kind]
Children == DOMAIN Rows

----------------------------------------------------------------------------
(* Sizes.  A child in the stream is an ID of one byte, a size field of one *)
(* byte, and as many more as its value has; the number in `child` is its   *)
(* row, and Stranger is an ID the class does not know.                     *)

Stranger == 0
Ignored == -1

Item(c, v) == [child |-> c, value |-> v]

IdLen == 1
ItemLen(item) == IdLen + 1 + item.value

(* Running totals of numbers, and of sequences put behind one another.     *)
Totals(ns) ==
    LET upto[i \in 0..Len(ns)] == IF i = 0 THEN 0 ELSE upto[i - 1] + ns[i] IN upto

Joins(ss) ==
    LET upto[i \in 0..Len(ss)] == IF i = 0 THEN <<>> ELSE upto[i - 1] \o ss[i] IN upto

(* Where the items end.                                                    *)
Ends(items) == Totals([i \in DOMAIN items |-> ItemLen(items[i])])
Bytes(items) == Ends(items)[Len(items)]

(* The values of a child among the first items.                            *)
ValuesOf(items, c) ==
    Joins([i \in DOMAIN items |->
              IF items[i].child = c THEN <<items[i].value>> ELSE <<>>])

Members(c, v) == IF Rows[c].list THEN v ELSE IF v \in Rows[c].skip THEN <<>> ELSE <<v>>
Items(c, values) == [i \in DOMAIN values |-> Item(c, values[i])]

(* What write_body() puts into the stream.                                 *)
Written(o) == Joins([c \in Children |-> Items(c, Members(c, o[c]))])[Len(Rows)]

(* body_size() adds up the children by the same conditions, once more.     *)
CountsDefaults(c, v) ==
    IF Rows[c].list THEN Bytes(Items(c, v))
    ELSE IF v = Unset THEN 0 ELSE ItemLen(Item(c, v))

ChildSize(c, v) ==
    IF Rows[c].list THEN Bytes(Items(c, v))
    ELSE IF v \in Rows[c].skip THEN 0 ELSE ItemLen(Item(c, v))

BodySize(o) == Totals([c \in Children |-> ChildSize(c, o[c])])[Len(Rows)]

----------------------------------------------------------------------------
(* The client.                                                             *)

(* A client fills an object, writes it and goes on to the next.            *)
Filling == outcome = "new"

New(k) == [c \in DOMAIN Table[k] |-> Table[k][c].new]

Spend == budget > 0 /\ budget' = budget - 1

(* Setters throw ValueOutOfRange for what they do not take.                *)
Set ==
    /\ Filling /\ Spend
    /\ \E c \in Children :
          /\ ~Rows[c].list
          /\ \E v \in Rows[c].set \ {obj[c]} : obj' = [obj EXCEPT ![c] = v]
    /\ UNCHANGED <<kind, body, sent, rd, outcome>>

Twice(c, v) == Rows[c].keyed /\ v \in ToSet(obj[c])

(* A map keeps its members in the order of their keys.                     *)
Pick(S, v) == IF v \in S THEN <<v>> ELSE <<>>
Ascending(S) == Pick(S, 0) \o Pick(S, 1) \o Pick(S, 2)
InOrder(c, list) == IF Rows[c].keyed THEN Ascending(ToSet(list)) ELSE list

Insert ==
    /\ Filling /\ Spend
    /\ \E c \in Children :
          /\ Rows[c].list /\ Len(obj[c]) < MaxList
          /\ \E v \in Rows[c].legal :
                ~Twice(c, v) /\ obj' = [obj EXCEPT ![c] = InOrder(c, Append(@, v))]
    /\ UNCHANGED <<kind, body, sent, rd, outcome>>

(* write_body() throws, or asserts, that lists which must have a member    *)
(* have one and that values are legal.  Nobody looks at the codec's ID.    *)
Unwritable(c) ==
    /\ Rows[c].name # "codec_id"
    /\ IF Rows[c].list THEN Rows[c].need /\ obj[c] = <<>>
       ELSE obj[c] \notin Rows[c].legal \cup Rows[c].skip

Write ==
    /\ Filling /\ \A c \in Children : ~Unwritable(c)
    /\ body' = [items |-> Written(obj), size |-> BodySize(obj)]
    /\ sent' = obj
    /\ outcome' = "written"
    /\ UNCHANGED <<kind, obj, rd, budget>>

WriteRefused ==
    /\ Filling /\ \E c \in Children : Unwritable(c)
    /\ outcome' = "refused"
    /\ UNCHANGED <<kind, obj, body, sent, rd, budget>>

(* The body is read into another object of the class, used before.         *)
Elsewhere ==
    /\ outcome = "written" /\ sent # <<>>
    /\ \E c \in Children :
          obj' = [New(kind) EXCEPT ![c] = IF Rows[c].list THEN <<2>> ELSE 2]
    /\ outcome' = "elsewhere"
    /\ UNCHANGED <<kind, body, sent, rd, budget>>

(* Another program has written the body a little differently.              *)
Edited(items) ==
    {RemoveAt(items, i) : i \in DOMAIN items}
    \cup {InsertAt(items, i, Item(c, v)) :
              i \in 1..(Len(items) + 1), c \in Children \cup {Stranger}, v \in {0, 2}}
    \cup {Append(items, items[i]) : i \in DOMAIN items}

Edit ==
    /\ outcome = "written" /\ Spend
    /\ \/ \E items \in Edited(body.items) :
             body' = [items |-> items, size |-> Bytes(items)]
       \/ \E d \in {-1, 1, 2} :
             body.size + d >= 0 /\ body' = [body EXCEPT !.size = @ + d]
    /\ sent' = <<>>
    /\ UNCHANGED <<kind, obj, rd, outcome>>

(* FlagDefault, which is ignored, in a track entry.                        *)
EditIgnored ==
    /\ outcome = "written" /\ Spend /\ kind = "TrackEntry"
    /\ \E i \in 1..(Len(body.items) + 1) :
          LET items == InsertAt(body.items, i, Item(Ignored, 1))
          IN  body' = [items |-> items, size |-> Bytes(items)]
    /\ UNCHANGED <<kind, obj, sent, rd, outcome>>

----------------------------------------------------------------------------
(* read_body()                                                             *)

Stopped == [next |-> 0, read |-> 0, seen |-> {}]

Fail(o) == outcome' = o /\ rd' = Stopped

LeftUndefined(c) == ~Rows[c].list /\ Rows[c].reset = Undefined

KeepsOld(c, junk) == obj[c]

(* `junk` is what a member holds that reset() leaves undefined. A Seek     *)
(* element has no reset() at all.                                          *)
AfterReset(c, junk) ==
    IF kind = "SeekElement" THEN obj[c]
    ELSE IF LeftUndefined(c) THEN junk ELSE Rows[c].reset

BeginRead ==
    /\ outcome \in {"written", "elsewhere"}
    /\ \E junk \in Values : obj' = [c \in Children |-> AfterReset(c, junk)]
    /\ rd' = [Stopped EXCEPT !.next = 1]
    /\ outcome' = "reading"
    /\ UNCHANGED <<kind, body, sent, budget>>

More == rd.next > 0 /\ rd.read < body.size

(* Behind the body lies an element this class does not know.               *)
Here == IF rd.next <= Len(body.items) THEN body.items[rd.next] ELSE Item(Stranger, 0)

PairFull == kind \in Pairs /\ rd.seen = Children

Known == More /\ ~PairFull /\ Here.child \in Children

AnyValue(c, v) == TRUE

Legal(c, v) == v \in Rows[c].legal

Store(c, v) ==
    obj' = [obj EXCEPT ![c] = IF Rows[c].list THEN InOrder(c, Append(@, v)) ELSE v]

ReadChild ==
    /\ Known /\ Legal(Here.child, Here.value) /\ ~Twice(Here.child, Here.value)
    /\ Store(Here.child, Here.value)
    /\ rd' = [next |-> rd.next + 1, read |-> rd.read + ItemLen(Here),
               seen |-> rd.seen \cup {Here.child}]
    /\ UNCHANGED <<kind, body, sent, outcome, budget>>

(* A member has the illegal value before it is looked at.                  *)
ReadIllegal ==
    /\ Known /\ ~Legal(Here.child, Here.value)
    /\ IF Rows[Here.child].list THEN UNCHANGED obj ELSE Store(Here.child, Here.value)
    /\ Fail("ValueOutOfRange")
    /\ UNCHANGED <<kind, body, sent, budget>>

ReadTwice ==
    /\ Known /\ Legal(Here.child, Here.value) /\ Twice(Here.child, Here.value)
    /\ Fail("Duplicate")
    /\ UNCHANGED <<kind, obj, body, sent, budget>>

(* The value of an ignored child is skipped, and only its ID counted.      *)
ReadIgnored ==
    /\ More /\ kind = "TrackEntry" /\ Here.child = Ignored
    /\ rd' = [rd EXCEPT !.next = @ + 1, !.read = @ + IdLen]
    /\ UNCHANGED <<kind, obj, body, sent, outcome, budget>>

ReadStranger ==
    /\ More /\ ~PairFull /\ Here.child = Stranger
    /\ Fail("InvalidChildID")
    /\ UNCHANGED <<kind, obj, body, sent, budget>>

ReadBehindPair ==
    /\ More /\ PairFull
    /\ Fail("BadBodySize")
    /\ UNCHANGED <<kind, obj, body, sent, budget>>

NothingMissing == {}

Missing == {c \in Children : Rows[c].need /\ c \notin rd.seen}

EndRead ==
    /\ rd.next > 0 /\ rd.read >= body.size
    /\ Fail(IF rd.read # body.size THEN "BadBodySize"
            ELSE IF Missing # {} THEN "MissingChild" ELSE "read")
    /\ UNCHANGED <<kind, obj, body, sent, budget>>

----------------------------------------------------------------------------
Init ==
    /\ kind \in Kinds
    /\ obj = New(kind)
    /\ body = [items |-> <<>>, size |-> 0]
    /\ sent = <<>>
    /\ rd = Stopped
    /\ outcome = "new"
    /\ budget = MaxChanges

Next ==
    \/ Set \/ Insert \/ Write \/ WriteRefused \/ Elsewhere \/ Edit \/ EditIgnored
    \/ BeginRead \/ ReadChild \/ ReadIllegal \/ ReadTwice \/ ReadIgnored
    \/ ReadStranger \/ ReadBehindPair \/ EndRead

Spec == Init /\ [][Next]_vars

----------------------------------------------------------------------------
(* Properties                                                              *)

(* body_size(), which is declared before the body is written, and          *)
(* write_body() decide child by child in two places what is written; they  *)
(* agree for every object.                                                 *)
DeclaredIsWritten ==
    outcome = "written" /\ sent # <<>> => body.size = Bytes(body.items)

(* A reader goes through the items up to where the declared size ends, and *)
(* a size that is too small may end behind one of them.                    *)
Cuts == 0..Len(body.items)

Found(c) == ValuesOf(body.items, c)

(* What the first k items mean: the last value of each child, lists as     *)
(* they come or in the order of their keys, and what reset() leaves for a  *)
(* child that is not there.                                                *)
Means(k, c, v) ==
    LET values == Found(c)[k]
    IN  IF Rows[c].list THEN v = InOrder(c, values)
        ELSE IF values # <<>> THEN v = Last(values)
        ELSE LeftUndefined(c) \/ v = Rows[c].reset

(* A body a reader should take: declared as long as its first k items are, *)
(* with nothing unknown, illegal, missing or there twice that must not be. *)
WellFormed(k) ==
    /\ body.size = Ends(body.items)[k]
    /\ \A i \in 1..k :
          /\ body.items[i].child \in Children
          /\ Legal(body.items[i].child, body.items[i].value)
    /\ \A c \in Children :
          /\ Rows[c].need => Found(c)[k] # <<>>
          /\ Rows[c].keyed => IsInjective(Found(c)[k])
    /\ kind \in Pairs =>
          \E c \in Children : \A i \in 1..(k - 1) : body.items[i].child # c

Reading == rd.next > 0
NothingIgnored == \A i \in DOMAIN body.items : body.items[i].child # Ignored

(* read_body() succeeds on well formed bodies and on no others, whatever   *)
(* the order of the children and whatever the object held; and then the    *)
(* object holds what the body means, and nothing of what it held before.   *)
VerdictJustified ==
    [][(Reading /\ ~Reading' /\ NothingIgnored) =>
          IF outcome' = "read"
          THEN \E k \in Cuts :
                  WellFormed(k) /\ \A c \in Children : Means(k, c, obj'[c])
          ELSE \A k \in Cuts : ~WellFormed(k)]_vars

(* An object that was written, and that has nothing a reader refuses, is   *)
(* read back, into any object of its class, in every member that reset()   *)
(* defines.                                                                *)
RoundTrip ==
    [][(Reading /\ ~Reading' /\ sent # <<>> /\ WellFormed(Len(body.items))) =>
          /\ outcome' = "read"
          /\ \A c \in Children : LeftUndefined(c) \/ obj'[c] = sent[c]]_vars

(* What was read can be written.                                           *)
AcceptedIsWritable == outcome = "read" => \A c \in Children : ~Unwritable(c)
=============================================================================
