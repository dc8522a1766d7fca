---------------------------- MODULE BlockLacing ----------------------------
(***************************************************************************)
(* The payload of a block: its frames, the lace header that says where     *)
(* each one ends, and the reader that takes them apart again               *)
(* (src/src/block_impl.cpp, src/src/simple_block.cpp).                     *)
(*                                                                         *)
(* A frame is its length, and NoFrame is a null pointer.  Frames lie in    *)
(* the stream one behind the other, so the lengths and the first position  *)
(* say which bytes each frame gets.                                        *)
(***************************************************************************)
EXTENDS Vint, SequencesExt

CONSTANTS
    CountValues,    \* values of the byte that counts the frames, 256
    IntValues,      \* values of an int, 2^32
    Tracks,         \* track numbers the client uses
    FrameSizes,     \* lengths of the frames the client adds
    MaxFrames,      \* the client adds at most this many
    MaxEdited,      \* the object is changed again after a lace of up to these
    MaxBytes,       \* and while it holds at most these bytes
    Foreign,        \* blocks other programs have left in the stream
    Garbage         \* sizes a reader finds where frame data is

NoFrame == 0
Lacings == {"none", "ebml", "fixed"}
StoredLacings == Lacings \cup {"xiph"}    \* which this library does not know

(* A block in the stream.  A size in its lace header is a value in a field *)
(* of some width; `written` remembers what the client gave to write().     *)
Numbers == 0..(VintLimit[Len(VintLimit)] - 1)
Counts == 0..(CountValues - 1)
StoredSizes == [value : Nat, width : Widths]
StoredBlocks ==
    [track : Numbers, lacing : StoredLacings, count : Counts, sizes : Seq(StoredSizes),
     body : Nat, present : Nat, written : Seq(Nat), by : {"nobody", "us", "another"}]

ASSUME LaceAssumption ==
    /\ CountValues \in Nat /\ CountValues % 2 = 0 /\ CountValues > 4
    /\ IntValues \in Nat /\ IntValues % 2 = 0 /\ IntValues > 4
    /\ FrameSizes \subseteq Nat \ {0} /\ Tracks \subseteq Numbers
    /\ Foreign \subseteq {s \in StoredBlocks : s.by = "another" /\ s.written = <<>>}
    /\ Garbage \subseteq StoredSizes

VARIABLES
    block,      \* the object: track, lacing and frames
    stored,     \* the block in the stream
    rd,         \* the local variables of a running read()
    outcome     \* how the last call ended

vars == <<block, stored, rd, outcome>>

Sums(ns) ==
    LET sum[i \in 0..Len(ns)] == IF i = 0 THEN 0 ELSE sum[i - 1] + ns[i] IN sum
Total(sizes) == Sums(sizes)[Len(sizes)]

(* What a write that failed leaves, and what is there before the first.    *)
Torn(track, lacing, body) ==
    [track |-> track, lacing |-> lacing, count |-> 0, sizes |-> <<>>,
     body |-> body, present |-> 0, written |-> <<>>, by |-> "nobody"]

Nothing == Torn(0, "none", 0)

Empty(track, lacing) == [track |-> track, lacing |-> lacing, frames |-> <<>>]

----------------------------------------------------------------------------
(* Sizes.  Track number, two bytes of timecode, one of flags.              *)

HeadLen(track) == VintSize(track) + 3

(* What the lace header stores: the first length, then the difference from *)
(* the one before for all others but the last.                             *)
LaceSizes(f) ==
    <<[value |-> f[1], width |-> VintSize(f[1])]>> \o
    [i \in 1..(Len(f) - 2) |-> SToU(f[i + 1] - f[i])]

Widest(sizes) == Total([i \in DOMAIN sizes |-> sizes[i].width])

ForgetsTheCount(b) ==
    IF b.lacing = "ebml" /\ b.frames # <<>> THEN Widest(LaceSizes(b.frames)) ELSE 0

LaceLen(b) ==
    CASE b.lacing = "none"  -> 0
      [] b.lacing = "fixed" -> 1
      [] b.lacing = "ebml"  ->
            1 + IF b.frames = <<>> THEN 0 ELSE Widest(LaceSizes(b.frames))

(* The lengths of the frames are added up in an int.                       *)
InRange(n) == n < IntValues \div 2
AsInt(n) == LET r == n % IntValues IN IF InRange(r) THEN r ELSE r - IntValues

Size(b) == HeadLen(b.track) + LaceLen(b) + AsInt(Total(b.frames))

----------------------------------------------------------------------------
(* The client fills the block.                                             *)

Idle == rd.pc = "idle" /\ outcome # "dead"

(* Another program's block is read before the client changes its own, and  *)
(* after a long lace has been written the object is left as it is.         *)
Filling ==
    /\ Idle /\ stored.by # "another" /\ Len(stored.written) <= MaxEdited
    /\ Total(block.frames) <= MaxBytes

Edits(b) == block' = b /\ outcome' = "edited" /\ UNCHANGED <<stored, rd>>

(* The setter checks nothing: the frames may not suit the new lacing.      *)
SetLacing ==
    /\ Filling
    /\ \E l \in Lacings \ {block.lacing} : Edits([block EXCEPT !.lacing = l])

Clear ==
    Filling /\ block.frames # <<>> /\ Edits([block EXCEPT !.frames = <<>>])

Misfit(n) == block.lacing = "fixed" /\ block.frames # <<>> /\ n # block.frames[1]

Crowded(n) == n > 1 /\ block.lacing = "none"

PushBack ==
    /\ Filling /\ Len(block.frames) < MaxFrames
    /\ ~Crowded(Len(block.frames) + 1)
    /\ \E n \in FrameSizes :
          ~Misfit(n) /\ Edits([block EXCEPT !.frames = Append(@, n)])

(* EmptyFrame, MaxLaceSizeExceeded and BadLacedFrameSize change nothing;   *)
(* a first frame that is a null pointer is dereferenced.                   *)
PushRefused ==
    /\ Filling
    /\ \E n \in FrameSizes \cup {NoFrame} :
          \/ n = NoFrame \/ Crowded(Len(block.frames) + 1)
          \/ Misfit(n) /\ block.frames[1] # NoFrame
    /\ UNCHANGED vars

PushUndefined ==
    /\ Filling /\ \E n \in FrameSizes : Misfit(n) /\ block.frames[1] = NoFrame
    /\ outcome' = "dead" /\ UNCHANGED <<block, stored, rd>>

(* resize() leaves null pointers where there were no frames.               *)
Resize ==
    /\ Filling
    /\ \E n \in 0..2 :
          /\ n # Len(block.frames) /\ ~Crowded(n)
          /\ Edits([block EXCEPT !.frames =
                [i \in 1..n |-> IF i <= Len(@) THEN @[i] ELSE NoFrame]])

----------------------------------------------------------------------------
(* Writing                                                                 *)

(* size() and write() walk from the second frame to the last but one: with *)
(* one frame they start behind the end, and a null frame is dereferenced,  *)
(* unless a length or a difference before it throws VarIntTooBig.          *)
Oversized(b, i) ==
    IF i = 1 THEN ~IsVint(b.frames[1]) ELSE ~IsDiff(b.frames[i] - b.frames[i - 1])

LaceFailsAt(b, i) ==
    /\ b.frames[i] = NoFrame \/ Oversized(b, i)
    /\ \A j \in 1..(i - 1) : b.frames[j] # NoFrame /\ ~Oversized(b, j)

Walked(b) ==
    IF b.lacing # "ebml" \/ b.frames = <<>> THEN {} ELSE {1} \cup 2..(Len(b.frames) - 1)

Undefined(b) ==
    \/ b.lacing = "ebml" /\ Len(b.frames) = 1 /\ ~LaceFailsAt(b, 1)
    \/ \E i \in Walked(b) : LaceFailsAt(b, i) /\ b.frames[i] = NoFrame

(* A size that is negative is a large number to the size field.            *)
TooBig(b) ==
    \/ \E i \in Walked(b) : LaceFailsAt(b, i) /\ b.frames[i] # NoFrame
    \/ (\A i \in Walked(b) : ~LaceFailsAt(b, i)) /\ Size(b) \notin Numbers

Faulty(b, i) ==
    b.frames[i] = NoFrame \/ (b.lacing = "fixed" /\ b.frames[i] # b.frames[1])

FirstFault(b) ==
    CHOOSE i \in DOMAIN b.frames : Faulty(b, i) /\ \A j \in 1..(i - 1) : ~Faulty(b, j)

(* validate(), with the assertion that a block without lacing has one frame *)
Fault(b) ==
    IF b.frames = <<>> THEN "EmptyBlock"
    ELSE IF b.lacing = "none" /\ Len(b.frames) # 1 THEN "dead"
    ELSE IF \A i \in DOMAIN b.frames : ~Faulty(b, i) THEN "ok"
    ELSE IF b.frames[FirstFault(b)] = NoFrame THEN "EmptyFrame"
    ELSE "BadLacedFrameSize"

CountFromZero(n) == (n - 1) % CountValues

(* The count is cut to a byte, and nothing says that it was.               *)
CountByte(n) == n % CountValues

(* `body` is the size the element declares before, `present` what write()  *)
(* then puts into the stream.                                              *)
Write ==
    /\ Idle /\ ~Undefined(block) /\ ~TooBig(block) /\ Fault(block) = "ok"
    /\ LET sizes == IF block.lacing = "ebml" THEN LaceSizes(block.frames) ELSE <<>>
           count == IF block.lacing = "none" THEN 0 ELSE 1
       IN  stored' = [track |-> block.track, lacing |-> block.lacing,
                      count |-> CountByte(Len(block.frames)), sizes |-> sizes,
                      body |-> Size(block),
                      present |-> HeadLen(block.track) + count + Widest(sizes)
                                      + Total(block.frames),
                      written |-> block.frames, by |-> "us"]
    /\ outcome' = "ok"
    /\ UNCHANGED <<block, rd>>

(* The element's ID and size are out before validate() throws.             *)
WriteFails ==
    /\ Idle /\ ~Undefined(block) /\ ~TooBig(block) /\ Fault(block) # "ok"
    /\ stored' = Torn(block.track, block.lacing, Size(block))
    /\ outcome' = Fault(block)
    /\ UNCHANGED <<block, rd>>

(* Only the ID is out before size() or the size field throws.              *)
WriteTooBig ==
    /\ Idle /\ ~Undefined(block) /\ TooBig(block)
    /\ stored' = Torn(block.track, block.lacing, 0)
    /\ outcome' = "VarIntTooBig"
    /\ UNCHANGED <<block, rd>>

WriteUndefined ==
    /\ Idle /\ Undefined(block)
    /\ outcome' = "dead" /\ UNCHANGED <<block, stored, rd>>

----------------------------------------------------------------------------
(* Reading.  `base` counts what read() has taken before it calls the       *)
(* reader for the lacing, which is given `size` bytes and counts in `read`.*)

Stopped == [pc |-> "idle", base |-> 0, size |-> 0, read |-> 0, count |-> 0,
            sizes |-> <<>>, left |-> 0]

Position == rd.base + rd.read

(* The stream has another n bytes; otherwise the read throws.              *)
Has(n) == Position + n <= stored.present

Fails(o) == outcome' = o /\ rd' = Stopped /\ UNCHANGED <<block, stored>>

Goes(r) == rd' = r /\ UNCHANGED <<block, stored, outcome>>

HeaderFault ==
    CASE stored.body < 4 -> "BadBodySize"
      [] stored.body >= 4 /\ stored.present < HeadLen(stored.track) -> "ReadError"
      [] OTHER -> "BadBodySize"

(* Flags of a lacing the library does not know leave the block without.    *)
LacingRead == IF stored.lacing \in Lacings THEN stored.lacing ELSE "none"

ReadHeader ==
    /\ Idle
    /\ stored.body >= 4 /\ stored.present >= HeadLen(stored.track)
    /\ HeadLen(stored.track) < stored.body
    /\ block' = Empty(stored.track, LacingRead)
    /\ outcome' = "reading"
    /\ rd' = [Stopped EXCEPT !.pc = IF LacingRead = "none" THEN "frames" ELSE "count",
                             !.base = HeadLen(stored.track),
                             !.size = stored.body - HeadLen(stored.track),
                             !.count = 1]
    /\ UNCHANGED stored

ReadHeaderFails ==
    /\ Idle
    /\ \/ stored.body < 4 \/ stored.present < HeadLen(stored.track)
       \/ HeadLen(stored.track) >= stored.body
    /\ block' = IF stored.body < 4 \/ stored.present < HeadLen(stored.track)
                THEN Empty(0, "none") ELSE Empty(stored.track, LacingRead)
    /\ outcome' = HeaderFault
    /\ UNCHANGED <<stored, rd>>

(* The count is read into a signed character.                              *)
Signed(n) == IF n < CountValues \div 2 THEN n ELSE n - CountValues

ReadCount ==
    /\ rd.pc = "count" /\ Has(1)
    /\ Goes(IF block.lacing = "ebml"
            THEN [rd EXCEPT !.pc = "sizes", !.read = 1, !.count = Signed(stored.count)]
            ELSE [rd EXCEPT !.pc = "frames", !.base = @ + 1, !.size = @ - 1,
                            !.count = Signed(stored.count)])

(* The next length in the lace header, or what is there instead of one.    *)
Next1 ==
    LET i == Len(rd.sizes) + 1
    IN  IF i <= Len(stored.sizes) THEN {stored.sizes[i]} ELSE Garbage

(* The length a stored one stands for: itself, or what to add to the last. *)
Decoded(s) == IF rd.sizes = <<>> THEN s.value ELSE Last(rd.sizes) + UToS(s)

TooWide(s) == rd.sizes # <<>> /\ s.width \notin DiffWidths

AdmitsEmpty(s) == Decoded(s) >= 0

IsLength(s) == Decoded(s) > 0

MoreSizes == rd.sizes = <<>> \/ Len(rd.sizes) < rd.count - 1

ReadSize ==
    /\ rd.pc = "sizes" /\ MoreSizes
    /\ \E s \in Next1 :
          /\ Has(s.width) /\ ~TooWide(s) /\ IsLength(s)
          /\ Goes([rd EXCEPT !.read = @ + s.width,
                             !.sizes = Append(@, Decoded(s)),
                             !.left = (IF rd.sizes = <<>> THEN rd.size - rd.read ELSE @)
                                         - s.width - Decoded(s)])

ReadSizeFails ==
    /\ rd.pc = "sizes" /\ MoreSizes
    /\ \E s \in Next1 :
          \/ ~Has(s.width) /\ Fails("ReadError")
          \/ Has(s.width) /\ TooWide(s) /\ Fails("VarIntTooBig")
          \/ Has(s.width) /\ ~TooWide(s) /\ Decoded(s) = 0 /\ Fails("EmptyFrame")
          \/ Has(s.width) /\ ~TooWide(s) /\ Decoded(s) < 0 /\ Fails("BadLacedFrameSize")

AtLeastOne == IF rd.left < 0 THEN 1 ELSE rd.left

(* The last frame gets what the others leave.                              *)
Leftover == rd.left

LastSize ==
    /\ rd.pc = "sizes" /\ ~MoreSizes
    /\ IF Leftover > 0
       THEN Goes([rd EXCEPT !.pc = "laced", !.size = @ - rd.read,
                            !.sizes = Append(@, Leftover)])
       ELSE Fails(IF Leftover = 0 THEN "EmptyFrame" ELSE "BadLacedFrameSize")

TakeFrame(n) == block' = [block EXCEPT !.frames = Append(@, n)]

(* `size` no longer counts the lace header here, while `read` still does.  *)
ReadLacedFrame ==
    /\ rd.pc = "laced" /\ rd.sizes # <<>>
    /\ rd.read < rd.size /\ Has(Head(rd.sizes))
    /\ TakeFrame(Head(rd.sizes))
    /\ rd' = [rd EXCEPT !.read = @ + Head(rd.sizes), !.sizes = Tail(@)]
    /\ UNCHANGED <<stored, outcome>>

(* The count becomes an unsigned int: a negative one is larger than any    *)
(* size, and zero is divided by.                                           *)
Share == IF rd.count > 0 THEN rd.size \div rd.count ELSE 0

Uneven == IF rd.count > 0 THEN rd.size % rd.count # 0 ELSE rd.size # 0

ReadFixedFrame ==
    /\ rd.pc = "frames" /\ rd.count > 0 /\ ~Uneven
    /\ Len(block.frames) < rd.count
    /\ rd.read < rd.size /\ Has(Share)
    /\ TakeFrame(Share)
    /\ rd' = [rd EXCEPT !.read = @ + Share]
    /\ UNCHANGED <<stored, outcome>>

ReadFramesFails ==
    \/ /\ rd.pc = "count" /\ ~Has(1) /\ Fails("ReadError")
    \/ /\ rd.pc = "laced" /\ rd.sizes # <<>>
       /\ \/ rd.read >= rd.size /\ Fails("EmptyFrame")
          \/ rd.read < rd.size /\ ~Has(Head(rd.sizes)) /\ Fails("ReadError")
    \/ /\ rd.pc = "frames" /\ rd.count = 0 /\ Fails("dead")
    \/ /\ rd.pc = "frames" /\ rd.count # 0 /\ Uneven /\ Fails("BadLacedFrameSize")
    \/ /\ rd.pc = "frames" /\ rd.count # 0 /\ ~Uneven
       /\ rd.count < 0 \/ Len(block.frames) < rd.count
       /\ \/ rd.read >= rd.size /\ Fails("EmptyFrame")
          \/ rd.read < rd.size /\ ~Has(Share) /\ Fails("ReadError")

AllFrames ==
    \/ rd.pc = "laced" /\ rd.sizes = <<>>
    \/ rd.pc = "frames" /\ rd.count > 0 /\ Len(block.frames) = rd.count

ReadDone ==
    /\ AllFrames
    /\ outcome' = IF Position = stored.body THEN "read" ELSE "BadBodySize"
    /\ rd' = Stopped
    /\ UNCHANGED <<block, stored>>

----------------------------------------------------------------------------
Init ==
    /\ \E t \in Tracks, l \in Lacings : block = Empty(t, l)
    /\ stored \in Foreign \cup {Nothing}
    /\ rd = Stopped
    /\ outcome = "ok"

Next ==
    \/ SetLacing \/ Clear \/ PushBack \/ PushRefused \/ PushUndefined
    \/ Resize \/ Write \/ WriteFails \/ WriteTooBig \/ WriteUndefined
    \/ ReadHeader \/ ReadHeaderFails \/ ReadCount \/ ReadSize \/ ReadSizeFails
    \/ LastSize \/ ReadLacedFrame \/ ReadFixedFrame \/ ReadFramesFails \/ ReadDone

Spec == Init /\ [][Next]_vars

----------------------------------------------------------------------------
(* Properties                                                              *)

(* size(), which the element declares before its body, and write() count   *)
(* the lace in two different loops; what is declared is what follows, as   *)
(* long as the int in which size() adds up the frames can hold them.       *)
Ours == stored.by = "us"

SizeIsWritten ==
    Ours /\ InRange(Total(stored.written)) => stored.body = stored.present

(* What read() gives back of a block write() accepted: all of it, provided *)
(* that size is right, the count fits a signed byte and, in a lace with    *)
(* sizes, the last frame is longer than the lace header: read() takes the  *)
(* bytes of the header to be read already when it asks whether the last    *)
(* frame has any.                                                          *)
Sound ==
    /\ Ours /\ InRange(Total(stored.written))
    /\ stored.lacing # "none" => Len(stored.written) < CountValues \div 2
    /\ stored.lacing = "ebml" => Last(stored.written) > 1 + Widest(stored.sizes)

Reading == rd.pc # "idle"

ReadBack == block = [track |-> stored.track, lacing |-> stored.lacing,
                     frames |-> stored.written]

RoundTrip ==
    [][(Reading /\ Sound /\ ~Reading') => (outcome' = "read" /\ ReadBack')]_vars

(* However the lace header lies, no frame is taken from behind the end of  *)
(* the block, and a read that succeeds has taken the block to its end.     *)
FramesInsideBody ==
    rd.pc \in {"laced", "frames"} =>
        /\ Position + Total(rd.sizes) <= stored.body
        /\ HeadLen(block.track) + Total(block.frames) <= stored.body

(* What read() accepts, from whoever wrote it, validate() accepts, and     *)
(* size() and write() can walk its frames.                                 *)
AcceptedIsWritable ==
    [][outcome' = "read" => (Fault(block') = "ok" /\ ~Undefined(block'))]_vars
=============================================================================
