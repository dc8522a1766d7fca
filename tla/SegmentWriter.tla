--------------------------- MODULE SegmentWriter ---------------------------
(***************************************************************************)
(* Writing a segment (src/src/segment.cpp): write() lays down the header   *)
(* with a provisional size and a Void element as padding, the caller       *)
(* appends level-1 elements and collects index entries for them, and       *)
(* finalise() goes back to put the SeekHead and the SegmentInfo over the   *)
(* padding, or at the end, and the true size into the header.              *)
(*                                                                         *)
(* finalise() is one action per write it makes, so that what an exception  *)
(* or a crash between two of them leaves in the stream is a state too.     *)
(***************************************************************************)
EXTENDS ByteStream, Vint, FiniteSets

CONSTANTS
    PadSizes,          \* paddings that callers ask for with pad_size()
    InfoSizes,         \* sizes the SegmentInfo element can have
    Kinds,             \* level-1 elements the caller writes
    KindSizes,         \* sizes of those elements
    Starts,            \* where in the stream the segment may start
    MaxElements        \* bound: level-1 elements the caller writes

(* Kinds of extents the segment itself puts into the stream.               *)
OwnKinds == {"Free", "EBML", "SegmentID", "SegmentSize", "Void", "SeekHead",
             "Info"}

IdLen == 4             \* ids::size() of Segment and of every level-1 element
SizeLen == 8           \* the segment's size field is always 8 bytes wide
HeaderLen == IdLen + SizeLen

(* ebml_int::size_u, for the offsets a stream of the model can hold.       *)
UIntSize(n) == IF n = 0 THEN 0 ELSE IF n < 256 THEN 1 ELSE 2

(* A Seek element: its header, the SeekID with its 4 bytes of ID, and the  *)
(* SeekPosition.  Each header is an ID of 2 bytes and a size of 1.         *)
SeekLen(offset) == 3 + (3 + IdLen) + (3 + UIntSize(offset))
SeekLenMax == 15

ASSUME SegmentAssumption ==
    /\ StreamMax <= 65536 /\ IsVint(StreamMax)
    /\ PadSizes \subseteq {n \in Nat : IsVint(n)}
    /\ InfoSizes \subseteq Nat \ {0}
    /\ KindSizes \subseteq Nat \ {0}
    /\ Starts \subseteq Nat
    /\ MaxElements \in Nat
    /\ Kinds \cap OwnKinds = {}
    /\ IsVint(SeekLenMax * MaxElements)

VARIABLES
    stream,    \* the byte stream
    eof,       \* one past the last byte ever written
    wpos,      \* tellp()
    rpos,      \* tellg()
    joint,     \* the stream has one position for both (std::fstream)
    seg,       \* the Segment: offset_, size_, pad_size_, writing_
    index,     \* seg.index: kind and offset of each entry
    indexBody, \* the sizes of the index's Seek elements, added up
    info,      \* seg.info.size()
    kept,      \* history: elements written that nothing may overwrite
    threw,     \* history: exceptions thrown so far
    fin,       \* locals of the running finalise()
    pc         \* where the object is, between calls and within finalise()

vars == <<stream, eof, wpos, rpos, joint, seg, index, indexBody, info, kept,
          threw, fin, pc>>

streamVars == <<stream, eof, wpos, rpos>>
objectVars == <<joint, seg, index, indexBody, info>>

NoFin == [pad |-> 0, written |-> 0, head |-> FALSE, info |-> FALSE,
          end |-> 0, read |-> 0]

BodyStart == seg.offset + HeaderLen

(* to_segment_offset() and to_stream_offset() *)
ForgetsSizeField(p) == p - (seg.offset + IdLen)
SubtractsHeaderTwice(p) == p - (BodyStart + HeaderLen)
ToSegmentOffset(p) == p - BodyStart
ToStreamOffset(o) == o + BodyStart

(* index.size() *)
HeadLen == IdLen + VintSize(indexBody) + indexBody

HeadAt(p) == Extent("SeekHead", p, HeadLen, 0, index)
InfoAt(p) == Plain("Info", p, info)
VoidOneTooLong(p, target) ==
    Plain("Void", p, VoidLen(VoidBody(target), 1))
VoidAt(p, target) ==
    Plain("Void", p, VoidLen(VoidBody(target), VoidExtra(target)))
SizeField(n) == Extent("SegmentSize", seg.offset + IdLen, SizeLen, n, <<>>)

----------------------------------------------------------------------------
(* A stream with one position for reading and writing moves both.          *)
SeekP(p) == wpos' = p /\ rpos' = IF joint THEN p ELSE rpos

(* Write an element where it says it lies, and go on to `next`.            *)
Emit(e, next) ==
    /\ End(e) <= StreamMax
    /\ stream' = Put(stream, e)
    /\ eof' = IF End(e) > eof THEN End(e) ELSE eof
    /\ SeekP(next)

----------------------------------------------------------------------------
(* The caller sets the padding, or changes what the SegmentInfo holds and  *)
(* with that its size.                                                     *)
SetPad(n) ==
    /\ pc = "new"
    /\ seg' = [seg EXCEPT !.pad = n]
    /\ UNCHANGED <<streamVars, joint, index, indexBody, info, kept, threw, fin, pc>>

SetInfo(n) ==
    /\ pc = "open"
    /\ info' = n
    /\ UNCHANGED <<streamVars, joint, seg, index, indexBody, kept, threw, fin, pc>>

(* write(): the header goes out with the size the object happens to have   *)
(* and the segment is open before the padding is made, which fails for a   *)
(* padding too small to be an element.                                     *)
Write ==
    LET at == wpos
        id == Plain("SegmentID", at, IdLen)
        field == Extent("SegmentSize", at + IdLen, SizeLen, seg.size, <<>>)
        void == Plain("Void", at + HeaderLen,
                      VoidLen(VoidBody(seg.pad), VoidExtra(seg.pad)))
        header == Put(Put(stream, id), field)
    IN  /\ pc = "new"
        /\ seg' = [seg EXCEPT !.offset = at, !.writing = TRUE]
        /\ kept' = kept \cup {id}
        /\ pc' = "open"
        /\ \/ /\ seg.pad < VoidMin
              /\ End(field) <= StreamMax
              /\ threw' = threw \cup {"VoidTooSmall in write"}
              /\ stream' = header
              /\ eof' = End(field)
              /\ SeekP(End(field))
           \/ /\ seg.pad >= VoidMin
              /\ End(void) <= StreamMax
              /\ stream' = Put(header, void)
              /\ eof' = End(void)
              /\ SeekP(End(void))
              /\ UNCHANGED threw
        /\ UNCHANGED <<joint, index, indexBody, info, fin>>

(* The caller writes a level-1 element at the end of the segment, after    *)
(* giving the index an entry for it, or not (as examples/write.cpp does    *)
(* for Tracks and the first Cluster, and for the second Cluster).          *)
AppendElement(kind, len, indexed) ==
    LET e == Plain(kind, wpos, len)
        entry == [kind |-> kind, offset |-> ToSegmentOffset(wpos)]
    IN  /\ pc = "open" /\ wpos = eof
        /\ Cardinality({x \in kept : x.kind \in Kinds}) < MaxElements
        /\ Len(index) < MaxElements
        /\ Emit(e, End(e))
        /\ kept' = kept \cup {e}
        /\ IF indexed
           THEN /\ index' = Append(index, entry)
                /\ indexBody' = indexBody + SeekLen(entry.offset)
           ELSE UNCHANGED <<index, indexBody>>
        /\ UNCHANGED <<joint, seg, info, threw, fin, pc>>

(* The caller moves the write position to the end of the segment, where    *)
(* finalise() has to be called, after an exception left it elsewhere.      *)
SeekEnd ==
    /\ pc = "open" /\ wpos # eof
    /\ SeekP(eof)
    /\ UNCHANGED <<stream, eof, objectVars, kept, threw, fin, pc>>

----------------------------------------------------------------------------
(* finalise() of a segment that is not open *)
FinaliseRefused ==
    /\ pc \in {"new", "closed"}
    /\ ~seg.writing
    /\ threw' = threw \cup {"NotWriting"}
    /\ UNCHANGED <<streamVars, objectVars, kept, fin, pc>>

(* finalise() finds nothing after the header: the read fails, and with it  *)
(* every later use of the stream.                                          *)
FinaliseUnreadable ==
    /\ \/ pc = "open" /\ wpos = eof /\ BodyStart >= eof
       \/ pc = "dead"
    /\ threw' = threw \cup {"ReadError"}
    /\ pc' = "dead"
    /\ UNCHANGED <<streamVars, objectVars, kept, fin>>

(* finalise() starts: it remembers both positions and takes as padding the *)
(* Void element it finds at the start of the body.                         *)
PadFound == IF stream[BodyStart].kind = "Void" THEN stream[BodyStart].len ELSE 0

FinaliseBegin ==
    /\ pc = "open" /\ wpos = eof
    /\ seg.writing
    /\ BodyStart < eof
    /\ fin' = [NoFin EXCEPT !.pad = PadFound, !.end = wpos, !.read = rpos]
    /\ wpos' = BodyStart
    /\ rpos' = IF joint THEN BodyStart
               ELSE BodyStart + (IF PadFound > 0 THEN PadFound ELSE IdLen)
    /\ pc' = "place"
    /\ UNCHANGED <<stream, eof, objectVars, kept, threw>>

RoomOneShort == IF fin.written < fin.pad THEN fin.pad - fin.written - 1 ELSE 0
Room == fin.pad - fin.written
HeadAlwaysFits == ~fin.head
HeadFits == ~fin.head /\ HeadLen < Room
InfoFitsBesideHead == ~fin.info /\ info + HeadLen < Room
InfoFits == ~fin.info /\ info < Room
Placing == fin.written < fin.pad /\ ~(fin.head /\ fin.info)

(* One turn of the loop that places the SeekHead, the SegmentInfo, or      *)
(* neither: then the next turn finds everything as it was.                 *)
PlaceHead ==
    /\ pc = "place" /\ Placing /\ HeadFits
    /\ Emit(HeadAt(wpos), wpos + HeadLen)
    /\ kept' = kept \cup {HeadAt(wpos)}
    /\ fin' = [fin EXCEPT !.head = TRUE, !.written = @ + HeadLen]
    /\ UNCHANGED <<objectVars, threw, pc>>

PlaceInfo ==
    /\ pc = "place" /\ Placing /\ ~HeadFits /\ InfoFits
    /\ Emit(InfoAt(wpos), wpos + info)
    /\ kept' = kept \cup {InfoAt(wpos)}
    /\ fin' = [fin EXCEPT !.info = TRUE, !.written = @ + info]
    /\ UNCHANGED <<objectVars, threw, pc>>

PlaceNeither ==
    /\ pc = "place" /\ Placing /\ ~HeadFits /\ ~InfoFits
    /\ UNCHANGED vars

PlaceDone ==
    /\ pc = "place" /\ ~Placing
    /\ pc' = "repad"
    /\ UNCHANGED <<streamVars, objectVars, kept, threw, fin>>

(* What is left of the padding becomes a Void element again; a single byte *)
(* cannot, and the exception leaves finalise() half done.                  *)
Repad ==
    /\ pc = "repad"
    /\ \/ /\ Room = 0
          /\ SeekP(fin.end)
          /\ UNCHANGED <<stream, eof>>
       \/ /\ Room >= VoidMin
          /\ Emit(VoidAt(wpos, Room), fin.end)
    /\ pc' = "tail"
    /\ UNCHANGED <<objectVars, kept, threw, fin>>

RepadFails ==
    /\ pc = "repad"
    /\ 0 < Room /\ Room < VoidMin
    /\ threw' = threw \cup {"VoidTooSmall in finalise"}
    /\ fin' = NoFin
    /\ pc' = "open"
    /\ UNCHANGED <<streamVars, objectVars, kept>>

(* What found no place in the padding goes to the end.                     *)
KeepsOldEnd(n) == fin.end
EndAfter(n) == wpos + n

TailHead ==
    /\ pc = "tail" /\ ~fin.head
    /\ Emit(HeadAt(wpos), wpos + HeadLen)
    /\ kept' = kept \cup {HeadAt(wpos)}
    /\ fin' = [fin EXCEPT !.head = TRUE, !.end = EndAfter(HeadLen)]
    /\ UNCHANGED <<objectVars, threw, pc>>

TailInfo ==
    /\ pc = "tail" /\ fin.head /\ ~fin.info
    /\ Emit(InfoAt(wpos), wpos + info)
    /\ kept' = kept \cup {InfoAt(wpos)}
    /\ fin' = [fin EXCEPT !.info = TRUE, !.end = EndAfter(info)]
    /\ UNCHANGED <<objectVars, threw, pc>>

(* The size goes into the header, both positions go back.                  *)
SizeWithSizeField == wpos - (seg.offset + IdLen)
SizeNow == wpos - (seg.offset + IdLen + SizeLen)

Patch ==
    /\ pc = "tail" /\ fin.head /\ fin.info
    /\ stream' = Put(stream, SizeField(SizeNow))
    /\ seg' = [seg EXCEPT !.size = SizeNow, !.writing = FALSE]
    /\ wpos' = IF joint THEN fin.read ELSE fin.end
    /\ rpos' = fin.read
    /\ fin' = NoFin
    /\ pc' = "closed"
    /\ UNCHANGED <<eof, joint, index, indexBody, info, kept, threw>>

----------------------------------------------------------------------------
(* A segment object over a stream that already holds the EBML header.      *)
Init ==
    /\ \E start \in Starts, n \in PadSizes :
        /\ stream = [p \in Positions |->
                      IF p < start THEN Plain("EBML", 0, start) ELSE Free]
        /\ eof = start /\ wpos = start
        /\ joint \in BOOLEAN
        /\ rpos = IF joint THEN start ELSE 0
        /\ seg = [offset |-> 0, size |-> n, pad |-> n, writing |-> FALSE]
        /\ start + HeaderLen <= StreamMax
        /\ kept = {Plain("EBML", 0, start)}
    /\ index = <<>> /\ indexBody = 0
    /\ info \in InfoSizes
    /\ threw = {}
    /\ fin = NoFin
    /\ pc = "new"

Caller ==
    \/ \E n \in PadSizes : SetPad(n)
    \/ \E n \in InfoSizes : SetInfo(n)
    \/ Write
    \/ \E k \in Kinds, n \in KindSizes, i \in BOOLEAN : AppendElement(k, n, i)
    \/ SeekEnd
    \/ FinaliseRefused
    \/ FinaliseUnreadable
    \/ FinaliseBegin

FinaliseStep ==
    \/ PlaceHead
    \/ PlaceInfo
    \/ PlaceNeither
    \/ PlaceDone
    \/ Repad
    \/ RepadFails
    \/ TailHead
    \/ TailInfo
    \/ Patch

Next == Caller \/ FinaliseStep

Spec == Init /\ [][Next]_vars

(* A running finalise() takes its next step; callers need not call.        *)
FairSpec == Spec /\ WF_vars(FinaliseStep)

----------------------------------------------------------------------------
Entries == [kind : Kinds, offset : Nat]

Extents ==
    [kind : OwnKinds \cup Kinds, at : Nat, len : Nat, size : Nat,
     entries : Seq(Entries)]

StreamTypeOK ==
    /\ stream \in [Positions -> Extents]
    /\ eof \in 0..StreamMax /\ wpos \in 0..StreamMax /\ rpos \in Nat
    /\ joint \in BOOLEAN
    /\ kept \subseteq Extents

ObjectTypeOK ==
    /\ seg \in [offset : Nat, size : Nat, pad : PadSizes, writing : BOOLEAN]
    /\ index \in Seq(Entries)
    /\ indexBody \in Nat
    /\ info \in InfoSizes

CallTypeOK ==
    /\ fin \in [pad : Nat, written : Nat, head : BOOLEAN, info : BOOLEAN,
                end : Nat, read : Nat]
    /\ pc \in {"new", "open", "place", "repad", "tail", "closed", "dead"}
    /\ threw \subseteq {"VoidTooSmall in write", "NotWriting", "ReadError",
                      "VoidTooSmall in finalise"}

TypeOK == StreamTypeOK /\ ObjectTypeOK /\ CallTypeOK

(* Nothing the caller wrote, and neither the SeekHead nor the SegmentInfo  *)
(* once placed, is ever overwritten: not by the padding, not by a second   *)
(* finalise() after one that threw, and at no step in between.             *)
NothingOverwritten == \A e \in kept : Whole(stream, e)

(* Between calls, unless a finalise() has failed half way, the body of the *)
(* segment is a gapless run of whole elements up to the end of the stream, *)
(* so that a reader can walk it even if the writer never comes back.       *)
BodyWalkable ==
    pc \in {"open", "tail", "closed"} /\ "VoidTooSmall in finalise" \notin threw
        => Tiled(stream, BodyStart, eof)

(* The size a finalised segment declares ends it exactly where its last    *)
(* element ends, wherever SeekHead and SegmentInfo went.                   *)
DeclaredSizeTrue ==
    pc = "closed" =>
        /\ stream[seg.offset + IdLen] = SizeField(eof - BodyStart)
        /\ Whole(stream, SizeField(eof - BodyStart))
        /\ seg.size = eof - BodyStart

(* Every entry of a SeekHead in the stream leads to the first byte of a    *)
(* whole element of the kind it names.                                     *)
IndexResolves ==
    \A h \in {e \in kept : e.kind = "SeekHead"} : \A i \in DOMAIN h.entries :
        LET p == ToStreamOffset(h.entries[i].offset)
            e == stream[p]
        IN  e.kind = h.entries[i].kind /\ e.at = p /\ Whole(stream, e)

(* The last step of finalise() hands the stream back: reading goes on      *)
(* where it was, and writing at the end of the segment.  A stream with one *)
(* position cannot do both when elements were appended; it goes back to    *)
(* the old end.                                                            *)
PositionsRestored ==
    [][pc = "tail" /\ pc' = "closed" =>
        /\ rpos' = fin.read
        /\ wpos' = IF joint THEN fin.read ELSE eof]_vars

(* While finalise() runs it writes over padding, the size field and what   *)
(* lies past the end of the segment, and over nothing else.                *)
WritesInBounds ==
    \A p \in {q \in Positions : stream'[q] # stream[q]} :
        stream[p].kind \in {"Void", "SegmentSize"} \/ p >= eof

FinaliseStaysInBounds ==
    [][(pc \in {"place", "repad", "tail"}) => WritesInBounds]_vars

(* When SeekHead and SegmentInfo both go into the padding and leave none,  *)
(* or enough for a Void element, finalise() runs to its end.               *)
FitsBoth ==
    /\ pc = "place" /\ fin.written = 0
    /\ HeadLen + info < fin.pad /\ fin.pad - (HeadLen + info) # 1
FinaliseEndsWhenBothFit == FitsBoth ~> (pc = "closed")

(* Those that do not fit the padding are written at the end of the segment *)
(* (segment.h:469-474), so that finalise() comes to an end in any case.    *)
FinaliseEnds == (pc = "place") ~> (pc # "place")
=============================================================================
