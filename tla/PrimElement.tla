---------------------------- MODULE PrimElement ----------------------------
(***************************************************************************)
(* Elements that hold one value (src/include/tawara/prim_element.h and the *)
(* six classes derived from it), octet by octet: written by write(), read  *)
(* by ids::read() and read(), or skipped (src/src/element.cpp).            *)
(*                                                                         *)
(* A value is a number or, for strings and binaries, a sequence of octets. *)
(* Positions count octets from the start of the stream.                    *)
(***************************************************************************)
EXTENDS EBMLCodec

CONSTANTS
    Objects,            \* elements the client starts with
    Used,               \* elements it reads into
    Ids,                \* IDs it may give to an element
    Paddings,           \* of strings
    Foreign,            \* what other programs may have written
    SingleLen, DoubleLen,   \* octets of the two precisions of a float
    MaxWrites           \* bound: elements the client writes

DateLen == OctetBits

Kinds == {"UInt", "Int", "Float", "String", "Binary", "Date"}

(* What the classes hold. A float is the number its octets make.           *)
ValuesOf(kind) ==
    CASE kind = "UInt" -> 0..(Span(OctetBits) - 1)
      [] kind = "Int" -> -Half(OctetBits)..(Half(OctetBits) - 1)
      [] kind = "Float" -> 0..(Span(DoubleLen) - 1)
      [] kind = "Date" -> -Half(DateLen)..(Half(DateLen) - 1)
      [] kind \in {"String", "Binary"} -> Seq(Octets)

IsElement(e) ==
    /\ e = [kind |-> e.kind, id |-> e.id, value |-> e.value, padding |-> e.padding,
            prec |-> e.prec, offset |-> e.offset]
    /\ e.kind \in Kinds /\ e.value \in ValuesOf(e.kind)
    /\ e.id \in Nat /\ e.padding \in Nat /\ e.prec \in {SingleLen, DoubleLen}
    /\ e.offset \in Int

(* In the code a single has four octets and a double eight.                *)
ASSUME PrimAssumption ==
    /\ SingleLen \in Nat \ {0} /\ DoubleLen \in Nat /\ SingleLen <= DoubleLen
    /\ Ids \subseteq Nat /\ Paddings \subseteq Nat
    /\ Foreign \subseteq Seq(Octets)
    /\ \A e \in Objects \cup Used : IsElement(e)

VARIABLES
    el,         \* the object
    s,          \* the octets in the stream
    rpos, wpos, \* tellg() and tellp()
    joint,      \* the stream has one position for both
    phase,      \* "idle", "id" when an ID has been read, or "stopped"
    at, got,    \* where that ID began, and the ID
    last,       \* history: what the call just made returned, and where it began
    sent        \* history: the object last written and where

vars == <<el, s, rpos, wpos, joint, phase, at, got, last, sent>>

None == [op |-> "none", from |-> 0, count |-> 0]
Call(op, from, count) == [op |-> op, from |-> from, count |-> count]
Unsent == [el |-> <<>>, at |-> 0, writes |-> 0]
WasSent == sent.writes > 0

----------------------------------------------------------------------------
(* Bodies.  Floats and dates go out in the order they have in memory.      *)

InMemory(n, k) == Reverse(OctetsOf(n, k))
FromMemory(octets) == NumberOf(Reverse(octets))

(* A single has the leading octets of a double.                            *)
Shorter == Span(DoubleLen - SingleLen)

FloatBody(e) ==
    IF e.prec = SingleLen THEN InMemory(e.value \div Shorter, SingleLen)
    ELSE InMemory(e.value, DoubleLen)

StringBody(e) == e.value \o [i \in 1..e.padding |-> 0]

DateBody(e) == InMemory(e.value % Span(DateLen), DateLen)

Body(e) ==
    CASE e.kind = "UInt" -> EncodeU(e.value)
      [] e.kind = "Int" -> EncodeS(e.value)
      [] e.kind = "Float" -> FloatBody(e)
      [] e.kind = "String" -> StringBody(e)
      [] e.kind = "Binary" -> e.value
      [] e.kind = "Date" -> DateBody(e)

(* What the size field will say, computed before the body is written.      *)
ForgetsPadding(e) == Len(e.value)
StringSize(e) == Len(e.value) + e.padding

BodySize(e) ==
    CASE e.kind = "UInt" -> SizeU(e.value)
      [] e.kind = "Int" -> SizeS(e.value)
      [] e.kind = "Float" -> e.prec
      [] e.kind = "String" -> StringSize(e)
      [] e.kind = "Binary" -> Len(e.value)
      [] e.kind = "Date" -> DateLen

Size(e) == IdSize(e.id) + V!VintSize(BodySize(e)) + BodySize(e)

Written(e) == IdOctets(e.id) \o VintOctets(BodySize(e), 0) \o Body(e)

----------------------------------------------------------------------------
(* read_body() with a size from the stream.                                *)

SignedDate(octets) ==
    FromMemory(octets) -
        (IF Last(octets) >= Octet \div 2 THEN Span(DateLen) ELSE 0)

FloatRead(e, octets) ==
    [e EXCEPT !.prec = Len(octets),
              !.value = FromMemory(octets) *
                            (IF Len(octets) = SingleLen THEN Shorter ELSE 1)]

Filled(e, octets) ==
    CASE e.kind = "UInt" -> [e EXCEPT !.value = DecodeU(octets)]
      [] e.kind = "Int" -> [e EXCEPT !.value = DecodeS(octets)]
      [] e.kind = "Float" -> FloatRead(e, octets)
      [] e.kind \in {"String", "Binary"} -> [e EXCEPT !.value = octets]
      [] e.kind = "Date" -> [e EXCEPT !.value = SignedDate(octets)]

(* What read_body() returns, to be counted by whoever reads the parent.    *)
ValueLen(e, size) == IF e.kind = "String" THEN size - e.padding ELSE size
BodyCount(e, size) == size

(* Other lengths of floats and dates are refused, of integers asserted not *)
(* to be.                                                                  *)
BodyFault(e, size) ==
    CASE e.kind \in {"UInt", "Int"} /\ size > OctetBits -> "assertion"
      [] e.kind = "Float" /\ size \notin {SingleLen, DoubleLen} -> "BadElementLength"
      [] e.kind = "Date" /\ size # DateLen -> "BadElementLength"
      [] OTHER -> "ok"

(* When the stream ends first, only a date is read straight into the value *)
(* and has its first octets replaced.                                      *)
NotStrings == {"UInt", "Int", "Float", "Binary"}
InTemporary == NotStrings \cup {"String"}

CutShort(e, octets) ==
    IF e.kind \in InTemporary THEN e
    ELSE IF e.kind = "Date"
    THEN [e EXCEPT !.value = SignedDate(octets \o SubSeq(DateBody(e), Len(octets) + 1, DateLen))]
    ELSE [e EXCEPT !.value = octets]

Behind(p) == SubSeq(s, p + 1, Len(s))
Taken(p, n) == SubSeq(s, p + 1, p + n)
Left(p) == IF p < Len(s) THEN Len(s) - p ELSE 0

----------------------------------------------------------------------------
(* The client's object and positions.                                      *)

Idle == phase = "idle"

(* The ID is not checked against the classes until it is written.          *)
SetId ==
    /\ Idle /\ s = <<>>
    /\ \E id \in Ids : el' = [el EXCEPT !.id = id]
    /\ last' = None
    /\ UNCHANGED <<s, rpos, wpos, joint, phase, at, got, sent>>

SetPadding ==
    /\ Idle /\ el.kind = "String"
    /\ \E n \in Paddings : el' = [el EXCEPT !.padding = n]
    /\ last' = None
    /\ UNCHANGED <<s, rpos, wpos, joint, phase, at, got, sent>>

(* The client goes on with another object of the class, used before.       *)
TakeOther ==
    /\ Idle /\ WasSent
    /\ \E e \in Used : e.kind = el.kind /\ el' = [e EXCEPT !.id = el.id]
    /\ last' = None
    /\ UNCHANGED <<s, rpos, wpos, joint, phase, at, got, sent>>

Starts == {0, sent.at}

SeekRead ==
    /\ Idle
    /\ rpos' \in Starts
    /\ wpos' = IF joint THEN rpos' ELSE wpos
    /\ last' = None
    /\ UNCHANGED <<el, s, joint, phase, at, got, sent>>

SeekWrite ==
    /\ Idle
    /\ wpos' \in Starts \cup {Len(s)}
    /\ rpos' = IF joint THEN wpos' ELSE rpos
    /\ last' = None
    /\ UNCHANGED <<el, s, joint, phase, at, got, sent>>

----------------------------------------------------------------------------
(* Element::write()                                                        *)

(* No body is longer than size fields can say, which is 2^56 octets.       *)
Write ==
    /\ Idle /\ wpos = Len(s) /\ IsId(el.id)
    /\ sent.writes < MaxWrites /\ V!IsVint(BodySize(el))
    /\ el' = [el EXCEPT !.offset = wpos]
    /\ s' = s \o Written(el)
    /\ wpos' = wpos + Len(Written(el))
    /\ rpos' = IF joint THEN wpos' ELSE rpos
    /\ last' = Call("write", wpos, Size(el))
    /\ sent' = [el |-> el, at |-> wpos, writes |-> sent.writes + 1]
    /\ UNCHANGED <<joint, phase, at, got>>

(* An ID that is in no class is refused by ids::write(), before any octet. *)
WriteRefused ==
    /\ Idle /\ wpos = Len(s) /\ ~IsId(el.id)
    /\ el' = [el EXCEPT !.offset = wpos]
    /\ last' = Call("refused", wpos, 0)
    /\ UNCHANGED <<s, rpos, wpos, joint, phase, at, got, sent>>

----------------------------------------------------------------------------
(* Reading: the client reads an ID, and the element if it is the one.      *)

Stop(why) ==
    /\ phase' = "stopped"
    /\ last' = Call(why, 0, 0)
    /\ at' = 0 /\ got' = 0
    /\ UNCHANGED <<s, rpos, wpos, joint, sent>>

MoveTo(p) == rpos' = p /\ wpos' = IF joint THEN p ELSE wpos

ReadId ==
    LET id == IdRead(Behind(rpos)) IN
    /\ Idle
    /\ IF Ok(id)
       THEN /\ phase' = "id" /\ at' = rpos /\ got' = id.value
            /\ MoveTo(rpos + id.len)
            /\ last' = None
            /\ UNCHANGED <<s, joint, sent>>
       ELSE Stop(id.status)
    /\ UNCHANGED el

(* Element::read() comes after the ID, and reckons back to it.             *)
OffsetOfSize == rpos
OffsetBehindId == rpos - IdSize(el.id)

Opened == [el EXCEPT !.offset = OffsetBehindId]

Read ==
    LET size == VintRead(Behind(rpos))
        body == rpos + size.len
    IN
    /\ phase = "id" /\ got = el.id
    /\ \/ /\ ~Ok(size) /\ Stop(size.status) /\ el' = Opened
       \/ /\ Ok(size) /\ BodyFault(el, size.value) # "ok"
          /\ Stop(BodyFault(el, size.value)) /\ el' = Opened
       \/ /\ Ok(size) /\ BodyFault(el, size.value) = "ok"
          /\ Left(body) < size.value
          /\ el' = CutShort(Opened, Behind(body))
          /\ Stop("short")
       \/ /\ Ok(size) /\ BodyFault(el, size.value) = "ok"
          /\ Left(body) >= size.value
          /\ el' = Filled(Opened, Taken(body, size.value))
          /\ MoveTo(body + size.value)
          /\ phase' = "idle" /\ at' = 0 /\ got' = 0
          /\ last' = Call("read", at, size.len + BodyCount(el, size.value))
          /\ UNCHANGED <<s, joint, sent>>

----------------------------------------------------------------------------
(* skip_read() and skip_write(), which move one position over an element.  *)
(* Going past the end of the stream is no error yet.                       *)

(* What is skipped from p: the ID first, if it has not been read.          *)
IdLenAt(p, and_id) == IF and_id THEN IdRead(Behind(p)) ELSE Got(0, 0)

Skip(p, and_id) ==
    LET id == IdLenAt(p, and_id)
        size == VintRead(Behind(p + id.len))
    IN  IF ~Ok(id) THEN id ELSE IF ~Ok(size) THEN size
        ELSE Got(0, id.len + size.len + size.value)

SkipRead ==
    LET skip == Skip(rpos, Idle) IN
    /\ phase \in {"idle", "id"}
    /\ IF Ok(skip)
       THEN /\ MoveTo(rpos + skip.len)
            /\ phase' = "idle" /\ at' = 0 /\ got' = 0 /\ last' = None
            /\ UNCHANGED <<s, joint, sent>>
       ELSE Stop(skip.status)
    /\ UNCHANGED el

(* The read position is used on the way and put back, which takes a joint  *)
(* write position with it.                                                 *)
SkipWrite ==
    LET skip == Skip(wpos, TRUE) IN
    /\ Idle
    /\ IF Ok(skip)
       THEN /\ wpos' = IF joint THEN rpos ELSE wpos + skip.len
            /\ last' = None
            /\ UNCHANGED <<s, rpos, joint, phase, at, got, sent>>
       ELSE Stop(skip.status)
    /\ UNCHANGED el

----------------------------------------------------------------------------
Init ==
    /\ \/ s = <<>> /\ el \in Objects
       \/ s \in Foreign /\ el \in Used
    /\ joint \in BOOLEAN
    /\ rpos = 0 /\ wpos = 0
    /\ phase = "idle" /\ at = 0 /\ got = 0
    /\ last = None /\ sent = Unsent

Next ==
    \/ SetId \/ SetPadding \/ TakeOther \/ SeekRead \/ SeekWrite
    \/ Write \/ WriteRefused \/ ReadId \/ Read \/ SkipRead \/ SkipWrite

Spec == Init /\ [][Next]_vars

----------------------------------------------------------------------------
(* Properties                                                              *)

WriteDone == s' # s
ReadDone == phase = "id" /\ phase' = "idle" /\ last'.op = "read"

Canonical == rpos - at = IdSize(el.id)

(* What size() announces is what write() returns and what it puts into the *)
(* stream; what read() returns is what it takes, and is what skip_read()   *)
(* would have skipped; a parent that adds up these counts never drifts.    *)
(* offset() is where the element's ID is (element.h:104), unless the ID    *)
(* had more octets than its value needs.                                   *)
CountsAreOctets ==
    /\ [][WriteDone =>
            /\ Len(s') - Len(s) = last'.count
            /\ el'.offset = last'.from]_vars
    /\ [][ReadDone =>
            /\ rpos' = rpos + last'.count
            /\ rpos' = at + Skip(at, TRUE).len
            /\ Canonical => el'.offset = at]_vars

(* Padding becomes part of a string that is read; a single has lost what   *)
(* it could not hold.                                                      *)
Meant(e) ==
    CASE e.kind = "String" -> StringBody(e)
      [] e.kind = "Float" -> IF e.prec = SingleLen
                             THEN e.value - (e.value % Shorter) ELSE e.value
      [] OTHER -> e.value

(* An element written is read back, into any object of its class and       *)
(* behind whatever else is in the stream, with the value it had.           *)
RoundTrip ==
    [][(ReadDone /\ WasSent /\ last'.from = sent.at) =>
          /\ el'.value = Meant(sent.el)
          /\ el.kind = "Float" => el'.prec = sent.el.prec]_vars

(* An element read and written again in its old place does not reach into  *)
(* what follows it, padding the client has asked for apart.                *)
RewriteFits ==
    [][ReadDone => Size([el' EXCEPT !.padding = 0]) <= rpos' - at]_vars

(* A read that throws leaves the value as it was: the caller who catches   *)
(* the exception has the object it had.  Dates do not promise that.        *)
FailedReadKeepsValue ==
    [][(phase = "id" /\ phase' = "stopped" /\ el.kind # "Date") =>
          el'.value = el.value]_vars
=============================================================================
