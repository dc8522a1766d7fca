------------------------ MODULE SegmentWriterProofs ------------------------
(***************************************************************************)
(* For every stream length, padding, SegmentInfo, kind and size of element *)
(* and start position: no step of a segment writer overwrites anything it  *)
(* has to keep.  The argument: a step writes over bytes of a Void element, *)
(* over the size field, or past the end of the stream, and what is kept    *)
(* lies before the end and is neither.  For finalise() that needs to know  *)
(* that the padding it found is still there, byte for byte, from the write *)
(* position to the end it computed; IInv says so at every step.            *)
(* First, for every family of widths, that a Void element occupies the     *)
(* bytes it was made for, and the bytes it was found in.                   *)
(***************************************************************************)
EXTENDS SegmentWriter, VoidElement, WellFoundedInduction, TLAPS

----------------------------------------------------------------------------
(* Sizes: what proofs about Void elements and padding need to know.        *)

(* The least-number principle, for a set.                                  *)
LEMMA LeastOf ==
    ASSUME NEW T, T \subseteq Nat, T # {}
    PROVE  \E x \in T : \A y \in T : x <= y
<1> DEFINE R == OpToRel(<, Nat)
<1>1. \A x, y \in Nat : <<y, x>> \in R <=> y < x
  BY DEF OpToRel
<1>2. IsWellFoundedOn(R, Nat)
  BY NatLessThanWellFounded
<1> HIDE DEF R
<1>3. PICK x \in T : \A y \in T : <<y, x>> \notin R
  BY <1>2, WFMin
<1>4. ASSUME NEW y \in T PROVE x <= y
  <2>1. x \in Nat /\ y \in Nat
    OBVIOUS
  <2>2. ~(y < x)
    BY <1>1, <1>3, <2>1
  <2>3. QED
    BY <2>1, <2>2
<1>5. QED
  BY <1>4

LEMMA WidthsAre ==
    /\ Len(VintLimit) \in 2..8
    /\ Widths = 1..Len(VintLimit)
    /\ \A k \in Widths : VintLimit[k] \in Nat
BY VintLimitAssumption DEF Widths

(* Of two widths the wider one's limit is larger by more than 8.           *)
LEMMA LimitsGrow ==
    ASSUME NEW j \in Widths, NEW k \in Widths, j < k
    PROVE  VintLimit[j] + 8 < VintLimit[k]
<1> DEFINE Bad == {l \in Widths : j < l /\ ~(VintLimit[j] + 8 < VintLimit[l])}
<1> SUFFICES ASSUME Bad # {} PROVE FALSE
  OBVIOUS
<1>1. Bad \subseteq Nat
  BY WidthsAre
<1>2. PICK l \in Bad : \A m \in Bad : l <= m
  BY <1>1, LeastOf
<1>3. /\ l - 1 \in Widths /\ j <= l - 1
      /\ VintLimit[l - 1] + 8 < VintLimit[l]
  <2>1. l - 1 \in 1..(Len(VintLimit) - 1) /\ j <= l - 1
    BY <1>2, WidthsAre
  <2>2. VintLimit[l - 1] + 8 < VintLimit[(l - 1) + 1]
    BY <2>1, VintLimitAssumption
  <2>3. QED
    BY <2>1, <2>2, WidthsAre
<1>4. l - 1 \notin Bad
  BY <1>2, <1>3, WidthsAre
<1>5. QED
  BY <1>2, <1>3, <1>4, WidthsAre

(* Every value the format holds has a size, and it is the least width      *)
(* whose limit exceeds it.                                                 *)
LEMMA VintSizeIs ==
    ASSUME NEW n, IsVint(n)
    PROVE  /\ VintSize(n) \in Widths
           /\ n < VintLimit[VintSize(n)]
           /\ \A j \in Widths : j < VintSize(n) => VintLimit[j] <= n
<1> DEFINE Fits == {k \in Widths : FitsIn(n, k)}
           Least(k) == FitsIn(n, k) /\ \A j \in 1..(k - 1) : ~FitsIn(n, j)
<1>1. n \in Nat /\ Fits \subseteq Nat /\ Fits # {}
  BY WidthsAre DEF IsVint, FitsIn
<1>2. PICK k \in Fits : \A j \in Fits : k <= j
  BY <1>1, LeastOf
<1>3. Least(k)
  BY <1>2, WidthsAre
<1>4. VintSize(n) \in Widths /\ Least(VintSize(n))
  BY <1>2, <1>3 DEF VintSize
<1>5. QED
  BY <1>1, <1>4, WidthsAre, SMTT(30) DEF FitsIn

(* A value's size is pinned by the limits on both sides of it.             *)
LEMMA VintSizeUnique ==
    ASSUME NEW n, IsVint(n), NEW k \in Widths,
           n < VintLimit[k], \A j \in Widths : j < k => VintLimit[j] <= n
    PROVE  VintSize(n) = k
BY VintSizeIs, WidthsAre DEF IsVint

(* Taking the size field's own width off a total leaves a body whose size  *)
(* field is as wide, or one byte narrower.                                 *)
LEMMA BodyEstimate ==
    ASSUME NEW n, IsVint(n), n >= 1
    PROVE  /\ n - VintSize(n) \in Nat
           /\ IsVint(n - VintSize(n))
           /\ VintSize(n - VintSize(n)) \in {VintSize(n), VintSize(n) - 1}
<1> DEFINE s == VintSize(n)
           b == n - s
<1>1. /\ n \in Nat /\ s \in Widths /\ n < VintLimit[s]
      /\ \A j \in Widths : j < s => VintLimit[j] <= n
  BY VintSizeIs DEF IsVint
<1>2. s \in 1..8
  BY <1>1, WidthsAre
<1>3. s > 1 => 1 \in Widths /\ VintLimit[1] <= n
  BY <1>1, WidthsAre
<1>4. b \in Nat
  BY <1>1, <1>2, <1>3, VintLimitAssumption
<1>5. IsVint(b)
  BY <1>1, <1>2, <1>4, WidthsAre DEF IsVint
<1> HIDE DEF s
<1>6. VintSize(b) <= s
  BY <1>1, <1>2, <1>4, <1>5, VintSizeIs, WidthsAre
<1>7. \A j \in Widths : j < s - 1 => VintLimit[j] <= b
  <2> SUFFICES ASSUME NEW j \in Widths, j < s - 1
               PROVE  VintLimit[j] <= b
    OBVIOUS
  <2>1. s - 1 \in Widths /\ VintLimit[s - 1] <= n
    BY <1>1, WidthsAre
  <2>2. VintLimit[j] + 8 < VintLimit[s - 1]
    BY <2>1, LimitsGrow, WidthsAre
  <2>3. QED
    BY <1>1, <1>2, <2>1, <2>2, WidthsAre, SMTT(30)
<1>8. VintSize(b) >= s - 1
  BY <1>1, <1>4, <1>5, <1>7, VintSizeIs, WidthsAre
<1>9. QED
  BY <1>4, <1>5, <1>6, <1>8, <1>1, WidthsAre, VintSizeIs DEF s

(* A Void element made for a goal occupies exactly that many bytes, at     *)
(* every class boundary of its size field (constructors of VoidElement).   *)
THEOREM VoidExact ==
    ASSUME NEW goal \in Nat, goal >= VoidMin, IsVint(goal)
    PROVE  /\ VoidBody(goal) \in Nat
           /\ VoidExtra(goal) \in {0, 1}
           /\ VoidLen(VoidBody(goal), VoidExtra(goal)) = goal
<1> DEFINE n == goal - 1
<1>1. IsVint(n) /\ n >= 1
  BY WidthsAre DEF IsVint, VoidMin
<1>2. /\ n - VintSize(n) \in Nat
      /\ VintSize(n - VintSize(n)) \in {VintSize(n), VintSize(n) - 1}
  BY <1>1, BodyEstimate
<1>3. VintSize(n) \in Nat
  BY <1>1, VintSizeIs, WidthsAre
<1>4. VoidBody(goal) = n - VintSize(n)
  BY DEF VoidBody, VoidIdLen
<1>5. /\ VoidLen(VoidBody(goal), 0) \in {goal, goal - 1}
      /\ VoidLen(VoidBody(goal), 1) = VoidLen(VoidBody(goal), 0) + 1
  BY <1>2, <1>3, <1>4 DEF VoidLen, VoidIdLen
<1>6. QED
  BY <1>2, <1>4, <1>5 DEF VoidExtra

----------------------------------------------------------------------------
(* Void elements.  What makes their two properties inductive: the bodies   *)
(* of the object and of the stored element are values the format can hold, *)
(* and the stored field is wide enough.                                    *)

VoidBounded ==
    /\ IsVint(body)
    /\ IsVint(stored.body)
    /\ VintSize(stored.body) <= stored.width

VoidInv == VoidTypeOK /\ VoidBounded /\ ConstructedExact /\ ReadKeepsFootprint

LEMMA SizesAre == ASSUME NEW n, IsVint(n) PROVE VintSize(n) \in 1..8
BY VintSizeIs, WidthsAre

(* The body chosen for a target is a value that a size field can hold.     *)
LEMMA BodyFits ==
    ASSUME NEW t \in Targets, t >= VoidMin
    PROVE  VoidBody(t) \in Nat /\ IsVint(VoidBody(t)) /\ VoidExtra(t) \in {0, 1}
<1>1. t \in Nat /\ IsVint(t)
  BY TargetsAssumption
<1>2. IsVint(t - 1) /\ t - 1 >= 1
  BY <1>1, WidthsAre DEF IsVint, VoidMin
<1>3. IsVint((t - 1) - VintSize(t - 1))
  BY <1>2, BodyEstimate
<1>4. QED
  BY <1>1, <1>3, VoidExact DEF VoidBody, VoidIdLen

(* The empty body, which the model starts with in the stream.              *)
LEMMA ZeroFits == IsVint(0) /\ 1 \in Widths /\ VintSize(0) = 1
<1> DEFINE n == Len(VintLimit)
<1>1. n \in 2..8 /\ Widths = 1..n
  BY WidthsAre
<1> HIDE DEF n
<1>2. 1 \in Widths /\ n \in Widths /\ 1 < n
  BY <1>1
<1>3. VintLimit[1] \in Nat /\ VintLimit[n] \in Nat /\ VintLimit[1] > 8
  BY <1>2, WidthsAre, VintLimitAssumption
<1>4. VintLimit[1] + 8 < VintLimit[n]
  BY <1>2, LimitsGrow
<1>5. IsVint(0)
  BY <1>3, <1>4 DEF IsVint, n
<1>6. \A j \in Widths : j < 1 => VintLimit[j] <= 0
  BY <1>1
<1>7. QED
  BY <1>2, <1>3, <1>5, <1>6, VintSizeUnique

LEMMA VoidStarts == VoidInit => VoidInv
<1> SUFFICES ASSUME VoidInit PROVE VoidInv
  OBVIOUS
<1>1. target \in Targets /\ target >= VoidMin /\ target \in Nat /\ IsVint(target)
  BY TargetsAssumption DEF VoidInit
<1>2. IsVint(0) /\ 1 \in Widths /\ VintSize(0) = 1
  BY ZeroFits
<1>3. VoidTypeOK
  BY <1>1, <1>2, BodyFits DEF VoidInit, VoidTypeOK, Stored
<1>4. VoidBounded
  BY <1>1, <1>2, BodyFits DEF VoidInit, VoidBounded
<1>5. ConstructedExact /\ ReadKeepsFootprint
  BY <1>1, VoidExact DEF VoidInit, ConstructedExact, ReadKeepsFootprint, Size
<1>6. QED
  BY <1>3, <1>4, <1>5 DEF VoidInv

LEMMA VoidSteps == VoidInv /\ [VoidNext]_voidVars => VoidInv'
<1> SUFFICES ASSUME VoidInv, [VoidNext]_voidVars PROVE VoidInv'
  OBVIOUS
<1> USE DEF VoidInv
<1>0. /\ body \in Nat /\ extra \in 0..8 /\ target \in Targets
      /\ stored.body \in Nat /\ stored.width \in Nat /\ stored.width \in 1..8
  BY WidthsAre DEF VoidTypeOK, Stored
<1>1. ASSUME NEW t \in Targets, Construct(t) PROVE VoidInv'
  <2>1. t \in Nat /\ IsVint(t)
    BY TargetsAssumption
  <2>2. VoidTypeOK'
    BY <1>1, BodyFits DEF Construct, VoidTypeOK
  <2>3. VoidBounded'
    BY <1>1, BodyFits DEF Construct, VoidBounded
  <2>4. (ConstructedExact /\ ReadKeepsFootprint)'
    BY <1>1, <2>1, VoidExact
    DEF Construct, ConstructedExact, ReadKeepsFootprint, Size
  <2>5. QED
    BY <2>2, <2>3, <2>4
<1>2. ASSUME NEW t \in Targets, SetSize(t) PROVE VoidInv'
  <2>1. VoidTypeOK'
    BY <1>2, BodyFits DEF SetSize, ResizedExtra, VoidTypeOK
  <2>2. VoidBounded'
    BY <1>2, BodyFits DEF SetSize, VoidBounded
  <2>3. (ConstructedExact /\ ReadKeepsFootprint)'
    BY <1>2 DEF SetSize, ConstructedExact, ReadKeepsFootprint
  <2>4. QED
    BY <2>1, <2>2, <2>3
<1>3. ASSUME NEW t \in Targets, Refuse(t) PROVE VoidInv'
  BY <1>3 DEF Refuse, VoidTypeOK, VoidBounded, ConstructedExact, ReadKeepsFootprint
<1>4. ASSUME NEW b \in Targets, NEW w \in Widths, Foreign(b, w) PROVE VoidInv'
  <2>1. b \in Nat
    BY TargetsAssumption
  <2>2. VoidTypeOK'
    BY <1>4, <2>1 DEF Foreign, VoidTypeOK, Stored
  <2>3. VoidBounded'
    BY <1>4 DEF Foreign, VoidBounded
  <2>4. (ConstructedExact /\ ReadKeepsFootprint)'
    BY <1>4 DEF Foreign, ConstructedExact, ReadKeepsFootprint
  <2>5. QED
    BY <2>2, <2>3, <2>4
<1>5. CASE WriteVoid
  <2>1. VintSize(body) \in 1..8
    BY SizesAre DEF VoidBounded
  <2>2. VoidTypeOK'
    BY <1>0, <1>5 DEF WriteVoid, VoidTypeOK, Stored
  <2>3. VoidBounded'
    BY <1>0, <1>5, <2>1 DEF WriteVoid, VoidBounded
  <2>4. (ConstructedExact /\ ReadKeepsFootprint)'
    BY <1>0, <1>5, <2>1
    DEF WriteVoid, ConstructedExact, ReadKeepsFootprint, Size, VoidLen, Footprint, VoidIdLen
  <2>5. QED
    BY <2>2, <2>3, <2>4
<1>6. CASE Read
  <2>1. VintSize(stored.body) \in 1..8
    BY SizesAre DEF VoidBounded
  <2>2. VoidTypeOK'
    BY <1>0, <1>6, <2>1 DEF Read, ReadExtra, VoidTypeOK, VoidBounded
  <2>3. VoidBounded'
    BY <1>6 DEF Read, VoidBounded
  <2>4. (ConstructedExact /\ ReadKeepsFootprint)'
    BY <1>0, <1>6, <2>1
    DEF Read, ReadExtra, ConstructedExact, ReadKeepsFootprint, Size, VoidLen, Footprint, VoidIdLen
  <2>5. QED
    BY <2>2, <2>3, <2>4
<1>7. CASE UNCHANGED voidVars
  BY <1>7 DEF voidVars, VoidTypeOK, VoidBounded, ConstructedExact, ReadKeepsFootprint, Size
<1>8. QED
  BY <1>1, <1>2, <1>3, <1>4, <1>5, <1>6, <1>7 DEF VoidNext

(* The facts above hold in every state of every life of a Void element.    *)
THEOREM VoidInvariant == VoidSpec => []VoidInv
BY VoidStarts, VoidSteps, PTL DEF VoidSpec

(* A constructed Void element occupies exactly the bytes it was made for   *)
(* (the assertion that ends both constructors), whatever boundary its size *)
(* field sits on.                                                          *)
THEOREM VoidConstructedExact == VoidSpec => []ConstructedExact
<1>1. VoidInv => ConstructedExact
  BY DEF VoidInv
<1>2. QED
  BY <1>1, VoidInvariant, PTL

(* An element that another program wrote keeps its footprint when it is    *)
(* read and written again, whatever the object held before.                *)
THEOREM VoidKeepsFootprint == VoidSpec => []ReadKeepsFootprint
<1>1. VoidInv => ReadKeepsFootprint
  BY DEF VoidInv
<1>2. QED
  BY <1>1, VoidInvariant, PTL

----------------------------------------------------------------------------
(* The segment.                                                            *)

(* What is kept is neither padding nor size field, and lies in the stream. *)
KeptApart ==
    \A e \in kept : /\ e.kind \notin {"Void", "SegmentSize"}
                    /\ End(e) <= eof

(* The bytes in a range belong to elements of one kind.                    *)
OfKind(kind, from, to) ==
    \A p \in Positions : from <= p /\ p < to => stream[p].kind = kind

HeaderInPlace ==
    pc # "new" => /\ BodyStart <= eof
                  /\ OfKind("SegmentSize", seg.offset + IdLen, BodyStart)

(* If the body starts with a Void element, it is all there.                *)
PaddingInPlace ==
    LET void == stream[BodyStart] IN
    pc \in {"open", "place", "repad"} /\ BodyStart < eof /\ void.kind = "Void" =>
        /\ BodyStart + void.len <= eof
        /\ OfKind("Void", BodyStart, BodyStart + void.len)

(* What finalise() believes of the padding while it fills it.              *)
PlacingInPadding ==
    pc \in {"place", "repad"} =>
        /\ BodyStart < eof
        /\ fin.written <= fin.pad
        /\ wpos = BodyStart + fin.written
        /\ BodyStart + fin.pad <= eof
        /\ OfKind("Void", wpos, BodyStart + fin.pad)
        /\ fin.written > 0 => stream[BodyStart].kind # "Void"
        /\ fin.end = eof

AtEnd == /\ pc \in {"new", "tail"} => wpos = eof
         /\ pc = "tail" => fin.end = eof

(* A stream with one position for both: finalise() remembers a position    *)
(* it can go back to.                                                      *)
OnePosition == joint => rpos = wpos /\ fin.read <= StreamMax

IndexBounded ==
    /\ Len(index) <= MaxElements
    /\ indexBody <= SeekLenMax * Len(index)

IInv ==
    /\ TypeOK
    /\ NothingOverwritten
    /\ KeptApart
    /\ HeaderInPlace
    /\ PaddingInPlace
    /\ PlacingInPadding
    /\ AtEnd
    /\ OnePosition
    /\ IndexBounded

----------------------------------------------------------------------------
(* The type invariant, in the pieces the proofs use.                       *)
LEMMA PositionTypes ==
    ASSUME TypeOK
    PROVE  /\ StreamMax \in Nat /\ stream \in [Positions -> Extents]
           /\ eof \in Nat /\ eof <= StreamMax
           /\ wpos \in Nat /\ wpos <= StreamMax /\ rpos \in Nat
           /\ joint \in BOOLEAN
BY StreamMaxAssumption DEF TypeOK, StreamTypeOK

LEMMA ObjectTypes ==
    ASSUME TypeOK
    PROVE  /\ seg.offset \in Nat /\ seg.size \in Nat /\ seg.pad \in PadSizes
           /\ seg.writing \in BOOLEAN
           /\ info \in InfoSizes /\ indexBody \in Nat /\ Len(index) \in Nat
           /\ index \in Seq(Entries)
BY DEF TypeOK, ObjectTypeOK

LEMMA CallTypes ==
    ASSUME TypeOK
    PROVE  /\ fin.pad \in Nat /\ fin.written \in Nat
           /\ fin.end \in Nat /\ fin.read \in Nat
BY DEF TypeOK, CallTypeOK

LEMMA KeptTypes ==
    ASSUME TypeOK, NEW e \in kept
    PROVE  e \in Extents /\ e.at \in Nat /\ e.len \in Nat /\ End(e) \in Nat
<1>1. e \in Extents
  BY DEF TypeOK, StreamTypeOK
<1>2. QED
  BY <1>1 DEF Extents, End

LEMMA ConstantTypes ==
    /\ IsVint(StreamMax) /\ StreamMax \in Nat
    /\ \A n \in PadSizes : n \in Nat /\ IsVint(n)
    /\ \A n \in InfoSizes : n \in Nat /\ n > 0
    /\ \A n \in KindSizes : n \in Nat /\ n > 0
    /\ MaxElements \in Nat /\ IsVint(SeekLenMax * MaxElements)
    /\ Kinds \cap OwnKinds = {}
BY SegmentAssumption, StreamMaxAssumption

(* What Put writes, byte by byte, and of which type.                       *)
LEMMA PutAt ==
    ASSUME NEW s, NEW e, NEW p \in Positions
    PROVE  Put(s, e)[p] = IF e.at <= p /\ p < End(e) THEN e ELSE s[p]
BY DEF Put

LEMMA PutType ==
    ASSUME NEW s \in [Positions -> Extents], NEW e \in Extents
    PROVE  Put(s, e) \in [Positions -> Extents]
BY DEF Put

(* Writing over padding, size field and free space keeps what is kept.     *)
LEMMA InBoundsKeeps ==
    ASSUME TypeOK, NothingOverwritten, KeptApart, WritesInBounds,
           eof' \in Nat, eof <= eof',
           \A e \in kept' : \/ e \in kept
                           \/ /\ Whole(stream', e) /\ End(e) <= eof'
                              /\ e.kind \notin {"Void", "SegmentSize"}
    PROVE  NothingOverwritten' /\ KeptApart'
<1>1. ASSUME NEW e \in kept PROVE Whole(stream', e)
  <2> SUFFICES ASSUME NEW p \in Bytes(e) PROVE stream'[p] = e
    BY DEF Whole
  <2>1. e.at \in Nat /\ End(e) \in Nat
    BY KeptTypes
  <2>2. /\ e.kind \notin {"Void", "SegmentSize"}
        /\ End(e) <= eof
        /\ eof \in Nat /\ eof <= StreamMax /\ StreamMax \in Nat
    BY PositionTypes DEF KeptApart
  <2>3. p \in Int /\ p < eof /\ p \in Positions
    BY <2>1, <2>2 DEF Bytes, Positions
  <2>4. stream[p] = e
    BY DEF NothingOverwritten, Whole
  <2>5. ~(p >= eof)
    BY <2>2, <2>3
  <2>6. QED
    BY <2>2, <2>3, <2>4, <2>5 DEF WritesInBounds
<1>2. ASSUME NEW e \in kept
      PROVE  e.kind \notin {"Void", "SegmentSize"} /\ End(e) <= eof'
  <2>1. End(e) \in Nat /\ eof \in Nat
    BY KeptTypes, PositionTypes
  <2>2. QED
    BY <2>1 DEF KeptApart
<1>3. QED
  BY <1>1, <1>2 DEF NothingOverwritten, KeptApart

(* A single write whose bytes are all in bounds.                           *)
LEMMA PutInBounds ==
    ASSUME NEW w, stream' = Put(stream, w),
           \A p \in Positions : w.at <= p /\ p < End(w) =>
               stream[p].kind \in {"Void", "SegmentSize"} \/ p >= eof
    PROVE  WritesInBounds
BY PutAt DEF WritesInBounds

(* A new element is whole.                                                 *)
LEMMA PutWhole ==
    ASSUME NEW s, NEW e \in Extents, End(e) <= StreamMax
    PROVE  Whole(Put(s, e), e)
<1> SUFFICES ASSUME NEW p \in Bytes(e) PROVE Put(s, e)[p] = e
  BY DEF Whole
<1>1. p \in Positions /\ e.at <= p /\ p < End(e)
  BY StreamMaxAssumption DEF Bytes, End, Positions, Extents
<1>2. QED
  BY <1>1, PutAt

LEMMA PlainType ==
    ASSUME NEW k \in OwnKinds \cup Kinds, NEW at \in Nat, NEW len \in Nat
    PROVE  /\ Plain(k, at, len) \in Extents
           /\ Plain(k, at, len).kind = k /\ Plain(k, at, len).at = at
           /\ End(Plain(k, at, len)) = at + len
BY DEF Plain, Extent, Extents, End

LEMMA SizeFieldType ==
    ASSUME NEW at \in Nat, NEW n \in Nat
    PROVE  LET e == Extent("SegmentSize", at, SizeLen, n, <<>>) IN
           /\ e \in Extents /\ e.kind = "SegmentSize" /\ e.at = at
           /\ End(e) = at + SizeLen
BY DEF Extent, Extents, End, SizeLen, OwnKinds

(* A SeekHead has a size, and is an element of that size.                  *)
LEMMA HeadType ==
    ASSUME TypeOK, IndexBounded, NEW at \in Nat
    PROVE  /\ HeadLen \in Nat /\ HeadLen > 0
           /\ HeadAt(at) \in Extents
           /\ HeadAt(at).kind = "SeekHead" /\ HeadAt(at).at = at
           /\ End(HeadAt(at)) = at + HeadLen
<1>1. IsVint(indexBody)
  <2>1. indexBody \in Nat /\ indexBody <= SeekLenMax * MaxElements
    BY ObjectTypes, ConstantTypes DEF IndexBounded, SeekLenMax
  <2>2. VintLimit[Len(VintLimit)] \in Nat
    BY WidthsAre
  <2>3. QED
    BY <2>1, <2>2, ConstantTypes DEF IsVint, SeekLenMax
<1>2. VintSize(indexBody) \in Nat /\ indexBody \in Nat
  BY <1>1, VintSizeIs, WidthsAre, ObjectTypes
<1>3. HeadLen \in Nat /\ HeadLen > 0
  BY <1>2 DEF HeadLen, IdLen
<1>4. QED
  BY <1>3, ObjectTypes DEF HeadAt, Extent, Extents, End, OwnKinds

LEMMA InfoType ==
    ASSUME TypeOK, NEW at \in Nat
    PROVE  /\ info \in Nat /\ info > 0
           /\ InfoAt(at) \in Extents
           /\ InfoAt(at).kind = "Info" /\ InfoAt(at).at = at
           /\ End(InfoAt(at)) = at + info
<1>1. info \in Nat /\ info > 0
  BY ObjectTypes, ConstantTypes
<1>2. QED
  BY <1>1, PlainType DEF InfoAt, OwnKinds

(* Padding made for a target fills the target.                             *)
LEMMA VoidType ==
    ASSUME NEW at \in Nat, NEW goal \in Nat, goal >= VoidMin, IsVint(goal)
    PROVE  /\ VoidAt(at, goal) \in Extents
           /\ VoidAt(at, goal).kind = "Void" /\ VoidAt(at, goal).at = at
           /\ VoidAt(at, goal).len = goal
           /\ End(VoidAt(at, goal)) = at + goal
BY VoidExact DEF VoidAt, Plain, Extent, Extents, End, OwnKinds

(* What Emit does to the stream and its positions.                         *)
LEMMA EmitFacts ==
    ASSUME TypeOK, NEW e \in Extents, NEW next \in Nat, next <= StreamMax,
           Emit(e, next)
    PROVE  /\ stream' = Put(stream, e) /\ stream' \in [Positions -> Extents]
           /\ Whole(stream', e)
           /\ eof' \in Nat /\ eof <= eof' /\ eof' <= StreamMax
           /\ End(e) <= eof'
           /\ End(e) >= eof => eof' = End(e)
           /\ End(e) <= eof => eof' = eof
           /\ wpos' = next /\ rpos' \in Nat
           /\ joint => rpos' = next
<1>1. End(e) \in Nat
  BY DEF Extents, End
<1>2. stream' = Put(stream, e) /\ End(e) <= StreamMax
  BY DEF Emit
<1>3. stream' \in [Positions -> Extents] /\ Whole(stream', e)
  BY <1>2, PositionTypes, PutType, PutWhole
<1>4. wpos' = next /\ rpos' \in Nat /\ (joint => rpos' = next)
  BY PositionTypes DEF Emit, SeekP
<1>5. eof' = (IF End(e) > eof THEN End(e) ELSE eof)
  BY DEF Emit
<1>6. QED
  BY <1>1, <1>2, <1>3, <1>4, <1>5, PositionTypes

(* Writing past the end disturbs nothing.                                  *)
LEMMA PastEnd ==
    ASSUME TypeOK, NEW e \in Extents, e.at = eof, stream' = Put(stream, e)
    PROVE  /\ WritesInBounds
           /\ \A p \in Positions : p < eof => stream'[p] = stream[p]
<1>1. \A p \in Positions : p < eof => stream'[p] = stream[p]
  BY PutAt, PositionTypes, SMTT(30) DEF Positions
<1>2. \A p \in Positions : p < eof \/ p >= eof
  BY PositionTypes DEF Positions
<1>3. QED
  BY <1>1, <1>2 DEF WritesInBounds

LEMMA HeaderUndisturbed ==
    ASSUME TypeOK, HeaderInPlace, pc # "new", seg'.offset = seg.offset,
           eof' \in Nat, eof <= eof',
           \A p \in Positions : p < BodyStart => stream'[p].kind = stream[p].kind
    PROVE  HeaderInPlace'
<1>1. BodyStart <= eof /\ OfKind("SegmentSize", seg.offset + IdLen, BodyStart)
  BY DEF HeaderInPlace
<1>2. BodyStart' = BodyStart /\ BodyStart \in Nat
  BY ObjectTypes DEF BodyStart, HeaderLen, IdLen, SizeLen
<1>3. BodyStart' <= eof'
  BY <1>1, <1>2, PositionTypes
<1>4. OfKind("SegmentSize", seg.offset + IdLen, BodyStart)'
  BY <1>1, <1>2 DEF OfKind
<1>5. QED
  BY <1>3, <1>4 DEF HeaderInPlace
----------------------------------------------------------------------------
(* One lemma for each step: it keeps IInv, and writes in bounds.           *)

LEMMA BodyStartType ==
    ASSUME TypeOK
    PROVE  BodyStart \in Nat /\ BodyStart = seg.offset + 12
BY ObjectTypes DEF BodyStart, HeaderLen, IdLen, SizeLen

LEMMA NoFinType ==
    /\ NoFin \in [pad : Nat, written : Nat, head : BOOLEAN, info : BOOLEAN,
                 end : Nat, read : Nat]
    /\ NoFin.read = 0
BY DEF NoFin

(* Steps that leave the stream and the positions alone.                    *)
LEMMA QuietSteps ==
    ASSUME IInv, UNCHANGED <<stream, eof, kept>>
    PROVE  WritesInBounds /\ NothingOverwritten' /\ KeptApart'
BY DEF IInv, WritesInBounds, NothingOverwritten, KeptApart, Whole

LEMMA SetPadKeeps ==
    ASSUME IInv, NEW n \in PadSizes, SetPad(n)
    PROVE  IInv' /\ WritesInBounds
<1>1. TypeOK'
  BY DEF IInv, SetPad, TypeOK, StreamTypeOK, ObjectTypeOK, CallTypeOK,
         streamVars
<1>2. /\ HeaderInPlace' /\ PaddingInPlace' /\ PlacingInPadding' /\ AtEnd'
      /\ OnePosition' /\ IndexBounded'
  BY DEF IInv, SetPad, streamVars, HeaderInPlace, PaddingInPlace,
         PlacingInPadding, AtEnd, OnePosition, IndexBounded
<1>3. QED
  BY <1>1, <1>2, QuietSteps DEF IInv, SetPad, streamVars

LEMMA SetInfoKeeps ==
    ASSUME IInv, NEW n \in InfoSizes, SetInfo(n)
    PROVE  IInv' /\ WritesInBounds
<1>1. TypeOK'
  BY DEF IInv, SetInfo, TypeOK, StreamTypeOK, ObjectTypeOK, CallTypeOK,
         streamVars
<1>2. /\ HeaderInPlace' /\ PaddingInPlace' /\ PlacingInPadding' /\ AtEnd'
      /\ OnePosition' /\ IndexBounded'
  BY DEF IInv, SetInfo, streamVars, HeaderInPlace, PaddingInPlace,
         PlacingInPadding, AtEnd, OnePosition, IndexBounded, BodyStart, OfKind
<1>3. QED
  BY <1>1, <1>2, QuietSteps DEF IInv, SetInfo, streamVars

LEMMA RefusedKeeps ==
    ASSUME IInv, FinaliseRefused \/ FinaliseUnreadable
    PROVE  IInv' /\ WritesInBounds
<1>1. /\ UNCHANGED <<stream, eof, wpos, rpos, joint, seg, index, indexBody,
                     info, kept, fin>>
      /\ pc' = pc \/ (pc = "open" /\ pc' = "dead")
      /\ \E t \in {"NotWriting", "ReadError"} : threw' = threw \cup {t}
  BY DEF FinaliseRefused, FinaliseUnreadable, streamVars, objectVars
<1>2. TypeOK'
  BY <1>1 DEF IInv, TypeOK, StreamTypeOK, ObjectTypeOK, CallTypeOK
<1>3. /\ HeaderInPlace' /\ PaddingInPlace' /\ PlacingInPadding' /\ AtEnd'
      /\ OnePosition' /\ IndexBounded'
  BY <1>1 DEF IInv, HeaderInPlace, PaddingInPlace, PlacingInPadding, AtEnd,
         OnePosition, IndexBounded, BodyStart, OfKind
<1>4. QED
  BY <1>1, <1>2, <1>3, QuietSteps DEF IInv

LEMMA SeekEndKeeps ==
    ASSUME IInv, SeekEnd
    PROVE  IInv' /\ WritesInBounds
<1>1. /\ UNCHANGED <<stream, eof, joint, seg, index, indexBody, info, kept,
                     threw, fin, pc>>
      /\ pc = "open" /\ wpos' = eof /\ rpos' \in {eof, rpos}
      /\ joint => rpos' = eof
  BY DEF SeekEnd, SeekP, objectVars
<1>2. TypeOK'
  BY <1>1, PositionTypes DEF IInv, TypeOK, StreamTypeOK, ObjectTypeOK, CallTypeOK
<1>3. /\ HeaderInPlace' /\ PaddingInPlace' /\ PlacingInPadding' /\ AtEnd'
      /\ OnePosition' /\ IndexBounded'
  BY <1>1 DEF IInv, HeaderInPlace, PaddingInPlace, PlacingInPadding, AtEnd,
         OnePosition, IndexBounded, BodyStart, OfKind
<1>4. QED
  BY <1>1, <1>2, <1>3, QuietSteps DEF IInv

LEMMA PlaceDoneKeeps ==
    ASSUME IInv, PlaceDone
    PROVE  IInv' /\ WritesInBounds
<1>1. /\ UNCHANGED <<stream, eof, wpos, rpos, joint, seg, index, indexBody,
                     info, kept, threw, fin>>
      /\ pc = "place" /\ pc' = "repad"
  BY DEF PlaceDone, streamVars, objectVars
<1>2. TypeOK'
  BY <1>1 DEF IInv, TypeOK, StreamTypeOK, ObjectTypeOK, CallTypeOK
<1>3. /\ HeaderInPlace' /\ PaddingInPlace' /\ PlacingInPadding' /\ AtEnd'
      /\ OnePosition' /\ IndexBounded'
  BY <1>1 DEF IInv, HeaderInPlace, PaddingInPlace, PlacingInPadding, AtEnd,
         OnePosition, IndexBounded, BodyStart, OfKind
<1>4. QED
  BY <1>1, <1>2, <1>3, QuietSteps DEF IInv

LEMMA RepadFailsKeeps ==
    ASSUME IInv, RepadFails
    PROVE  IInv' /\ WritesInBounds
<1>1. /\ UNCHANGED <<stream, eof, wpos, rpos, joint, seg, index, indexBody,
                     info, kept>>
      /\ pc = "repad" /\ pc' = "open" /\ fin' = NoFin
      /\ threw' = threw \cup {"VoidTooSmall in finalise"}
  BY DEF RepadFails, streamVars, objectVars
<1>2. TypeOK'
  BY <1>1, NoFinType DEF IInv, TypeOK, StreamTypeOK, ObjectTypeOK, CallTypeOK
<1>3. OnePosition'
  <2>0. fin'.read = NoFin.read
    BY <1>1
  <2>1. fin'.read = 0 /\ 0 <= StreamMax
    BY <2>0, NoFinType, ConstantTypes
  <2>2. joint' = joint /\ rpos' = rpos /\ wpos' = wpos /\ StreamMax' = StreamMax
    BY <1>1
  <2>3. QED
    BY <2>1, <2>2 DEF IInv, OnePosition
<1>4. /\ HeaderInPlace' /\ PaddingInPlace' /\ PlacingInPadding' /\ AtEnd'
      /\ IndexBounded'
  BY <1>1 DEF IInv, HeaderInPlace, PaddingInPlace, PlacingInPadding, AtEnd,
         IndexBounded, BodyStart, OfKind
<1>5. QED
  BY <1>1, <1>2, <1>3, <1>4, QuietSteps DEF IInv

LEMMA FinaliseBeginKeeps ==
    ASSUME IInv, FinaliseBegin
    PROVE  IInv' /\ WritesInBounds
<1> DEFINE pad == PadFound
<1>1. /\ UNCHANGED <<stream, eof, joint, seg, index, indexBody, info, kept, threw>>
      /\ pc = "open" /\ pc' = "place" /\ wpos = eof /\ BodyStart < eof
      /\ fin' = [NoFin EXCEPT !.pad = pad, !.end = wpos, !.read = rpos]
      /\ wpos' = BodyStart
  BY DEF FinaliseBegin, objectVars
<1>2. BodyStart \in Nat /\ BodyStart \in Positions
  BY <1>1, BodyStartType, PositionTypes DEF IInv, Positions
<1>3. stream[BodyStart] \in Extents
  BY <1>2, PositionTypes DEF IInv
<1>4. /\ pad \in Nat
      /\ BodyStart + pad <= eof
      /\ OfKind("Void", BodyStart, BodyStart + pad)
  <2>1. CASE stream[BodyStart].kind = "Void"
    BY <1>1, <1>3, <2>1 DEF IInv, PaddingInPlace, PadFound, Extents
  <2>2. CASE stream[BodyStart].kind # "Void"
    <3>1. pad = 0
      BY <2>2 DEF PadFound
    <3>2. OfKind("Void", BodyStart, BodyStart + 0)
      BY <1>2 DEF OfKind, Positions
    <3>3. QED
      BY <1>1, <1>2, <3>1, <3>2, PositionTypes DEF IInv
  <2>3. QED
    BY <2>1, <2>2
<1>5. /\ rpos' \in Nat
      /\ joint => rpos' = BodyStart
  <2>1. rpos' = IF joint THEN BodyStart
               ELSE BodyStart + (IF pad > 0 THEN pad ELSE IdLen)
    BY DEF FinaliseBegin
  <2>2. QED
    BY <1>2, <1>4, <2>1 DEF IdLen
<1>6. /\ fin'.pad = pad /\ fin'.written = 0 /\ fin'.end = wpos /\ fin'.read = rpos
      /\ fin' \in [pad : Nat, written : Nat, head : BOOLEAN, info : BOOLEAN,
                   end : Nat, read : Nat]
  <2>1. wpos \in Nat /\ rpos \in Nat
    BY PositionTypes DEF IInv
  <2>2. fin' = [pad |-> pad, written |-> 0, head |-> FALSE, info |-> FALSE,
               end |-> wpos, read |-> rpos]
    BY <1>1 DEF NoFin
  <2> HIDE DEF pad
  <2>3. QED
    BY <1>4, <2>1, <2>2
<1>7. TypeOK'
  <2>1. wpos' \in 0..StreamMax
    BY <1>1, <1>2, PositionTypes DEF IInv
  <2>2. StreamTypeOK'
    BY <1>1, <1>5, <2>1 DEF IInv, TypeOK, StreamTypeOK
  <2>3. QED
    BY <1>1, <1>6, <2>2 DEF IInv, TypeOK, ObjectTypeOK, CallTypeOK
<1>8. HeaderInPlace' /\ PaddingInPlace' /\ AtEnd' /\ IndexBounded'
  BY <1>1 DEF IInv, HeaderInPlace, PaddingInPlace, AtEnd, IndexBounded,
         BodyStart, OfKind
<1>9. OnePosition'
  <2>1. joint => rpos = wpos
    BY DEF IInv, OnePosition
  <2>2. QED
    BY <1>1, <1>5, <1>6, <2>1, PositionTypes DEF IInv, OnePosition
<1>10. PlacingInPadding'
  <2>1. BodyStart' = BodyStart
    BY <1>1 DEF BodyStart
  <2>2. wpos' = BodyStart + 0
    BY <1>1, <1>2
  <2>3. OfKind("Void", wpos, BodyStart + fin.pad)'
    BY <1>1, <1>4, <1>6, <2>1 DEF OfKind
  <2>4. QED
    BY <1>1, <1>4, <1>6, <2>1, <2>2, <2>3 DEF PlacingInPadding
<1>11. QED
  BY <1>1, <1>7, <1>8, <1>9, <1>10, QuietSteps DEF IInv

(* Placing an element that is shorter than what is left of the padding.    *)
LEMMA PlaceKeeps ==
    ASSUME IInv, pc = "place", pc' = pc,
           NEW e \in Extents, NEW len \in Nat, len > 0, len < Room,
           e.kind \in {"SeekHead", "Info"}, e.at = wpos, End(e) = wpos + len,
           Emit(e, wpos + len),
           kept' = kept \cup {e},
           NEW h \in BOOLEAN, NEW i \in BOOLEAN,
           fin' = [fin EXCEPT !.head = h, !.info = i, !.written = @ + len],
           UNCHANGED <<objectVars, threw>>
    PROVE  IInv' /\ WritesInBounds
<1>1. /\ fin.pad \in Nat /\ fin.written \in Nat /\ fin.end \in Nat
      /\ fin.read \in Nat
      /\ len < fin.pad - fin.written
  BY CallTypes DEF IInv, Room
<1>2. /\ BodyStart < eof /\ fin.written <= fin.pad
      /\ wpos = BodyStart + fin.written
      /\ BodyStart + fin.pad <= eof
      /\ OfKind("Void", wpos, BodyStart + fin.pad)
      /\ fin.written > 0 => stream[BodyStart].kind # "Void"
      /\ fin.end = eof
  BY DEF IInv, PlacingInPadding
<1>3. /\ BodyStart \in Nat /\ wpos \in Nat /\ eof \in Nat
      /\ StreamMax \in Nat /\ eof <= StreamMax
  BY BodyStartType, PositionTypes DEF IInv
<1>4. wpos + len < BodyStart + fin.pad /\ wpos + len < eof
  BY <1>1, <1>2, <1>3
<1>5. /\ stream' = Put(stream, e) /\ stream' \in [Positions -> Extents]
      /\ Whole(stream', e)
      /\ eof' = eof /\ wpos' = wpos + len /\ rpos' \in Nat
      /\ joint => rpos' = wpos + len
  <2>1. wpos + len \in Nat /\ wpos + len <= StreamMax /\ End(e) <= eof
    BY <1>3, <1>4
  <2>2. QED
    BY <2>1, EmitFacts DEF IInv
<1>6. UNCHANGED <<joint, seg, index, indexBody, info, threw>>
  BY DEF objectVars
<1>7. /\ fin'.pad = fin.pad /\ fin'.written = fin.written + len
      /\ fin'.end = fin.end /\ fin'.read = fin.read
      /\ fin' \in [pad : Nat, written : Nat, head : BOOLEAN, info : BOOLEAN,
                   end : Nat, read : Nat]
  <2>1. fin \in [pad : Nat, written : Nat, head : BOOLEAN, info : BOOLEAN,
                 end : Nat, read : Nat]
    BY DEF IInv, TypeOK, CallTypeOK
  <2>2. fin.written + len \in Nat
    BY <1>1
  <2>3. QED
    BY <2>1, <2>2
<1>8. BodyStart' = BodyStart
  BY <1>6 DEF BodyStart
<1>9. \A p \in Positions :
        /\ p < wpos => stream'[p] = stream[p]
        /\ p >= wpos + len => stream'[p] = stream[p]
        /\ wpos <= p /\ p < wpos + len => stream'[p] = e
  BY <1>3, <1>5, PutAt DEF Positions
<1>10. WritesInBounds
  <2>1. \A p \in Positions : e.at <= p /\ p < End(e) => stream[p].kind = "Void"
    BY <1>1, <1>2, <1>3, <1>4 DEF OfKind, Positions
  <2>2. QED
    BY <1>5, <2>1, PutInBounds
<1>11. NothingOverwritten' /\ KeptApart'
  BY <1>3, <1>4, <1>5, <1>10, InBoundsKeeps DEF IInv
<1>12. TypeOK'
  <2>1. StreamTypeOK'
    BY <1>3, <1>4, <1>5, <1>6 DEF IInv, TypeOK, StreamTypeOK
  <2>2. QED
    BY <1>6, <1>7, <2>1 DEF IInv, TypeOK, ObjectTypeOK, CallTypeOK
<1>13. HeaderInPlace'
  <2>1. \A p \in Positions : p < BodyStart => stream'[p].kind = stream[p].kind
    BY <1>1, <1>2, <1>3, <1>9 DEF Positions
  <2>2. QED
    BY <1>3, <1>5, <1>6, <2>1, HeaderUndisturbed DEF IInv
<1>14. stream'[BodyStart].kind # "Void"
  <2>1. BodyStart \in Positions
    BY <1>2, <1>3 DEF Positions
  <2>2. CASE fin.written = 0
    BY <1>2, <1>3, <1>9, <2>1, <2>2
  <2>3. CASE fin.written > 0
    BY <1>1, <1>2, <1>3, <1>9, <2>1, <2>3
  <2>4. QED
    BY <1>1, <2>2, <2>3
<1>15. PaddingInPlace'
  BY <1>8, <1>14 DEF PaddingInPlace
<1>16. PlacingInPadding'
  <2>1. OfKind("Void", wpos, BodyStart + fin.pad)'
    BY <1>2, <1>3, <1>5, <1>7, <1>8, <1>9 DEF OfKind, Positions
  <2>2. /\ fin'.written <= fin'.pad /\ wpos' = BodyStart' + fin'.written
        /\ BodyStart' < eof' /\ BodyStart' + fin'.pad <= eof'
        /\ fin'.end = eof'
    BY <1>1, <1>2, <1>3, <1>5, <1>7, <1>8
  <2>3. QED
    BY <1>8, <1>14, <2>1, <2>2 DEF PlacingInPadding
<1>17. OnePosition'
  BY <1>5, <1>6, <1>7 DEF IInv, OnePosition
<1>18. AtEnd' /\ IndexBounded'
  BY <1>6 DEF IInv, AtEnd, IndexBounded
<1>19. QED
  BY <1>10, <1>11, <1>12, <1>13, <1>15, <1>16, <1>17, <1>18 DEF IInv

LEMMA FinType ==
    ASSUME TypeOK
    PROVE  fin \in [pad : Nat, written : Nat, head : BOOLEAN, info : BOOLEAN,
                   end : Nat, read : Nat]
BY DEF TypeOK, CallTypeOK

LEMMA PlaceHeadKeeps ==
    ASSUME IInv, PlaceHead
    PROVE  IInv' /\ WritesInBounds
<1>1. /\ HeadLen \in Nat /\ HeadLen > 0 /\ HeadAt(wpos) \in Extents
      /\ HeadAt(wpos).kind = "SeekHead" /\ HeadAt(wpos).at = wpos
      /\ End(HeadAt(wpos)) = wpos + HeadLen
  BY HeadType, PositionTypes DEF IInv
<1>2. fin' = [fin EXCEPT !.head = TRUE, !.info = fin.info,
                        !.written = @ + HeadLen]
  <2>1. fin' = [fin EXCEPT !.head = TRUE, !.written = @ + HeadLen]
    BY DEF PlaceHead
  <2>2. QED
    BY <2>1, FinType DEF IInv
<1>3. fin.info \in BOOLEAN
  BY FinType DEF IInv
<1>4. /\ pc = "place" /\ pc' = pc /\ HeadLen < Room
      /\ Emit(HeadAt(wpos), wpos + HeadLen)
      /\ kept' = kept \cup {HeadAt(wpos)}
      /\ UNCHANGED <<objectVars, threw>>
  BY DEF PlaceHead, HeadFits
<1>5. QED
  BY <1>1, <1>2, <1>3, <1>4, PlaceKeeps

LEMMA PlaceInfoKeeps ==
    ASSUME IInv, PlaceInfo
    PROVE  IInv' /\ WritesInBounds
<1>1. /\ info \in Nat /\ info > 0 /\ InfoAt(wpos) \in Extents
      /\ InfoAt(wpos).kind = "Info" /\ InfoAt(wpos).at = wpos
      /\ End(InfoAt(wpos)) = wpos + info
  BY InfoType, PositionTypes DEF IInv
<1>2. fin' = [fin EXCEPT !.head = fin.head, !.info = TRUE,
                        !.written = @ + info]
  <2>1. fin' = [fin EXCEPT !.info = TRUE, !.written = @ + info]
    BY DEF PlaceInfo
  <2>2. QED
    BY <2>1, FinType DEF IInv
<1>3. fin.head \in BOOLEAN
  BY FinType DEF IInv
<1>4. /\ pc = "place" /\ pc' = pc /\ info < Room
      /\ Emit(InfoAt(wpos), wpos + info)
      /\ kept' = kept \cup {InfoAt(wpos)}
      /\ UNCHANGED <<objectVars, threw>>
  BY DEF PlaceInfo, InfoFits
<1>5. QED
  BY <1>1, <1>2, <1>3, <1>4, PlaceKeeps

LEMMA PlaceNeitherKeeps ==
    ASSUME IInv, UNCHANGED vars
    PROVE  IInv' /\ WritesInBounds
<1>1. TypeOK'
  BY DEF IInv, vars, TypeOK, StreamTypeOK, ObjectTypeOK, CallTypeOK
<1>2. /\ HeaderInPlace' /\ PaddingInPlace' /\ PlacingInPadding' /\ AtEnd'
      /\ OnePosition' /\ IndexBounded'
  BY DEF IInv, vars, HeaderInPlace, PaddingInPlace, PlacingInPadding, AtEnd,
         OnePosition, IndexBounded, BodyStart, OfKind
<1>3. UNCHANGED <<stream, eof, kept>>
  BY DEF vars
<1>4. QED
  BY <1>1, <1>2, <1>3, QuietSteps DEF IInv

LEMMA RepadKeeps ==
    ASSUME IInv, Repad
    PROVE  IInv' /\ WritesInBounds
<1>1. /\ fin.pad \in Nat /\ fin.written \in Nat /\ fin.end \in Nat
      /\ fin.read \in Nat
      /\ Room = fin.pad - fin.written
  BY CallTypes DEF IInv, Room
<1>2. /\ pc = "repad" /\ pc' = "tail"
      /\ UNCHANGED <<joint, seg, index, indexBody, info, kept, threw, fin>>
  BY DEF Repad, objectVars
<1>3. /\ BodyStart < eof /\ fin.written <= fin.pad
      /\ wpos = BodyStart + fin.written
      /\ BodyStart + fin.pad <= eof
      /\ OfKind("Void", wpos, BodyStart + fin.pad)
      /\ fin.end = eof
  BY <1>2 DEF IInv, PlacingInPadding
<1>4. /\ BodyStart \in Nat /\ wpos \in Nat /\ eof \in Nat
      /\ StreamMax \in Nat /\ eof <= StreamMax
      /\ stream \in [Positions -> Extents] /\ rpos \in Nat
  BY BodyStartType, PositionTypes DEF IInv
<1>5. CASE Room = 0 /\ SeekP(fin.end) /\ UNCHANGED <<stream, eof>>
  <2>1. wpos' = eof /\ rpos' \in Nat /\ (joint => rpos' = eof)
    BY <1>3, <1>4, <1>5 DEF SeekP
  <2>0. stream' = stream /\ eof' = eof /\ wpos' \in 0..StreamMax
    BY <1>4, <1>5, <2>1
  <2>2. StreamTypeOK'
    BY <1>2, <2>0, <2>1 DEF IInv, TypeOK, StreamTypeOK
  <2>3. TypeOK'
    BY <1>2, <2>2 DEF IInv, TypeOK, ObjectTypeOK, CallTypeOK
  <2>4. HeaderInPlace'
    <3>1. \A p \in Positions : p < BodyStart => stream'[p].kind = stream[p].kind
      BY <2>0
    <3>2. QED
      BY <1>2, <1>4, <2>0, <3>1, HeaderUndisturbed DEF IInv
  <2>5. /\ PaddingInPlace' /\ PlacingInPadding' /\ AtEnd' /\ OnePosition'
        /\ IndexBounded'
    BY <1>2, <1>3, <2>0, <2>1 DEF IInv, PaddingInPlace, PlacingInPadding,
       AtEnd, OnePosition, IndexBounded
  <2>6. QED
    BY <1>2, <2>0, <2>3, <2>4, <2>5, QuietSteps DEF IInv
<1>6. CASE Room >= VoidMin /\ Emit(VoidAt(wpos, Room), fin.end)
  <2> DEFINE e == VoidAt(wpos, Room)
  <2>1. Room \in Nat /\ Room <= StreamMax /\ IsVint(Room)
    <3>1. Room \in Nat /\ Room <= StreamMax
      BY <1>1, <1>3, <1>4
    <3>2. VintLimit[Len(VintLimit)] \in Nat
      BY WidthsAre
    <3>3. QED
      BY <3>1, <3>2, ConstantTypes DEF IsVint
  <2>2. /\ e \in Extents /\ e.kind = "Void" /\ e.at = wpos
        /\ End(e) = wpos + Room
    BY <1>4, <1>6, <2>1, VoidType
  <2> HIDE DEF e
  <2>3. /\ wpos + Room = BodyStart + fin.pad /\ wpos + Room <= eof
    BY <1>1, <1>3, <1>4
  <2>4. /\ stream' = Put(stream, e) /\ stream' \in [Positions -> Extents]
        /\ eof' = eof /\ wpos' = eof /\ rpos' \in Nat
        /\ joint => rpos' = eof
    BY <1>3, <1>4, <1>6, <2>2, <2>3, EmitFacts DEF IInv, e
  <2>5. WritesInBounds
    <3>1. \A p \in Positions : e.at <= p /\ p < End(e) => stream[p].kind = "Void"
      BY <1>3, <2>2, <2>3 DEF OfKind
    <3>2. QED
      BY <2>4, <3>1, PutInBounds
  <2>6. NothingOverwritten' /\ KeptApart'
    BY <1>2, <1>4, <2>4, <2>5, InBoundsKeeps DEF IInv
  <2>7. TypeOK'
    <3>1. StreamTypeOK'
      BY <1>2, <1>4, <2>4 DEF IInv, TypeOK, StreamTypeOK
    <3>2. QED
      BY <1>2, <3>1 DEF IInv, TypeOK, ObjectTypeOK, CallTypeOK
  <2>8. HeaderInPlace'
    <3>1. \A p \in Positions : p < BodyStart => stream'[p].kind = stream[p].kind
      <4> SUFFICES ASSUME NEW p \in Positions, p < BodyStart
                   PROVE  stream'[p].kind = stream[p].kind
        OBVIOUS
      <4>1. ~(e.at <= p)
        BY <1>1, <1>3, <1>4, <2>2 DEF Positions
      <4>2. QED
        BY <2>4, <4>1, PutAt
    <3>2. QED
      BY <1>2, <1>4, <2>4, <3>1, HeaderUndisturbed DEF IInv
  <2>9. /\ PaddingInPlace' /\ PlacingInPadding' /\ AtEnd' /\ OnePosition'
        /\ IndexBounded'
    BY <1>2, <1>3, <2>4 DEF IInv, PaddingInPlace, PlacingInPadding, AtEnd,
       OnePosition, IndexBounded
  <2>10. QED
    BY <2>5, <2>6, <2>7, <2>8, <2>9 DEF IInv
<1>7. QED
  BY <1>5, <1>6 DEF Repad

(* An element that goes to the end of the stream.                          *)
LEMMA AtEndKeeps ==
    ASSUME IInv, pc \in {"open", "tail"}, pc' = pc, wpos = eof,
           NEW e \in Extents, NEW len \in Nat, len > 0,
           e.kind \notin {"Void", "SegmentSize"}, e.at = wpos,
           End(e) = wpos + len, End(e) <= StreamMax,
           Emit(e, wpos + len),
           kept' = kept \cup {e},
           UNCHANGED <<joint, seg, info, threw>>,
           ObjectTypeOK', CallTypeOK', IndexBounded',
           fin'.read = fin.read,
           pc = "tail" => fin'.end = wpos + len
    PROVE  IInv' /\ WritesInBounds
<1>1. /\ BodyStart \in Nat /\ wpos \in Nat /\ eof \in Nat
      /\ StreamMax \in Nat /\ eof <= StreamMax
      /\ stream \in [Positions -> Extents]
  BY BodyStartType, PositionTypes DEF IInv
<1>2. /\ stream' = Put(stream, e) /\ stream' \in [Positions -> Extents]
      /\ Whole(stream', e)
      /\ eof' = wpos + len /\ wpos' = wpos + len /\ rpos' \in Nat
      /\ eof' <= StreamMax /\ eof < eof' /\ eof' \in Nat
      /\ joint => rpos' = wpos + len
  <2>1. wpos + len \in Nat /\ wpos + len <= StreamMax /\ End(e) >= eof
    BY <1>1
  <2>2. QED
    BY <1>1, <2>1, EmitFacts DEF IInv
<1>3. /\ WritesInBounds
      /\ \A p \in Positions : p < eof => stream'[p] = stream[p]
  BY <1>2, PastEnd DEF IInv
<1>4. NothingOverwritten' /\ KeptApart'
  <2>1. End(e) <= eof'
    BY <1>1, <1>2
  <2>2. QED
    BY <1>1, <1>2, <1>3, <2>1, InBoundsKeeps DEF IInv
<1>5. TypeOK'
  <2>1. kept' \subseteq Extents
    BY DEF IInv, TypeOK, StreamTypeOK
  <2>2. StreamTypeOK'
    BY <1>1, <1>2, <2>1 DEF IInv, TypeOK, StreamTypeOK
  <2>3. QED
    BY <2>2 DEF TypeOK
<1>6. BodyStart <= eof
  BY DEF IInv, HeaderInPlace
<1>7. HeaderInPlace'
  <2>1. \A p \in Positions : p < BodyStart => stream'[p].kind = stream[p].kind
    BY <1>1, <1>3, <1>6 DEF Positions
  <2>2. QED
    BY <1>1, <1>2, <2>1, HeaderUndisturbed DEF IInv
<1>8. BodyStart' = BodyStart
  BY DEF BodyStart
<1>9. PaddingInPlace'
  <2>1. CASE BodyStart = eof
    <3>1. stream'[BodyStart] = e
      BY <1>1, <1>2, <2>1, PutAt DEF Positions
    <3>2. QED
      BY <1>8, <3>1 DEF PaddingInPlace
  <2>2. CASE BodyStart < eof
    <3>1. BodyStart \in Positions /\ stream'[BodyStart] = stream[BodyStart]
      BY <1>1, <1>3, <2>2 DEF Positions
    <3>2. stream[BodyStart].len \in Nat
      BY <1>1, <3>1 DEF Extents
    <3>3. SUFFICES ASSUME pc \in {"open", "place", "repad"},
                          stream[BodyStart].kind = "Void"
                   PROVE  /\ BodyStart + stream[BodyStart].len <= eof'
                          /\ OfKind("Void", BodyStart,
                                    BodyStart + stream[BodyStart].len)'
      BY <1>8, <3>1 DEF PaddingInPlace
    <3>4. /\ BodyStart + stream[BodyStart].len <= eof
          /\ OfKind("Void", BodyStart, BodyStart + stream[BodyStart].len)
      BY <2>2, <3>3 DEF IInv, PaddingInPlace
    <3>5. \A p \in Positions : p < BodyStart + stream[BodyStart].len =>
                               stream'[p] = stream[p]
      BY <1>1, <1>3, <3>2, <3>4 DEF Positions
    <3>6. OfKind("Void", BodyStart, BodyStart + stream[BodyStart].len)'
      BY <1>8, <3>1, <3>4, <3>5 DEF OfKind
    <3>7. QED
      BY <1>1, <1>2, <3>2, <3>4, <3>6
  <2>3. QED
    BY <1>1, <1>6, <2>1, <2>2
<1>10. PlacingInPadding' /\ AtEnd' /\ OnePosition'
  BY <1>2 DEF IInv, PlacingInPadding, AtEnd, OnePosition
<1>11. QED
  BY <1>3, <1>4, <1>5, <1>7, <1>9, <1>10 DEF IInv

LEMMA SeekLenBounded ==
    ASSUME NEW n \in Nat
    PROVE  SeekLen(n) \in Nat /\ SeekLen(n) <= SeekLenMax
BY DEF SeekLen, SeekLenMax, IdLen, UIntSize

LEMMA AppendElementKeeps ==
    ASSUME IInv, NEW kind \in Kinds, NEW len \in KindSizes,
           NEW indexed \in BOOLEAN, AppendElement(kind, len, indexed)
    PROVE  IInv' /\ WritesInBounds
<1> DEFINE e == Plain(kind, wpos, len)
           offset == ToSegmentOffset(wpos)
           entry == [kind |-> kind, offset |-> offset]
<1>1. /\ pc = "open" /\ pc' = pc /\ wpos = eof
      /\ Len(index) < MaxElements
      /\ Emit(e, End(e)) /\ kept' = kept \cup {e}
      /\ UNCHANGED <<joint, seg, info, threw, fin>>
  BY DEF AppendElement
<1>2. /\ BodyStart \in Nat /\ BodyStart <= eof /\ wpos \in Nat
  BY <1>1, BodyStartType, PositionTypes DEF IInv, HeaderInPlace
<1>3. offset \in Nat
  BY <1>1, <1>2 DEF ToSegmentOffset
<1>4. /\ e \in Extents /\ e.kind = kind /\ e.at = wpos /\ End(e) = wpos + len
      /\ len \in Nat /\ len > 0
  <2>1. len \in Nat /\ len > 0 /\ kind \in OwnKinds \cup Kinds
    BY ConstantTypes
  <2>2. QED
    BY <1>2, <2>1 DEF Plain, Extent, Extents, End
<1>5. kind \notin {"Void", "SegmentSize"}
  BY ConstantTypes DEF OwnKinds
<1>6. End(e) <= StreamMax
  BY <1>1 DEF Emit
<1>7. entry \in Entries
  BY <1>3 DEF Entries
<1> HIDE DEF e, offset
<1>8. /\ index' \in Seq(Entries) /\ indexBody' \in Nat
      /\ Len(index') <= MaxElements
      /\ indexBody' <= SeekLenMax * Len(index')
  <2>1. /\ index \in Seq(Entries) /\ indexBody \in Nat /\ Len(index) \in Nat
        /\ MaxElements \in Nat
        /\ indexBody <= 15 * Len(index)
    BY ObjectTypes, ConstantTypes DEF IInv, IndexBounded, SeekLenMax
  <2>2. CASE indexed
    <3>1. /\ index' = Append(index, entry)
          /\ indexBody' = indexBody + SeekLen(offset)
      BY <2>2 DEF AppendElement, offset
    <3>2. index' \in Seq(Entries) /\ Len(index') = Len(index) + 1
      BY <1>7, <2>1, <3>1
    <3>3. SeekLen(offset) \in Nat /\ SeekLen(offset) <= 15
      BY <1>3, SeekLenBounded DEF SeekLenMax
    <3>4. QED
      BY <1>1, <2>1, <3>1, <3>2, <3>3 DEF SeekLenMax
  <2>3. CASE ~indexed
    <3>1. index' = index /\ indexBody' = indexBody
      BY <2>3 DEF AppendElement
    <3>2. QED
      BY <1>1, <2>1, <3>1 DEF SeekLenMax
  <2>4. QED
    BY <2>2, <2>3
<1>9. ObjectTypeOK' /\ CallTypeOK' /\ IndexBounded'
  BY <1>1, <1>8 DEF IInv, TypeOK, ObjectTypeOK, CallTypeOK, IndexBounded
<1>10. QED
  BY <1>1, <1>4, <1>5, <1>6, <1>9, AtEndKeeps

LEMMA TailHeadKeeps ==
    ASSUME IInv, TailHead
    PROVE  IInv' /\ WritesInBounds
<1> DEFINE e == HeadAt(wpos)
<1>1. /\ e \in Extents /\ e.kind = "SeekHead" /\ e.at = wpos
      /\ End(e) = wpos + HeadLen /\ HeadLen \in Nat /\ HeadLen > 0
      /\ wpos \in Nat
  BY HeadType, PositionTypes DEF IInv
<1>2. /\ pc = "tail" /\ pc' = pc /\ Emit(e, wpos + HeadLen)
      /\ kept' = kept \cup {e} /\ End(e) <= StreamMax
      /\ fin' = [fin EXCEPT !.head = TRUE, !.end = wpos + HeadLen]
      /\ UNCHANGED <<joint, seg, index, indexBody, info, threw>>
  BY DEF TailHead, EndAfter, objectVars, Emit
<1>3. wpos = eof
  BY <1>2 DEF IInv, AtEnd
<1> HIDE DEF e
<1>4. /\ fin' \in [pad : Nat, written : Nat, head : BOOLEAN, info : BOOLEAN,
                   end : Nat, read : Nat]
      /\ fin'.read = fin.read /\ fin'.end = wpos + HeadLen
  <2>1. wpos + HeadLen \in Nat
    BY <1>1
  <2>2. QED
    BY <1>2, <2>1, FinType DEF IInv
<1>5. ObjectTypeOK' /\ CallTypeOK' /\ IndexBounded'
  BY <1>2, <1>4 DEF IInv, TypeOK, ObjectTypeOK, CallTypeOK, IndexBounded
<1>6. QED
  BY <1>1, <1>2, <1>3, <1>4, <1>5, AtEndKeeps

LEMMA TailInfoKeeps ==
    ASSUME IInv, TailInfo
    PROVE  IInv' /\ WritesInBounds
<1> DEFINE e == InfoAt(wpos)
<1>1. /\ e \in Extents /\ e.kind = "Info" /\ e.at = wpos
      /\ End(e) = wpos + info /\ info \in Nat /\ info > 0
      /\ wpos \in Nat
  BY InfoType, PositionTypes DEF IInv
<1>2. /\ pc = "tail" /\ pc' = pc /\ Emit(e, wpos + info)
      /\ kept' = kept \cup {e} /\ End(e) <= StreamMax
      /\ fin' = [fin EXCEPT !.info = TRUE, !.end = wpos + info]
      /\ UNCHANGED <<joint, seg, index, indexBody, info, threw>>
  BY DEF TailInfo, EndAfter, objectVars, Emit
<1>3. wpos = eof
  BY <1>2 DEF IInv, AtEnd
<1> HIDE DEF e
<1>4. /\ fin' \in [pad : Nat, written : Nat, head : BOOLEAN, info : BOOLEAN,
                   end : Nat, read : Nat]
      /\ fin'.read = fin.read /\ fin'.end = wpos + info
  <2>1. wpos + info \in Nat
    BY <1>1
  <2>2. QED
    BY <1>2, <2>1, FinType DEF IInv
<1>5. ObjectTypeOK' /\ CallTypeOK' /\ IndexBounded'
  BY <1>2, <1>4 DEF IInv, TypeOK, ObjectTypeOK, CallTypeOK, IndexBounded
<1>6. QED
  BY <1>1, <1>2, <1>3, <1>4, <1>5, AtEndKeeps

LEMMA PatchKeeps ==
    ASSUME IInv, Patch
    PROVE  IInv' /\ WritesInBounds
<1> DEFINE e == SizeField(SizeNow)
<1>1. /\ pc = "tail" /\ pc' = "closed" /\ fin' = NoFin
      /\ stream' = Put(stream, e)
      /\ seg' = [seg EXCEPT !.size = SizeNow, !.writing = FALSE]
      /\ wpos' = (IF joint THEN fin.read ELSE fin.end) /\ rpos' = fin.read
      /\ UNCHANGED <<eof, joint, index, indexBody, info, kept, threw>>
  BY DEF Patch
<1>2. /\ wpos = eof /\ fin.end = eof
      /\ BodyStart <= eof /\ BodyStart = seg.offset + 12
      /\ OfKind("SegmentSize", seg.offset + IdLen, BodyStart)
  BY <1>1, BodyStartType DEF IInv, AtEnd, HeaderInPlace
<1>3. /\ seg.offset \in Nat /\ eof \in Nat /\ eof <= StreamMax
      /\ StreamMax \in Nat /\ fin.read \in Nat /\ joint \in BOOLEAN
      /\ stream \in [Positions -> Extents]
  BY ObjectTypes, PositionTypes, CallTypes DEF IInv
<1>4. SizeNow \in Nat
  BY <1>2, <1>3 DEF SizeNow, IdLen, SizeLen
<1>5. /\ e \in Extents /\ e.kind = "SegmentSize" /\ e.at = seg.offset + 4
      /\ End(e) = seg.offset + 12
  <2>1. seg.offset + IdLen \in Nat
    BY <1>3 DEF IdLen
  <2>2. QED
    <3>1. /\ e \in Extents /\ e.kind = "SegmentSize"
          /\ e.at = seg.offset + IdLen
          /\ End(e) = (seg.offset + IdLen) + SizeLen
      BY <1>4, <2>1, SizeFieldType DEF SizeField
    <3>2. QED
      BY <1>3, <3>1 DEF IdLen, SizeLen
<1>6. /\ seg' \in [offset : Nat, size : Nat, pad : PadSizes, writing : BOOLEAN]
      /\ seg'.offset = seg.offset
  <2>1. seg \in [offset : Nat, size : Nat, pad : PadSizes, writing : BOOLEAN]
    BY DEF IInv, TypeOK, ObjectTypeOK
  <2>2. QED
    BY <1>1, <1>4, <2>1
<1> HIDE DEF e
<1>7. WritesInBounds
  <2>1. \A p \in Positions : e.at <= p /\ p < End(e) =>
            stream[p].kind = "SegmentSize"
    BY <1>2, <1>5 DEF OfKind, IdLen
  <2>2. QED
    BY <1>1, <2>1, PutInBounds
<1>8. NothingOverwritten' /\ KeptApart'
  BY <1>1, <1>3, <1>7, InBoundsKeeps DEF IInv
<1>9. TypeOK'
  <2>1. fin.read <= StreamMax \/ ~joint
    BY DEF IInv, OnePosition
  <2>2. wpos' \in 0..StreamMax /\ rpos' \in Nat
    BY <1>1, <1>2, <1>3, <2>1
  <2>3. stream' \in [Positions -> Extents]
    BY <1>1, <1>3, <1>5, PutType
  <2>4. StreamTypeOK'
    BY <1>1, <2>2, <2>3 DEF IInv, TypeOK, StreamTypeOK
  <2>5. ObjectTypeOK' /\ CallTypeOK'
    BY <1>1, <1>6, NoFinType DEF IInv, TypeOK, ObjectTypeOK, CallTypeOK
  <2>6. QED
    BY <2>4, <2>5 DEF TypeOK
<1>10. HeaderInPlace'
  <2>1. BodyStart' = BodyStart
    BY <1>6 DEF BodyStart
  <2>2. \A p \in Positions : seg.offset + IdLen <= p /\ p < BodyStart =>
                             stream'[p].kind = "SegmentSize"
    BY <1>1, <1>2, <1>5, PutAt DEF IdLen
  <2>3. QED
    BY <1>1, <1>2, <1>6, <2>1, <2>2 DEF HeaderInPlace, OfKind
<1>11. PaddingInPlace' /\ PlacingInPadding' /\ AtEnd' /\ IndexBounded'
  BY <1>1 DEF IInv, PaddingInPlace, PlacingInPadding, AtEnd, IndexBounded
<1>12. OnePosition'
  <2>1. fin'.read = NoFin.read
    BY <1>1
  <2>2. fin'.read <= StreamMax
    BY <1>3, <2>1, NoFinType
  <2>3. QED
    BY <1>1, <2>2 DEF OnePosition
<1>13. QED
  BY <1>7, <1>8, <1>9, <1>10, <1>11, <1>12 DEF IInv

(* write(): header and, unless it throws, padding, all past the end.       *)
LEMMA WriteKeeps ==
    ASSUME IInv, Write
    PROVE  IInv' /\ WritesInBounds
<1> DEFINE id == Plain("SegmentID", wpos, IdLen)
           field == Extent("SegmentSize", wpos + IdLen, SizeLen, seg.size, <<>>)
           void == Plain("Void", wpos + HeaderLen,
                         VoidLen(VoidBody(seg.pad), VoidExtra(seg.pad)))
           header == Put(Put(stream, id), field)
<1>1. /\ pc = "new" /\ pc' = "open"
      /\ seg' = [seg EXCEPT !.offset = wpos, !.writing = TRUE]
      /\ kept' = kept \cup {id}
      /\ UNCHANGED <<joint, index, indexBody, info, fin>>
  BY DEF Write
<1>2. /\ wpos = eof /\ wpos \in Nat /\ eof \in Nat /\ rpos \in Nat
      /\ StreamMax \in Nat /\ joint \in BOOLEAN
      /\ stream \in [Positions -> Extents]
      /\ seg.size \in Nat /\ seg.pad \in Nat /\ IsVint(seg.pad)
  BY <1>1, PositionTypes, ObjectTypes, ConstantTypes DEF IInv, AtEnd
<1>3. /\ id \in Extents /\ id.kind = "SegmentID" /\ id.at = wpos
      /\ End(id) = wpos + 4
  BY <1>2 DEF Plain, Extent, Extents, End, IdLen, OwnKinds
<1>4. /\ field \in Extents /\ field.kind = "SegmentSize"
      /\ field.at = wpos + 4 /\ End(field) = wpos + 12
  BY <1>2 DEF Extent, Extents, End, IdLen, SizeLen, OwnKinds
<1>5. /\ seg'.offset = wpos
      /\ seg' \in [offset : Nat, size : Nat, pad : PadSizes, writing : BOOLEAN]
  <2>1. seg \in [offset : Nat, size : Nat, pad : PadSizes, writing : BOOLEAN]
    BY DEF IInv, TypeOK, ObjectTypeOK
  <2>2. QED
    BY <1>1, <1>2, <2>1
<1>6. BodyStart' = wpos + 12
  BY <1>2, <1>5 DEF BodyStart, HeaderLen, IdLen, SizeLen
<1>7. /\ \/ /\ stream' = header /\ eof' = wpos + 12
            /\ \E t \in {"VoidTooSmall in write"} : threw' = threw \cup {t}
         \/ /\ seg.pad >= VoidMin /\ stream' = Put(header, void)
            /\ eof' = End(void) /\ threw' = threw
      /\ SeekP(eof') /\ eof' <= StreamMax
  BY <1>4 DEF Write
<1>8. seg.pad >= VoidMin =>
        /\ void \in Extents /\ void.kind = "Void" /\ void.at = wpos + 12
        /\ void.len = seg.pad /\ End(void) = (wpos + 12) + seg.pad
  <2> SUFFICES ASSUME seg.pad >= VoidMin
               PROVE  /\ void \in Extents /\ void.kind = "Void"
                      /\ void.at = wpos + 12 /\ void.len = seg.pad
                      /\ End(void) = (wpos + 12) + seg.pad
    OBVIOUS
  <2>1. wpos + HeaderLen = wpos + 12 /\ wpos + 12 \in Nat
    BY <1>2 DEF HeaderLen, IdLen, SizeLen
  <2>2. VoidLen(VoidBody(seg.pad), VoidExtra(seg.pad)) = seg.pad
    BY <1>2, VoidExact
  <2>3. void = Plain("Void", wpos + 12, seg.pad)
    BY <2>1, <2>2
  <2> HIDE DEF void
  <2>4. QED
    BY <1>2, <2>1, <2>3 DEF Plain, Extent, Extents, End, OwnKinds
<1> HIDE DEF id, field, void
<1>9. header \in [Positions -> Extents]
  BY <1>2, <1>3, <1>4, PutType
<1>10. \A p \in Positions :
         /\ p < eof => header[p] = stream[p]
         /\ wpos <= p /\ p < wpos + 4 => header[p] = id
         /\ wpos + 4 <= p /\ p < wpos + 12 => header[p] = field
  BY <1>2, <1>3, <1>4, PutAt DEF Positions
<1> HIDE DEF header
<1>11. \/ stream' = header /\ eof' = BodyStart'
       \/ /\ stream' = Put(header, void)
          /\ void \in Extents /\ void.at = BodyStart' /\ void.len = seg.pad
          /\ void.kind = "Void" /\ End(void) = BodyStart' + seg.pad
          /\ eof' = BodyStart' + seg.pad
  BY <1>6, <1>7, <1>8
<1>12. /\ eof' \in Nat /\ wpos + 12 <= eof' /\ eof' <= StreamMax
       /\ stream' \in [Positions -> Extents]
       /\ \A p \in Positions : p < wpos + 12 => stream'[p] = header[p]
  <2>0. eof' <= StreamMax
    BY <1>7
  <2>1. CASE stream' = header /\ eof' = BodyStart'
    <3>1. eof' = wpos + 12
      BY <1>6, <2>1
    <3>2. QED
      BY <1>2, <1>9, <2>0, <2>1, <3>1
  <2>2. CASE /\ stream' = Put(header, void)
             /\ void \in Extents /\ void.at = BodyStart' /\ void.len = seg.pad
             /\ void.kind = "Void" /\ End(void) = BodyStart' + seg.pad
             /\ eof' = BodyStart' + seg.pad
    <3>1. stream' \in [Positions -> Extents]
      BY <1>9, <2>2, PutType
    <3>2. ASSUME NEW p \in Positions, p < wpos + 12
          PROVE  stream'[p] = header[p]
      <4>1. ~(void.at <= p)
        BY <1>2, <1>6, <2>2, <3>2 DEF Positions
      <4>2. QED
        BY <2>2, <4>1, PutAt
    <3>3. eof' \in Nat /\ wpos + 12 <= eof' /\ eof' <= StreamMax
      <4>1. eof' = (wpos + 12) + seg.pad
        BY <1>6, <2>2
      <4>2. QED
        BY <1>2, <2>0, <4>1
    <3>4. QED
      BY <3>1, <3>2, <3>3
  <2>3. QED
    BY <1>11, <2>1, <2>2
<1>13. WritesInBounds
  <2>1. \A p \in Positions : p < eof => stream'[p] = stream[p]
    BY <1>2, <1>10, <1>12 DEF Positions
  <2>2. \A p \in Positions : p < eof \/ p >= eof
    BY <1>2 DEF Positions
  <2>3. QED
    BY <2>1, <2>2 DEF WritesInBounds
<1>14. NothingOverwritten' /\ KeptApart'
  <2>1. Whole(stream', id)
    <3> SUFFICES ASSUME NEW p \in Bytes(id) PROVE stream'[p] = id
      BY DEF Whole
    <3>1. p \in Positions /\ wpos <= p /\ p < wpos + 4
      BY <1>2, <1>3, <1>12 DEF Bytes, Positions
    <3>2. QED
      BY <1>2, <1>10, <1>12, <3>1 DEF Positions
  <2>2. End(id) <= eof' /\ id.kind \notin {"Void", "SegmentSize"}
    BY <1>2, <1>3, <1>12
  <2>3. eof <= eof'
    BY <1>2, <1>12
  <2>4. QED
    BY <1>1, <1>12, <1>13, <2>1, <2>2, <2>3, InBoundsKeeps DEF IInv
<1>15. wpos' = eof' /\ rpos' \in Nat /\ (joint => rpos' = eof')
  BY <1>2, <1>7, <1>12 DEF SeekP
<1>16. TypeOK'
  <2>1. wpos' \in 0..StreamMax /\ eof' \in 0..StreamMax
    BY <1>2, <1>12, <1>15
  <2>2. kept' \subseteq Extents
    BY <1>1, <1>3 DEF IInv, TypeOK, StreamTypeOK
  <2>3. StreamTypeOK'
    BY <1>1, <1>2, <1>12, <1>15, <2>1, <2>2 DEF StreamTypeOK
  <2>4. ObjectTypeOK'
    BY <1>1, <1>5 DEF IInv, TypeOK, ObjectTypeOK
  <2>5. CallTypeOK'
    BY <1>1, <1>7 DEF IInv, TypeOK, CallTypeOK
  <2>6. QED
    BY <2>3, <2>4, <2>5 DEF TypeOK
<1>17. HeaderInPlace'
  <2>1. \A p \in Positions : wpos + 4 <= p /\ p < wpos + 12 =>
                             stream'[p].kind = "SegmentSize"
    BY <1>4, <1>10, <1>12
  <2>2. QED
    BY <1>5, <1>6, <1>12, <2>1 DEF HeaderInPlace, OfKind, IdLen
<1>18. PaddingInPlace'
  <2>1. CASE eof' = BodyStart'
    <3>1. ~(BodyStart' < eof')
      BY <1>2, <1>6, <2>1
    <3>2. QED
      BY <3>1 DEF PaddingInPlace
  <2>2. CASE /\ stream' = Put(header, void)
             /\ void \in Extents /\ void.at = BodyStart' /\ void.len = seg.pad
             /\ void.kind = "Void" /\ End(void) = BodyStart' + seg.pad
             /\ eof' = BodyStart' + seg.pad
    <3>1. \A p \in Positions : BodyStart' <= p /\ p < BodyStart' + seg.pad =>
                               stream'[p] = void
      BY <2>2, PutAt
    <3>2. SUFFICES ASSUME BodyStart' < eof'
                   PROVE  /\ BodyStart' + stream'[BodyStart'].len <= eof'
                          /\ OfKind("Void", BodyStart,
                                    BodyStart + stream[BodyStart].len)'
      BY DEF PaddingInPlace
    <3>3. BodyStart' \in Positions
      BY <1>2, <1>6, <1>12, <3>2 DEF Positions
    <3>4. stream'[BodyStart'] = void
      BY <1>2, <1>6, <2>2, <3>1, <3>2, <3>3
    <3>5. BodyStart' + stream'[BodyStart'].len = eof'
      BY <2>2, <3>4
    <3>6. QED
      BY <1>12, <2>2, <3>1, <3>4, <3>5 DEF OfKind
  <2>3. QED
    BY <1>11, <2>1, <2>2
<1>19. PlacingInPadding' /\ AtEnd' /\ IndexBounded'
  BY <1>1 DEF IInv, PlacingInPadding, AtEnd, IndexBounded
<1>20. OnePosition'
  <2>1. joint => fin.read <= StreamMax
    BY DEF IInv, OnePosition
  <2>2. QED
    BY <1>1, <1>15, <2>1 DEF OnePosition
<1>21. QED
  BY <1>13, <1>14, <1>16, <1>17, <1>18, <1>19, <1>20 DEF IInv

----------------------------------------------------------------------------
LEMMA InitIInv == Init => IInv
<1> SUFFICES ASSUME Init PROVE IInv
  OBVIOUS
<1>1. PICK start \in Starts, n \in PadSizes :
        /\ stream = [p \in Positions |->
                      IF p < start THEN Plain("EBML", 0, start) ELSE Free]
        /\ eof = start /\ wpos = start
        /\ joint \in BOOLEAN
        /\ rpos = IF joint THEN start ELSE 0
        /\ seg = [offset |-> 0, size |-> n, pad |-> n, writing |-> FALSE]
        /\ start + HeaderLen <= StreamMax
        /\ kept = {Plain("EBML", 0, start)}
  BY DEF Init
<1>2. /\ index = <<>> /\ indexBody = 0 /\ info \in InfoSizes
      /\ threw = {} /\ fin = NoFin /\ pc = "new"
  BY DEF Init
<1>3. start \in Nat /\ n \in Nat /\ StreamMax \in Nat /\ start <= StreamMax
  <2>1. start \in Nat /\ n \in Nat /\ StreamMax \in Nat
    BY SegmentAssumption, StreamMaxAssumption
  <2>2. QED
    BY <1>1, <2>1 DEF HeaderLen, IdLen, SizeLen
<1> DEFINE e == Plain("EBML", 0, start)
<1>4. /\ e \in Extents /\ e.kind = "EBML" /\ e.at = 0 /\ End(e) = start
  BY <1>3 DEF Plain, Extent, Extents, End, OwnKinds
<1>5. Free \in Extents
  BY DEF Free, Plain, Extent, Extents, OwnKinds
<1> HIDE DEF e
<1>6. TypeOK
  <2>1. stream \in [Positions -> Extents]
    BY <1>1, <1>4, <1>5 DEF e
  <2>2. kept \subseteq Extents
    BY <1>1, <1>4 DEF e
  <2>3. StreamTypeOK
    BY <1>1, <1>3, <2>1, <2>2 DEF StreamTypeOK
  <2>4. ObjectTypeOK
    BY <1>1, <1>2, <1>3 DEF ObjectTypeOK
  <2>5. CallTypeOK
    BY <1>2, NoFinType DEF CallTypeOK
  <2>6. QED
    BY <2>3, <2>4, <2>5 DEF TypeOK
<1>7. NothingOverwritten /\ KeptApart
  <2>1. kept = {e} /\ eof = start
    BY <1>1 DEF e
  <2>2. Whole(stream, e)
    <3> SUFFICES ASSUME NEW p \in Bytes(e) PROVE stream[p] = e
      BY DEF Whole
    <3>1. p \in Positions /\ p < start
      BY <1>3, <1>4 DEF Bytes, Positions
    <3>2. QED
      BY <1>1, <3>1 DEF e
  <2>3. QED
    BY <1>3, <1>4, <2>1, <2>2 DEF NothingOverwritten, KeptApart
<1>8. HeaderInPlace /\ PaddingInPlace /\ PlacingInPadding
  BY <1>2 DEF HeaderInPlace, PaddingInPlace, PlacingInPadding
<1>9. AtEnd /\ IndexBounded
  BY <1>1, <1>2, ConstantTypes DEF AtEnd, IndexBounded, SeekLenMax
<1>10. OnePosition
  <2>1. fin.read = 0
    BY <1>2, NoFinType
  <2>2. QED
    BY <1>1, <1>3, <2>1 DEF OnePosition
<1>11. QED
  BY <1>6, <1>7, <1>8, <1>9, <1>10 DEF IInv

LEMMA NextIInv == IInv /\ [Next]_vars => IInv' /\ WritesInBounds
<1> SUFFICES ASSUME IInv, [Next]_vars PROVE IInv' /\ WritesInBounds
  OBVIOUS
<1>1. ASSUME NEW n \in PadSizes, SetPad(n) PROVE IInv' /\ WritesInBounds
  BY <1>1, SetPadKeeps
<1>2. ASSUME NEW n \in InfoSizes, SetInfo(n) PROVE IInv' /\ WritesInBounds
  BY <1>2, SetInfoKeeps
<1>3. ASSUME NEW k \in Kinds, NEW n \in KindSizes, NEW i \in BOOLEAN,
             AppendElement(k, n, i)
      PROVE  IInv' /\ WritesInBounds
  BY <1>3, AppendElementKeeps
<1>4. CASE Write
  BY <1>4, WriteKeeps
<1>5. CASE SeekEnd
  BY <1>5, SeekEndKeeps
<1>6. CASE FinaliseRefused \/ FinaliseUnreadable
  BY <1>6, RefusedKeeps
<1>7. CASE FinaliseBegin
  BY <1>7, FinaliseBeginKeeps
<1>8. CASE PlaceHead
  BY <1>8, PlaceHeadKeeps
<1>9. CASE PlaceInfo
  BY <1>9, PlaceInfoKeeps
<1>10. CASE PlaceNeither \/ UNCHANGED vars
  BY <1>10, PlaceNeitherKeeps DEF PlaceNeither
<1>11. CASE PlaceDone
  BY <1>11, PlaceDoneKeeps
<1>12. CASE Repad
  BY <1>12, RepadKeeps
<1>13. CASE RepadFails
  BY <1>13, RepadFailsKeeps
<1>14. CASE TailHead
  BY <1>14, TailHeadKeeps
<1>15. CASE TailInfo
  BY <1>15, TailInfoKeeps
<1>16. CASE Patch
  BY <1>16, PatchKeeps
<1>17. QED
  BY <1>1, <1>2, <1>3, <1>4, <1>5, <1>6, <1>7, <1>8, <1>9, <1>10, <1>11,
     <1>12, <1>13, <1>14, <1>15, <1>16 DEF Next, Caller, FinaliseStep

(* The inductive invariant, checked step by step above.                    *)
THEOREM Inductive == Spec => []IInv
<1>1. IInv /\ [Next]_vars => IInv'
  BY NextIInv
<1>2. QED
  BY <1>1, InitIInv, PTL DEF Spec

(* Every state of a segment writer, of any size, is of its type.           *)
THEOREM TypeCorrect == Spec => []TypeOK
<1>1. IInv => TypeOK
  BY DEF IInv
<1>2. QED
  BY <1>1, Inductive, PTL

(* No element the caller wrote, and neither SeekHead nor SegmentInfo once  *)
(* placed, is ever overwritten: whatever the sizes of padding, index and   *)
(* SegmentInfo, and however often finalise() threw before.                 *)
THEOREM NothingIsOverwritten == Spec => []NothingOverwritten
<1>1. IInv => NothingOverwritten
  BY DEF IInv
<1>2. QED
  BY <1>1, Inductive, PTL

(* finalise() writes over padding, the size field and what lies past the   *)
(* end of the segment only.                                                *)
THEOREM FinaliseInBounds == Spec => FinaliseStaysInBounds
<1>1. IInv /\ [Next]_vars =>
        [(pc \in {"place", "repad", "tail"}) => WritesInBounds]_vars
  BY NextIInv
<1>2. QED
  BY <1>1, Inductive, PTL DEF Spec, FinaliseStaysInBounds

----------------------------------------------------------------------------
(* What a finalised segment declares, and where finalise() leaves off.     *)

(* A segment is closed by Patch and stays as it is then.                   *)
LEMMA OnlyPatchCloses ==
    ASSUME [Next]_vars, pc' = "closed"
    PROVE  Patch \/ (pc = "closed" /\ UNCHANGED <<stream, eof, seg, pc>>)
<1>1. CASE Caller
  <2>1. CASE FinaliseRefused
    BY <2>1 DEF FinaliseRefused, streamVars, objectVars
  <2>2. CASE ~FinaliseRefused
    <3>1. pc' # "closed"
      BY <1>1, <2>2 DEF Caller, SetPad, SetInfo, Write, AppendElement, SeekEnd,
                        FinaliseUnreadable, FinaliseBegin
    <3>2. QED
      BY <3>1
  <2>3. QED
    BY <2>1, <2>2
<1>2. CASE FinaliseStep
  <2>1. CASE Patch
    BY <2>1
  <2>2. CASE ~Patch
    BY <1>2, <2>2 DEF FinaliseStep, PlaceHead, PlaceInfo, PlaceNeither, PlaceDone,
                      Repad, RepadFails, TailHead, TailInfo, vars
  <2>3. QED
    BY <2>1, <2>2
<1>3. CASE UNCHANGED vars
  BY <1>3 DEF vars
<1>4. QED
  BY <1>1, <1>2, <1>3 DEF Next

LEMMA PatchDeclares ==
    ASSUME IInv, Patch
    PROVE  DeclaredSizeTrue'
<1> DEFINE n == eof - BodyStart
           field == SizeField(n)
<1>1. /\ stream' = Put(stream, SizeField(SizeNow)) /\ eof' = eof
      /\ seg' = [seg EXCEPT !.size = SizeNow, !.writing = FALSE]
      /\ pc = "tail"
  BY DEF Patch
<1>2. /\ wpos = eof /\ BodyStart <= eof /\ BodyStart = seg.offset + 12
      /\ seg.offset \in Nat /\ eof \in Nat /\ eof <= StreamMax
      /\ StreamMax \in Nat /\ stream \in [Positions -> Extents]
  BY <1>1, BodyStartType, ObjectTypes, PositionTypes DEF IInv, AtEnd, HeaderInPlace
<1>3. SizeNow = n /\ n \in Nat
  BY <1>2 DEF SizeNow, IdLen, SizeLen
<1>4. seg'.offset = seg.offset /\ seg'.size = n
  <2>1. seg \in [offset : Nat, size : Nat, pad : PadSizes, writing : BOOLEAN]
    BY DEF IInv, TypeOK, ObjectTypeOK
  <2>2. seg' = [seg EXCEPT !.size = n, !.writing = FALSE]
    BY <1>1, <1>3
  <2> HIDE DEF n
  <2>3. QED
    BY <2>1, <2>2
<1>5. n = eof' - BodyStart'
  BY <1>1, <1>4 DEF BodyStart
<1>6. field \in Extents /\ field.at = seg.offset + 4 /\ End(field) = seg.offset + 12
  <2>1. seg.offset + IdLen \in Nat
    BY <1>2 DEF IdLen
  <2>2. /\ field \in Extents /\ field.at = seg.offset + IdLen
        /\ End(field) = (seg.offset + IdLen) + SizeLen
    BY <1>3, <2>1, SizeFieldType DEF SizeField
  <2>3. QED
    BY <1>2, <2>2 DEF IdLen, SizeLen
<1>7. field = SizeField(n)' /\ stream' = Put(stream, field)
  BY <1>1, <1>3, <1>4, <1>5 DEF SizeField
<1> HIDE DEF field, n
<1>8. Whole(stream', field)
  BY <1>2, <1>6, <1>7, PutWhole
<1>9. stream'[seg'.offset + IdLen] = field
  <2>1. seg.offset + 4 \in Bytes(field)
    BY <1>2, <1>6 DEF Bytes
  <2>2. QED
    BY <1>4, <1>8, <2>1 DEF Whole, IdLen
<1>10. SizeField(eof - BodyStart)' = field
  BY <1>4, <1>5 DEF SizeField, field
<1>11. QED
  BY <1>4, <1>5, <1>8, <1>9, <1>10 DEF DeclaredSizeTrue

LEMMA DeclaredSizeKeeps ==
    ASSUME IInv, DeclaredSizeTrue, [Next]_vars
    PROVE  DeclaredSizeTrue'
<1>1. CASE pc' # "closed"
  BY <1>1 DEF DeclaredSizeTrue
<1>2. CASE pc' = "closed" /\ Patch
  BY <1>2, PatchDeclares
<1>3. CASE pc' = "closed" /\ ~Patch
  <2>1. pc = "closed" /\ UNCHANGED <<stream, eof, seg, pc>>
    BY <1>3, OnlyPatchCloses
  <2>2. QED
    BY <2>1 DEF DeclaredSizeTrue, SizeField, BodyStart
<1>4. QED
  BY <1>1, <1>2, <1>3

(* The size that finalise() writes over the provisional one ends the       *)
(* segment where its last element ends, whatever went into the padding and *)
(* what behind the last cluster (segment.cpp:finalise()).                  *)
THEOREM SizeDeclared == Spec => []DeclaredSizeTrue
<1>1. Init => DeclaredSizeTrue
  BY DEF Init, DeclaredSizeTrue
<1>2. IInv /\ DeclaredSizeTrue /\ [Next]_vars => DeclaredSizeTrue'
  BY DeclaredSizeKeeps
<1>3. QED
  BY <1>1, <1>2, Inductive, PTL DEF Spec

(* The last step of a finalise() that does not throw puts the position to  *)
(* read at back where it was at the call and the one to write at behind    *)
(* the last byte; in a stream with one position for both, that is where it *)
(* read at the call (segment.cpp:finalise()).                              *)
THEOREM PositionsComeBack == Spec => PositionsRestored
<1>1. IInv /\ [Next]_vars =>
        [pc = "tail" /\ pc' = "closed" =>
            /\ rpos' = fin.read
            /\ wpos' = IF joint THEN fin.read ELSE eof]_vars
  <2> SUFFICES ASSUME IInv, [Next]_vars, pc = "tail", pc' = "closed"
               PROVE  rpos' = fin.read /\ wpos' = IF joint THEN fin.read ELSE eof
    OBVIOUS
  <2>1. Patch
    BY OnlyPatchCloses
  <2>2. fin.end = eof
    BY DEF IInv, AtEnd
  <2>3. QED
    BY <2>1, <2>2 DEF Patch
<1>2. QED
  BY <1>1, Inductive, PTL DEF Spec, PositionsRestored

----------------------------------------------------------------------------
(* The index.                                                              *)

(* Every entry names an element that is kept and where it begins.          *)
Resolved(entries, elements, start) ==
    \A i \in DOMAIN entries : \E e \in elements :
        e.kind = entries[i].kind /\ e.at = entries[i].offset + start /\ e.at < End(e)

IndexInv ==
    /\ pc = "new" => index = <<>> /\ \A h \in kept : h.kind # "SeekHead"
    /\ Resolved(index, kept, BodyStart)
    /\ \A h \in kept : h.kind = "SeekHead" => Resolved(h.entries, kept, BodyStart)

LEMMA ResolvedStays ==
    ASSUME NEW entries, NEW old, NEW new, NEW start, old \subseteq new,
           Resolved(entries, old, start)
    PROVE  Resolved(entries, new, start)
BY DEF Resolved

(* An element that is kept, and is no SeekHead or one of the index so far. *)
LEMMA KeepingKeeps ==
    ASSUME IndexInv, NEW e, kept' = kept \cup {e}, UNCHANGED <<index, seg>>,
           e.kind = "SeekHead" => e.entries = index, pc # "new", pc' # "new"
    PROVE  IndexInv'
<1>1. BodyStart' = BodyStart
  BY DEF BodyStart
<1>2. Resolved(index', kept', BodyStart')
  BY <1>1, ResolvedStays DEF IndexInv
<1>3. ASSUME NEW h \in kept', h.kind = "SeekHead"
      PROVE  Resolved(h.entries, kept', BodyStart')
  <2>1. CASE h \in kept
    BY <1>1, <1>3, <2>1, ResolvedStays DEF IndexInv
  <2>2. CASE h = e
    BY <1>2, <1>3, <2>2
  <2>3. QED
    BY <2>1, <2>2
<1>4. QED
  BY <1>2, <1>3 DEF IndexInv

LEMMA AppendIndexed ==
    ASSUME IInv, IndexInv, NEW kind \in Kinds, NEW len \in KindSizes,
           NEW indexed \in BOOLEAN, AppendElement(kind, len, indexed)
    PROVE  IndexInv'
<1> DEFINE e == Plain(kind, wpos, len)
           entry == [kind |-> kind, offset |-> ToSegmentOffset(wpos)]
<1>1. /\ pc = "open" /\ pc' = pc /\ kept' = kept \cup {e} /\ UNCHANGED seg
      /\ IF indexed THEN index' = Append(index, entry) ELSE index' = index
  BY DEF AppendElement
<1>2. /\ BodyStart \in Nat /\ wpos \in Nat /\ len \in Nat /\ len > 0
      /\ index \in Seq(Entries)
  BY BodyStartType, PositionTypes, ObjectTypes, ConstantTypes DEF IInv
<1>3. /\ e.kind = kind /\ e.at = wpos /\ e.at < End(e) /\ kind # "SeekHead"
  BY <1>2, ConstantTypes DEF Plain, Extent, End, OwnKinds
<1>4. entry.kind = kind /\ entry.offset + BodyStart = wpos
  BY <1>2 DEF ToSegmentOffset
<1>5. BodyStart' = BodyStart
  BY <1>1 DEF BodyStart
<1>6. Resolved(index, kept', BodyStart)
  BY <1>1, ResolvedStays DEF IndexInv
<1> HIDE DEF e, entry
<1>7. Resolved(index', kept', BodyStart')
  <2>1. CASE indexed
    <3>1. ASSUME NEW i \in DOMAIN index'
          PROVE  \E x \in kept' : /\ x.kind = index'[i].kind /\ x.at < End(x)
                                  /\ x.at = index'[i].offset + BodyStart
      <4>1. /\ index' = Append(index, entry) /\ Len(index) \in Nat
            /\ DOMAIN index' = 1..(Len(index) + 1)
            /\ \A j \in 1..Len(index) : index'[j] = index[j]
            /\ index'[Len(index) + 1] = entry
        BY <1>1, <1>2, <2>1
      <4>2. CASE i \in 1..Len(index)
        <5>1. i \in DOMAIN index /\ index'[i] = index[i]
          BY <1>2, <4>1, <4>2
        <5>2. QED
          BY <1>6, <5>1 DEF Resolved
      <4>3. CASE i = Len(index) + 1
        BY <1>1, <1>3, <1>4, <4>1, <4>3
      <4>4. QED
        BY <3>1, <4>1, <4>2, <4>3
    <3>2. QED
      BY <1>5, <3>1 DEF Resolved
  <2>2. CASE ~indexed
    BY <1>1, <1>5, <1>6, <2>2
  <2>3. QED
    BY <2>1, <2>2
<1>8. ASSUME NEW h \in kept', h.kind = "SeekHead"
      PROVE  Resolved(h.entries, kept', BodyStart')
  <2>1. h \in kept
    BY <1>1, <1>3, <1>8
  <2>2. QED
    BY <1>1, <1>5, <1>8, <2>1, ResolvedStays DEF IndexInv
<1>9. QED
  BY <1>1, <1>7, <1>8 DEF IndexInv

LEMMA IndexKeeps ==
    ASSUME IInv, IndexInv, [Next]_vars
    PROVE  IndexInv'
<1>1. ASSUME NEW k \in Kinds, NEW n \in KindSizes, NEW i \in BOOLEAN,
             AppendElement(k, n, i)
      PROVE  IndexInv'
  BY <1>1, AppendIndexed
<1>2. CASE Write
  <2>1. /\ pc = "new" /\ pc' = "open" /\ index' = index
        /\ kept' = kept \cup {Plain("SegmentID", wpos, IdLen)}
    BY <1>2 DEF Write
  <2>2. index = <<>> /\ \A h \in kept : h.kind # "SeekHead"
    BY <2>1 DEF IndexInv
  <2>3. Plain("SegmentID", wpos, IdLen).kind = "SegmentID"
    BY DEF Plain, Extent
  <2>4. DOMAIN index' = {}
    BY <2>1, <2>2
  <2>5. \A h \in kept' : h.kind # "SeekHead"
    BY <2>1, <2>2, <2>3
  <2>6. QED
    BY <2>1, <2>4, <2>5 DEF IndexInv, Resolved
<1>3. CASE PlaceHead \/ TailHead
  <2>1. /\ kept' = kept \cup {HeadAt(wpos)} /\ pc # "new" /\ pc' # "new"
        /\ UNCHANGED <<index, seg>>
    BY <1>3 DEF PlaceHead, TailHead, objectVars
  <2>2. HeadAt(wpos).entries = index
    BY DEF HeadAt, Extent
  <2>3. QED
    BY <2>1, <2>2, KeepingKeeps
<1>4. CASE PlaceInfo \/ TailInfo
  <2>1. /\ kept' = kept \cup {InfoAt(wpos)} /\ pc # "new" /\ pc' # "new"
        /\ UNCHANGED <<index, seg>>
    BY <1>4 DEF PlaceInfo, TailInfo, objectVars
  <2>2. InfoAt(wpos).kind # "SeekHead"
    BY DEF InfoAt, Plain, Extent
  <2>3. QED
    BY <2>1, <2>2, KeepingKeeps
<1>5. ASSUME UNCHANGED <<index, kept>>, seg'.offset = seg.offset,
             pc' = "new" => pc = "new"
      PROVE  IndexInv'
  BY <1>5 DEF IndexInv, BodyStart
<1>6. CASE (\E n \in PadSizes : SetPad(n)) \/ Patch
  <2>1. UNCHANGED <<index, kept>> /\ (pc' = "new" => pc = "new")
    BY <1>6 DEF SetPad, Patch
  <2>2. seg'.offset = seg.offset
    BY <1>6 DEF IInv, TypeOK, ObjectTypeOK, SetPad, Patch
  <2>3. QED
    BY <1>5, <2>1, <2>2
<1>7. CASE \/ \E n \in InfoSizes : SetInfo(n)
           \/ SeekEnd \/ FinaliseRefused \/ FinaliseUnreadable \/ FinaliseBegin
           \/ PlaceNeither \/ PlaceDone \/ Repad \/ RepadFails \/ UNCHANGED vars
  <2>1. UNCHANGED <<index, kept, seg>> /\ (pc' = "new" => pc = "new")
    BY <1>7 DEF SetInfo, SeekEnd, FinaliseRefused, FinaliseUnreadable, FinaliseBegin,
                PlaceNeither, PlaceDone, Repad, RepadFails, vars, objectVars, streamVars
  <2>2. QED
    BY <1>5, <2>1
<1>8. QED
  BY <1>1, <1>2, <1>3, <1>4, <1>6, <1>7 DEF Next, Caller, FinaliseStep

(* Every entry of every SeekHead in the stream leads to the first byte of  *)
(* a whole element of the kind it names, for any number of elements and    *)
(* entries, and wherever finalise() put the SeekHead (segment.cpp,         *)
(* to_segment_offset() and to_stream_offset()).                            *)
THEOREM IndexLeads == Spec => []IndexResolves
<1>1. Init => IndexInv
  <2> SUFFICES ASSUME Init PROVE IndexInv
    OBVIOUS
  <2>1. PICK start \in Starts : kept = {Plain("EBML", 0, start)}
    BY DEF Init
  <2>2. index = <<>> /\ pc = "new"
    BY DEF Init
  <2>3. Plain("EBML", 0, start).kind = "EBML"
    BY DEF Plain, Extent
  <2>4. DOMAIN index = {}
    BY <2>2
  <2>5. QED
    BY <2>1, <2>2, <2>3, <2>4 DEF IndexInv, Resolved
<1>2. IInv /\ IndexInv /\ [Next]_vars => IndexInv'
  BY IndexKeeps
<1>3. IInv /\ IndexInv => IndexResolves
  <2> SUFFICES ASSUME IInv, IndexInv, NEW h \in kept, h.kind = "SeekHead",
                      NEW i \in DOMAIN h.entries
               PROVE  LET p == ToStreamOffset(h.entries[i].offset)
                          e == stream[p]
                      IN  e.kind = h.entries[i].kind /\ e.at = p /\ Whole(stream, e)
    BY DEF IndexResolves
  <2>1. PICK e \in kept : /\ e.kind = h.entries[i].kind /\ e.at < End(e)
                          /\ e.at = h.entries[i].offset + BodyStart
    BY DEF IndexInv, Resolved
  <2>2. Whole(stream, e) /\ e.at \in Nat /\ End(e) \in Nat
    BY KeptTypes DEF IInv, NothingOverwritten
  <2>3. stream[e.at] = e
    BY <2>1, <2>2 DEF Whole, Bytes
  <2>4. QED
    BY <2>1, <2>2, <2>3 DEF ToStreamOffset
<1>4. QED
  BY <1>1, <1>2, <1>3, Inductive, PTL DEF Spec

----------------------------------------------------------------------------
(* Walking the body.                                                       *)

(* An element that a byte belongs to contains that byte.                   *)
Owner(s) ==
    \A p \in Positions : s[p].kind # "Free" => s[p].at <= p /\ p < End(s[p])

LEMMA OwnerPut ==
    ASSUME NEW s, NEW e, Owner(s)
    PROVE  Owner(Put(s, e))
BY PutAt DEF Owner

LEMMA ExtentTypes ==
    ASSUME NEW e \in Extents
    PROVE  e.at \in Nat /\ e.len \in Nat /\ End(e) \in Nat /\ End(e) = e.at + e.len
BY DEF Extents, End

(* What is tiled stays tiled while nothing is written into it.             *)
LEMMA TiledStays ==
    ASSUME NEW s \in [Positions -> Extents], NEW t, NEW from \in Nat, NEW to \in Nat,
           to <= StreamMax, Tiled(s, from, to),
           \A p \in Positions : from <= p /\ p < to => t[p] = s[p]
    PROVE  Tiled(t, from, to)
<1> SUFFICES ASSUME NEW p \in Positions, from <= p, p < to
             PROVE  /\ t[p].kind # "Free" /\ from <= t[p].at /\ End(t[p]) <= to
                    /\ Whole(t, t[p])
  BY DEF Tiled
<1> DEFINE e == s[p]
<1>1. e \in Extents /\ t[p] = e
  OBVIOUS
<1>2. e.kind # "Free" /\ from <= e.at /\ End(e) <= to /\ Whole(s, e)
  BY DEF Tiled
<1> HIDE DEF e
<1>3. ASSUME NEW q \in Bytes(e) PROVE t[q] = e
  <2>1. s[q] = e
    BY <1>2 DEF Whole
  <2>2. q \in Nat /\ from <= q /\ q < to
    BY <1>1, <1>2, ExtentTypes DEF Bytes
  <2>3. q \in Positions
    BY <2>2, StreamMaxAssumption DEF Positions
  <2>4. QED
    BY <2>1, <2>2, <2>3
<1>4. QED
  BY <1>1, <1>2, <1>3 DEF Whole

LEMMA TiledJoin ==
    ASSUME NEW s \in [Positions -> Extents], NEW from \in Nat, NEW mid \in Nat,
           NEW to \in Nat, from <= mid, mid <= to, Tiled(s, from, mid), Tiled(s, mid, to)
    PROVE  Tiled(s, from, to)
<1> SUFFICES ASSUME NEW p \in Positions, from <= p, p < to
             PROVE  /\ s[p].kind # "Free" /\ from <= s[p].at /\ End(s[p]) <= to
                    /\ Whole(s, s[p])
  BY DEF Tiled
<1> DEFINE e == s[p]
<1>1. p \in Nat /\ e \in Extents
  BY DEF Positions
<1>2. CASE p < mid
  <2>1. e.kind # "Free" /\ from <= e.at /\ End(e) <= mid /\ Whole(s, e)
    BY <1>2 DEF Tiled
  <2> HIDE DEF e
  <2>2. End(e) <= to
    BY <1>1, <2>1, ExtentTypes
  <2>3. QED
    BY <2>1, <2>2 DEF e
<1>3. CASE mid <= p
  <2>1. e.kind # "Free" /\ mid <= e.at /\ End(e) <= to /\ Whole(s, e)
    BY <1>3 DEF Tiled
  <2> HIDE DEF e
  <2>2. from <= e.at
    BY <1>1, <2>1, ExtentTypes
  <2>3. QED
    BY <2>1, <2>2 DEF e
<1>4. QED
  BY <1>1, <1>2, <1>3

LEMMA TiledEmpty ==
    ASSUME NEW s, NEW at \in Nat
    PROVE  Tiled(s, at, at)
BY DEF Tiled, Positions

LEMMA TiledOne ==
    ASSUME NEW s, NEW e \in Extents, e.kind # "Free", Whole(s, e)
    PROVE  Tiled(s, e.at, End(e))
<1> SUFFICES ASSUME NEW p \in Positions, e.at <= p, p < End(e)
             PROVE  s[p] = e
  BY ExtentTypes DEF Tiled
<1>1. p \in Bytes(e)
  BY ExtentTypes DEF Bytes, Positions
<1>2. QED
  BY <1>1 DEF Whole

(* Taking the first element off.                                           *)
LEMMA TiledRest ==
    ASSUME NEW s \in [Positions -> Extents], NEW from \in Positions, NEW to \in Nat,
           from < to, to <= StreamMax, Owner(s), Tiled(s, from, to)
    PROVE  /\ s[from].at = from /\ End(s[from]) <= to
           /\ Tiled(s, End(s[from]), to)
<1> DEFINE first == s[from]
<1>1. /\ first \in Extents /\ first.kind # "Free" /\ from <= first.at
      /\ End(first) <= to /\ Whole(s, first) /\ from \in Nat
  BY DEF Tiled, Positions
<1>2. first.at <= from /\ from < End(first)
  BY <1>1 DEF Owner
<1> HIDE DEF first
<1>3. first.at = from
  BY <1>1, <1>2, ExtentTypes
<1>4. ASSUME NEW p \in Positions, End(first) <= p, p < to
      PROVE  /\ s[p].kind # "Free" /\ End(first) <= s[p].at /\ End(s[p]) <= to
             /\ Whole(s, s[p])
  <2> DEFINE e == s[p]
  <2>1. e \in Extents /\ p \in Nat
    BY DEF Positions
  <2>2. from <= p
    BY <1>1, <1>2, <1>4, <2>1, ExtentTypes
  <2>3. e.kind # "Free" /\ from <= e.at /\ End(e) <= to /\ Whole(s, e)
    BY <1>4, <2>2 DEF Tiled
  <2>4. e.at <= p /\ p < End(e)
    BY <2>3 DEF Owner
  <2> HIDE DEF e
  <2>5. End(first) <= e.at
    <3> SUFFICES ASSUME e.at < End(first) PROVE FALSE
      BY <1>1, <2>1, ExtentTypes
    <3>1. e.at \in Bytes(first) /\ e.at \in Bytes(e)
      BY <1>1, <1>3, <2>1, <2>3, <2>4, ExtentTypes DEF Bytes
    <3>2. e = first
      BY <1>1, <2>3, <3>1 DEF Whole
    <3>3. QED
      BY <1>1, <1>4, <2>1, <2>4, <3>2, ExtentTypes
  <2>6. QED
    BY <2>3, <2>5 DEF e
<1>5. QED
  BY <1>1, <1>3, <1>4 DEF Tiled, first

(* As long as no finalise() has failed half way the body is tiled, except  *)
(* for the padding while finalise() fills it.                              *)
BodyInv ==
    /\ Owner(stream)
    /\ "VoidTooSmall in finalise" \notin threw =>
        /\ pc \in {"open", "tail", "closed"} => Tiled(stream, BodyStart, eof)
        /\ pc \in {"place", "repad"} => /\ Tiled(stream, BodyStart, wpos)
                                        /\ Tiled(stream, BodyStart + fin.pad, eof)

LEMMA WriteTiles ==
    ASSUME IInv, BodyInv, IInv', Write
    PROVE  BodyInv'
<1> DEFINE id == Plain("SegmentID", wpos, IdLen)
           field == Extent("SegmentSize", wpos + IdLen, SizeLen, seg.size, <<>>)
           void == Plain("Void", wpos + HeaderLen,
                         VoidLen(VoidBody(seg.pad), VoidExtra(seg.pad)))
           header == Put(Put(stream, id), field)
<1>1. Owner(header)
  BY OwnerPut DEF BodyInv
<1>2. /\ pc' = "open"
      /\ \/ stream' = header /\ eof' = End(field)
         \/ /\ seg.pad >= VoidMin /\ stream' = Put(header, void) /\ eof' = End(void)
            /\ End(void) <= StreamMax
  BY DEF Write
<1>3. wpos \in Nat /\ seg.pad \in Nat /\ IsVint(seg.pad)
  BY PositionTypes, ObjectTypes, ConstantTypes DEF IInv
<1>4. BodyStart' = wpos + 12 /\ wpos + 12 \in Nat /\ wpos + HeaderLen = wpos + 12
  <2>1. seg'.offset = wpos
    BY DEF Write, IInv, TypeOK, ObjectTypeOK
  <2>2. QED
    BY <1>3, <2>1 DEF BodyStart, HeaderLen, IdLen, SizeLen
<1>5. End(field) = wpos + 12
  BY <1>3 DEF Extent, End, IdLen, SizeLen
<1>6. seg.pad >= VoidMin =>
        /\ void \in Extents /\ void.at = wpos + 12 /\ void.kind # "Free"
  <2> SUFFICES ASSUME seg.pad >= VoidMin
               PROVE  void \in Extents /\ void.at = wpos + 12 /\ void.kind # "Free"
    OBVIOUS
  <2>1. VoidLen(VoidBody(seg.pad), VoidExtra(seg.pad)) = seg.pad
    BY <1>3, VoidExact
  <2>2. void = Plain("Void", wpos + 12, seg.pad)
    BY <1>4, <2>1
  <2> HIDE DEF void
  <2>3. QED
    BY <1>3, <1>4, <2>2 DEF Plain, Extent, Extents, OwnKinds
<1> HIDE DEF header, field, void
<1>7. CASE stream' = header /\ eof' = End(field)
  <2>1. Tiled(stream', BodyStart', eof')
    BY <1>4, <1>5, <1>7, TiledEmpty
  <2>2. QED
    BY <1>1, <1>2, <1>7, <2>1 DEF BodyInv
<1>8. CASE /\ seg.pad >= VoidMin /\ stream' = Put(header, void) /\ eof' = End(void)
           /\ End(void) <= StreamMax
  <2>1. Whole(stream', void)
    BY <1>6, <1>8, PutWhole
  <2>2. Tiled(stream', BodyStart', eof')
    BY <1>4, <1>6, <1>8, <2>1, TiledOne
  <2>3. Owner(stream')
    BY <1>1, <1>8, OwnerPut
  <2>4. QED
    BY <1>2, <2>2, <2>3 DEF BodyInv
<1>9. QED
  BY <1>2, <1>7, <1>8

(* An element goes to the end of the stream.                               *)
LEMMA AtEndTiles ==
    ASSUME IInv, BodyInv, pc \in {"open", "tail"}, pc' = pc, wpos = eof,
           NEW e \in Extents, NEW len \in Nat, e.kind # "Free", e.at = wpos,
           End(e) = wpos + len, Emit(e, wpos + len),
           UNCHANGED <<seg, threw>>
    PROVE  BodyInv'
<1>1. /\ BodyStart \in Nat /\ eof \in Nat /\ BodyStart <= eof /\ eof <= StreamMax
      /\ stream \in [Positions -> Extents] /\ StreamMax \in Nat
  BY BodyStartType, PositionTypes DEF IInv, HeaderInPlace
<1>2. /\ stream' = Put(stream, e) /\ stream' \in [Positions -> Extents]
      /\ Whole(stream', e) /\ eof' = End(e) /\ eof <= eof' /\ eof' \in Nat
      /\ eof' <= StreamMax
  <2>1. wpos + len \in Nat /\ wpos + len <= StreamMax /\ End(e) >= eof
    BY <1>1 DEF Emit
  <2>2. QED
    BY <2>1, EmitFacts DEF IInv
<1>3. Owner(stream')
  BY <1>2, OwnerPut DEF BodyInv
<1>4. BodyStart' = BodyStart
  BY DEF BodyStart
<1>5. ASSUME "VoidTooSmall in finalise" \notin threw
      PROVE  Tiled(stream', BodyStart, eof')
  <2>1. Tiled(stream, BodyStart, eof)
    BY <1>5 DEF BodyInv
  <2>2. \A p \in Positions : p < eof => stream'[p] = stream[p]
    BY <1>2, PastEnd DEF IInv
  <2>3. Tiled(stream', BodyStart, eof)
    BY <1>1, <2>1, <2>2, TiledStays
  <2>4. Tiled(stream', eof, eof')
    BY <1>2, TiledOne
  <2>5. QED
    BY <1>1, <1>2, <2>3, <2>4, TiledJoin
<1>6. QED
  BY <1>3, <1>4, <1>5 DEF BodyInv

(* An element goes into the padding.                                       *)
LEMMA PlaceTiles ==
    ASSUME IInv, BodyInv, pc = "place", pc' = pc,
           NEW e \in Extents, NEW len \in Nat, len < Room, e.kind # "Free",
           e.at = wpos, End(e) = wpos + len, Emit(e, wpos + len),
           UNCHANGED <<seg, threw>>, fin'.pad = fin.pad
    PROVE  BodyInv'
<1>1. /\ BodyStart \in Nat /\ eof \in Nat /\ eof <= StreamMax /\ wpos \in Nat
      /\ stream \in [Positions -> Extents] /\ StreamMax \in Nat
      /\ fin.pad \in Nat /\ fin.written \in Nat /\ len < fin.pad - fin.written
  BY BodyStartType, PositionTypes, CallTypes DEF IInv, Room
<1>2. wpos = BodyStart + fin.written /\ BodyStart + fin.pad <= eof
  BY DEF IInv, PlacingInPadding
<1>3. /\ wpos + len \in Nat /\ wpos + len <= BodyStart + fin.pad
      /\ wpos + len <= StreamMax /\ BodyStart <= wpos /\ End(e) <= eof
      /\ BodyStart + fin.pad \in Nat /\ wpos <= StreamMax
  BY <1>1, <1>2
<1>4. /\ stream' = Put(stream, e) /\ stream' \in [Positions -> Extents]
      /\ Whole(stream', e) /\ eof' = eof /\ wpos' = wpos + len
  BY <1>3, EmitFacts DEF IInv
<1>5. Owner(stream')
  BY <1>4, OwnerPut DEF BodyInv
<1>6. BodyStart' = BodyStart
  BY DEF BodyStart
<1>7. ASSUME "VoidTooSmall in finalise" \notin threw
      PROVE  Tiled(stream', BodyStart, wpos + len) /\ Tiled(stream', BodyStart + fin.pad, eof)
  <2>1. Tiled(stream, BodyStart, wpos) /\ Tiled(stream, BodyStart + fin.pad, eof)
    BY <1>7 DEF BodyInv
  <2>2. \A p \in Positions : p < wpos \/ p >= wpos + len => stream'[p] = stream[p]
    BY <1>1, <1>4, PutAt DEF Positions
  <2>3. Tiled(stream', BodyStart, wpos)
    BY <1>1, <1>3, <2>1, <2>2, TiledStays
  <2>4. Tiled(stream', wpos, wpos + len)
    BY <1>4, TiledOne
  <2>5. Tiled(stream', BodyStart, wpos + len)
    <3>1. wpos <= wpos + len
      BY <1>1
    <3>2. QED
      BY <1>1, <1>3, <1>4, <2>3, <2>4, <3>1, TiledJoin
  <2>6. \A p \in Positions : BodyStart + fin.pad <= p /\ p < eof => stream'[p] = stream[p]
    BY <1>1, <1>3, <2>2 DEF Positions
  <2>7. Tiled(stream', BodyStart + fin.pad, eof)
    BY <1>1, <1>3, <2>1, <2>6, TiledStays
  <2>8. QED
    BY <2>5, <2>7
<1>8. QED
  BY <1>4, <1>5, <1>6, <1>7 DEF BodyInv

(* finalise() takes the first element of the body for padding if it is one. *)
LEMMA FinaliseBeginTiles ==
    ASSUME IInv, BodyInv, FinaliseBegin
    PROVE  BodyInv'
<1>1. /\ pc = "open" /\ pc' = "place" /\ BodyStart < eof /\ wpos' = BodyStart
      /\ fin' = [NoFin EXCEPT !.pad = PadFound, !.end = wpos, !.read = rpos]
      /\ UNCHANGED <<stream, eof, seg, threw>>
  BY DEF FinaliseBegin, objectVars
<1>2. /\ BodyStart \in Nat /\ eof \in Nat /\ eof <= StreamMax
      /\ stream \in [Positions -> Extents] /\ StreamMax \in Nat
  BY BodyStartType, PositionTypes DEF IInv
<1>3. BodyStart \in Positions
  BY <1>1, <1>2 DEF Positions
<1>4. fin'.pad = PadFound /\ BodyStart' = BodyStart
  BY <1>1 DEF NoFin, BodyStart
<1>5. Tiled(stream, BodyStart, BodyStart)
  BY <1>2, TiledEmpty
<1>6. ASSUME "VoidTooSmall in finalise" \notin threw
      PROVE  Tiled(stream, BodyStart + PadFound, eof)
  <2>1. Tiled(stream, BodyStart, eof)
    BY <1>1, <1>6 DEF BodyInv
  <2>2. CASE stream[BodyStart].kind = "Void"
    <3>1. /\ stream[BodyStart].at = BodyStart
          /\ Tiled(stream, End(stream[BodyStart]), eof)
      BY <1>1, <1>2, <1>3, <2>1, TiledRest DEF BodyInv
    <3>2. PadFound = stream[BodyStart].len
      BY <2>2 DEF PadFound
    <3>3. QED
      BY <3>1, <3>2 DEF End
  <2>3. CASE stream[BodyStart].kind # "Void"
    <3>1. PadFound = 0
      BY <2>3 DEF PadFound
    <3>2. BodyStart + PadFound = BodyStart
      BY <1>2, <3>1
    <3>3. QED
      BY <2>1, <3>2
  <2>4. QED
    BY <2>2, <2>3
<1>7. QED
  BY <1>1, <1>4, <1>5, <1>6 DEF BodyInv

LEMMA RepadTiles ==
    ASSUME IInv, BodyInv, Repad
    PROVE  BodyInv'
<1> DEFINE b == BodyStart
           behind == BodyStart + fin.pad
<1>1. /\ b \in Nat /\ eof \in Nat /\ eof <= StreamMax /\ wpos \in Nat
      /\ stream \in [Positions -> Extents] /\ StreamMax \in Nat
      /\ fin.pad \in Nat /\ fin.written \in Nat /\ Room = fin.pad - fin.written
  BY BodyStartType, PositionTypes, CallTypes DEF IInv, Room
<1>2. /\ pc = "repad" /\ pc' = "tail" /\ UNCHANGED <<seg, threw>>
      /\ \/ Room = 0 /\ UNCHANGED <<stream, eof>>
         \/ Room >= VoidMin /\ Emit(VoidAt(wpos, Room), fin.end)
  BY DEF Repad, objectVars
<1>3. /\ wpos = b + fin.written /\ behind <= eof /\ fin.end = eof
      /\ fin.written <= fin.pad
  BY <1>2 DEF IInv, PlacingInPadding
<1>4. /\ behind \in Nat /\ b <= wpos /\ wpos <= behind /\ wpos + Room = behind
      /\ behind <= StreamMax /\ Room \in Nat /\ wpos <= StreamMax /\ Room <= StreamMax
      /\ b <= behind
  BY <1>1, <1>3
<1>5. BodyStart' = b
  BY <1>2 DEF BodyStart
<1>6. "VoidTooSmall in finalise" \notin threw =>
        Tiled(stream, b, wpos) /\ Tiled(stream, behind, eof)
  BY <1>2 DEF BodyInv
<1> HIDE DEF b, behind
<1>7. CASE Room = 0 /\ UNCHANGED <<stream, eof>>
  <2>1. wpos = behind
    BY <1>1, <1>4, <1>7
  <2>2. "VoidTooSmall in finalise" \notin threw => Tiled(stream, b, eof)
    BY <1>1, <1>3, <1>4, <1>6, <2>1, TiledJoin
  <2>3. QED
    BY <1>2, <1>5, <1>7, <2>2 DEF BodyInv
<1>8. CASE Room >= VoidMin /\ Emit(VoidAt(wpos, Room), fin.end)
  <2> DEFINE e == VoidAt(wpos, Room)
  <2>1. IsVint(Room)
    <3>1. VintLimit[Len(VintLimit)] \in Nat
      BY WidthsAre
    <3>2. QED
      BY <1>4, <3>1, ConstantTypes DEF IsVint
  <2>2. /\ e \in Extents /\ e.kind = "Void" /\ e.at = wpos /\ End(e) = behind
    BY <1>1, <1>4, <1>8, <2>1, VoidType
  <2> HIDE DEF e
  <2>3. /\ stream' = Put(stream, e) /\ stream' \in [Positions -> Extents]
        /\ Whole(stream', e) /\ eof' = eof
    BY <1>1, <1>3, <1>8, <2>2, EmitFacts DEF IInv, e
  <2>4. \A p \in Positions : p < wpos \/ p >= behind => stream'[p] = stream[p]
    BY <1>1, <1>4, <2>2, <2>3, PutAt, SMTT(30) DEF Positions
  <2>5. ASSUME "VoidTooSmall in finalise" \notin threw
        PROVE  Tiled(stream', b, eof)
    <3>1. Tiled(stream', b, wpos)
      BY <1>1, <1>4, <1>6, <2>4, <2>5, TiledStays
    <3>2. Tiled(stream', wpos, behind)
      BY <2>2, <2>3, TiledOne
    <3>3. Tiled(stream', behind, eof)
      <4>1. \A p \in Positions : behind <= p /\ p < eof => stream'[p] = stream[p]
        BY <1>4, <2>4 DEF Positions
      <4>2. QED
        BY <1>1, <1>4, <1>6, <2>5, <4>1, TiledStays
    <3>4. Tiled(stream', b, behind)
      BY <1>1, <1>4, <2>3, <3>1, <3>2, TiledJoin
    <3>5. QED
      BY <1>1, <1>3, <1>4, <2>3, <3>3, <3>4, TiledJoin
  <2>6. Owner(stream')
    BY <2>3, OwnerPut DEF BodyInv
  <2>7. QED
    BY <1>2, <1>5, <2>3, <2>5, <2>6 DEF BodyInv
<1>9. QED
  BY <1>2, <1>7, <1>8

LEMMA PatchTiles ==
    ASSUME IInv, BodyInv, Patch
    PROVE  BodyInv'
<1> DEFINE e == SizeField(SizeNow)
<1>1. /\ pc = "tail" /\ stream' = Put(stream, e)
      /\ seg' = [seg EXCEPT !.size = SizeNow, !.writing = FALSE]
      /\ pc' = "closed" /\ UNCHANGED <<eof, threw>>
  BY DEF Patch
<1>2. /\ BodyStart \in Nat /\ BodyStart = seg.offset + 12 /\ eof \in Nat
      /\ eof <= StreamMax /\ stream \in [Positions -> Extents] /\ seg.offset \in Nat
  BY BodyStartType, PositionTypes, ObjectTypes DEF IInv
<1>3. BodyStart' = BodyStart
  <2>1. seg'.offset = seg.offset
    BY <1>1 DEF IInv, TypeOK, ObjectTypeOK
  <2>2. QED
    BY <2>1 DEF BodyStart
<1>4. End(e) = BodyStart
  <2>1. End(e) = (seg.offset + IdLen) + SizeLen
    BY DEF SizeField, Extent, End
  <2>2. QED
    BY <1>2, <2>1 DEF IdLen, SizeLen
<1> HIDE DEF e
<1>5. \A p \in Positions : BodyStart <= p => stream'[p] = stream[p]
  <2> SUFFICES ASSUME NEW p \in Positions, BodyStart <= p
               PROVE  stream'[p] = stream[p]
    OBVIOUS
  <2>1. ~(p < End(e))
    BY <1>2, <1>4 DEF Positions
  <2>2. QED
    BY <1>1, <2>1, PutAt
<1>6. "VoidTooSmall in finalise" \notin threw => Tiled(stream', BodyStart, eof)
  BY <1>1, <1>2, <1>5, TiledStays DEF BodyInv
<1>7. Owner(stream')
  BY <1>1, OwnerPut DEF BodyInv
<1>8. QED
  BY <1>1, <1>3, <1>6, <1>7 DEF BodyInv

LEMMA BodyKeeps ==
    ASSUME IInv, BodyInv, IInv', [Next]_vars
    PROVE  BodyInv'
<1>1. ASSUME NEW k \in Kinds, NEW n \in KindSizes, NEW i \in BOOLEAN,
             AppendElement(k, n, i)
      PROVE  BodyInv'
  <2> DEFINE e == Plain(k, wpos, n)
  <2>1. /\ pc = "open" /\ pc' = pc /\ wpos = eof /\ Emit(e, End(e))
        /\ UNCHANGED <<seg, threw>>
    BY <1>1 DEF AppendElement
  <2>2. n \in Nat /\ wpos \in Nat /\ k \in OwnKinds \cup Kinds /\ k # "Free"
    BY PositionTypes, ConstantTypes DEF IInv, OwnKinds
  <2>3. e \in Extents /\ e.kind = k /\ e.at = wpos /\ End(e) = wpos + n
    BY <2>2 DEF Plain, Extent, Extents, End
  <2> HIDE DEF e
  <2>4. QED
    BY <2>1, <2>2, <2>3, AtEndTiles
<1>2. CASE PlaceHead \/ TailHead
  <2> DEFINE e == HeadAt(wpos)
  <2>1. /\ HeadLen \in Nat /\ e \in Extents /\ e.kind # "Free" /\ e.at = wpos
        /\ End(e) = wpos + HeadLen
    BY HeadType, PositionTypes DEF IInv
  <2>2. Emit(e, wpos + HeadLen) /\ pc' = pc /\ UNCHANGED <<seg, threw>>
    BY <1>2 DEF PlaceHead, TailHead, objectVars
  <2>3. fin'.pad = fin.pad
    BY <1>2, FinType DEF PlaceHead, TailHead, IInv
  <2>4. \/ pc = "place" /\ HeadLen < Room
        \/ pc = "tail" /\ wpos = eof
    BY <1>2 DEF PlaceHead, TailHead, HeadFits, IInv, AtEnd
  <2> HIDE DEF e
  <2>5. QED
    BY <2>1, <2>2, <2>3, <2>4, PlaceTiles, AtEndTiles
<1>3. CASE PlaceInfo \/ TailInfo
  <2> DEFINE e == InfoAt(wpos)
  <2>1. /\ info \in Nat /\ e \in Extents /\ e.kind # "Free" /\ e.at = wpos
        /\ End(e) = wpos + info
    BY InfoType, PositionTypes DEF IInv
  <2>2. Emit(e, wpos + info) /\ pc' = pc /\ UNCHANGED <<seg, threw>>
    BY <1>3 DEF PlaceInfo, TailInfo, objectVars
  <2>3. fin'.pad = fin.pad
    BY <1>3, FinType DEF PlaceInfo, TailInfo, IInv
  <2>4. \/ pc = "place" /\ info < Room
        \/ pc = "tail" /\ wpos = eof
    BY <1>3 DEF PlaceInfo, TailInfo, InfoFits, IInv, AtEnd
  <2> HIDE DEF e
  <2>5. QED
    BY <2>1, <2>2, <2>3, <2>4, PlaceTiles, AtEndTiles
<1>4. CASE Write
  BY <1>4, WriteTiles
<1>5. CASE FinaliseBegin
  BY <1>5, FinaliseBeginTiles
<1>6. CASE Repad
  BY <1>6, RepadTiles
<1>7. CASE Patch
  BY <1>7, PatchTiles
<1>8. CASE RepadFails
  <2>1. stream' = stream /\ "VoidTooSmall in finalise" \in threw'
    BY <1>8 DEF RepadFails, streamVars
  <2>2. QED
    BY <2>1 DEF BodyInv
<1>9. CASE \E n \in PadSizes : SetPad(n)
  <2>1. stream' = stream /\ pc' = "new"
    BY <1>9 DEF SetPad, streamVars
  <2>2. QED
    BY <2>1 DEF BodyInv
<1>10. CASE \/ \E n \in InfoSizes : SetInfo(n)
            \/ SeekEnd \/ FinaliseRefused \/ FinaliseUnreadable
            \/ PlaceNeither \/ PlaceDone \/ UNCHANGED vars
  <2>1. /\ UNCHANGED <<stream, eof, seg, fin>> /\ threw \subseteq threw'
        /\ \/ pc' = pc /\ (wpos' = wpos \/ pc = "open")
           \/ pc' = "dead"
           \/ pc = "place" /\ pc' = "repad" /\ wpos' = wpos
    BY <1>10 DEF SetInfo, SeekEnd, SeekP, FinaliseRefused, FinaliseUnreadable,
                 PlaceNeither, PlaceDone, vars, objectVars, streamVars
  <2>2. BodyStart' = BodyStart
    BY <2>1 DEF BodyStart
  <2>3. QED
    BY <2>1, <2>2 DEF BodyInv
<1>11. QED
  BY <1>1, <1>2, <1>3, <1>4, <1>5, <1>6, <1>7, <1>8, <1>9, <1>10
     DEF Next, Caller, FinaliseStep

(* Between calls, and once finalise() has done with the padding, the body  *)
(* of a segment is a gapless run of whole elements from its first byte to  *)
(* the end of the stream, whatever sizes padding, SegmentInfo and elements *)
(* have, so long as no finalise() has failed for want of room for its      *)
(* padding (segment.cpp:finalise()).                                       *)
THEOREM BodyCanBeWalked == Spec => []BodyWalkable
<1>1. Init => BodyInv
  <2> SUFFICES ASSUME Init PROVE BodyInv
    OBVIOUS
  <2>1. PICK start \in Starts :
          stream = [p \in Positions |->
                      IF p < start THEN Plain("EBML", 0, start) ELSE Free]
    BY DEF Init
  <2>2. pc = "new" /\ start \in Nat
    BY SegmentAssumption DEF Init
  <2>3. /\ Plain("EBML", 0, start).at = 0 /\ End(Plain("EBML", 0, start)) = start
        /\ Free.kind = "Free"
    BY <2>2 DEF Plain, Extent, End, Free
  <2>4. Owner(stream)
    BY <2>1, <2>2, <2>3 DEF Owner, Positions
  <2>5. QED
    BY <2>2, <2>4 DEF BodyInv
<1>2. IInv /\ BodyInv /\ IInv' /\ [Next]_vars => BodyInv'
  BY BodyKeeps
<1>3. BodyInv => BodyWalkable
  BY DEF BodyInv, BodyWalkable
<1>4. QED
  BY <1>1, <1>2, <1>3, Inductive, PTL DEF Spec
=============================================================================
