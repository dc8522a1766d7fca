------------------------ MODULE ClusterWriterProofs ------------------------
(***************************************************************************)
(* For streams, clusters, blocks and metadata of any number and size: what *)
(* a writer of clusters leaves in the stream stays there, its sizes lead   *)
(* from cluster to cluster, and a reader that walks the bytes recovers the *)
(* log of clusters the interface promises.  The argument: everything       *)
(* before the open cluster, or before the end of the stream if none is     *)
(* open, stays as it is, and every closed cluster lies there as it was     *)
(* laid out.                                                               *)
(***************************************************************************)
EXTENDS ClusterWriter, SequenceTheorems, WellFoundedInduction, TLAPS

(* The least-number principle, for a set: how the lemmas about sequences   *)
(* of blocks argue by induction.                                           *)
LEMMA LeastOf ==
    ASSUME NEW T, T \subseteq Nat, T # {}
    PROVE  \E m \in T : \A n \in T : m <= n
<1>1. IsWellFoundedOn(OpToRel(<, Nat), Nat)
  BY NatLessThanWellFounded
<1>2. PICK m \in T : \A n \in T : ~(<<n, m>> \in OpToRel(<, Nat))
  BY <1>1, WFMin
<1>3. \A n \in T : ~(n < m)
  BY <1>2 DEF OpToRel
<1>4. QED
  BY <1>3

LEMMA ConstantTypes ==
    /\ StreamMax \in Nat /\ Start \in 0..StreamMax
    /\ \A b \in Blocks : BlockLen[b] \in Nat /\ BlockLen[b] > 0
    /\ \A m \in MetaSizes : m \in Nat /\ m > 0
    /\ Blocks \cap OwnKinds = {}
    /\ MetaPhases \subseteq Phases /\ PushPhases \subseteq Phases
    /\ Flavours \subseteq {"memory", "file"}
    /\ IdLen = 4 /\ SizeLen = 8 /\ HeaderLen = 12
BY ClusterAssumption, StreamMaxAssumption DEF IdLen, SizeLen, HeaderLen

----------------------------------------------------------------------------
(* Sequences of blocks.                                                    *)

(* The recursive definition of the sums has the one solution it should.    *)
LEMMA SumsStep ==
    ASSUME NEW bs \in Seq(Blocks)
    PROVE  /\ Sums(bs) \in [0..Len(bs) -> Nat]
           /\ Sums(bs)[0] = 0
           /\ \A i \in 1..Len(bs) :
                 /\ Sums(bs)[i] = Sums(bs)[i - 1] + BlockLen[bs[i]]
                 /\ BlockLen[bs[i]] \in Nat /\ BlockLen[bs[i]] > 0
<1> DEFINE Adds(f, n) == /\ f[0] = 0
                         /\ \A i \in 1..n : f[i] = f[i - 1] + BlockLen[bs[i]]
           Without == {n \in 0..Len(bs) : ~ \E f \in [0..n -> Nat] : Adds(f, n)}
<1>0. \A i \in 1..Len(bs) : BlockLen[bs[i]] \in Nat /\ BlockLen[bs[i]] > 0
  BY ConstantTypes
<1>1. Without = {}
  <2> SUFFICES ASSUME Without # {} PROVE FALSE
    OBVIOUS
  <2>1. PICK m \in Without : \A n \in Without : m <= n
    <3>1. Without \subseteq Nat
      OBVIOUS
    <3>2. QED
      BY <3>1, LeastOf
  <2>2. m # 0
    <3>1. Adds([i \in 0..0 |-> 0], 0) /\ [i \in 0..0 |-> 0] \in [0..0 -> Nat]
      OBVIOUS
    <3>2. QED
      BY <3>1
  <2>3. m - 1 \in 0..Len(bs) /\ m - 1 \notin Without
    <3>1. m \in 0..Len(bs) /\ Len(bs) \in Nat
      OBVIOUS
    <3> HIDE DEF Without
    <3>2. QED
      BY <2>1, <2>2, <3>1
  <2>4. PICK f \in [0..(m - 1) -> Nat] : Adds(f, m - 1)
    BY <2>3
  <2> DEFINE g == [i \in 0..m |-> IF i = m THEN f[m - 1] + BlockLen[bs[m]] ELSE f[i]]
  <2>5. g \in [0..m -> Nat] /\ Adds(g, m)
    <3>1. m \in 1..Len(bs) /\ f[m - 1] \in Nat /\ BlockLen[bs[m]] \in Nat
      BY <1>0, <2>1, <2>2, <2>3, <2>4
    <3>2. g \in [0..m -> Nat]
      BY <2>4, <3>1
    <3>3. \A i \in 0..(m - 1) : g[i] = f[i]
      BY <3>1
    <3>4. g[m] = g[m - 1] + BlockLen[bs[m]]
      BY <3>1, <3>3
    <3>5. g[0] = 0
      BY <2>4, <3>1, <3>3
    <3> HIDE DEF g
    <3>6. \A i \in 1..m : i # m => g[i] = g[i - 1] + BlockLen[bs[i]]
      <4> SUFFICES ASSUME NEW i \in 1..m, i # m PROVE g[i] = g[i - 1] + BlockLen[bs[i]]
        OBVIOUS
      <4>1. i \in 1..(m - 1) /\ i \in 0..(m - 1) /\ i - 1 \in 0..(m - 1)
        BY <3>1
      <4>2. g[i] = f[i] /\ g[i - 1] = f[i - 1]
        BY <3>3, <4>1
      <4>3. f[i] = f[i - 1] + BlockLen[bs[i]]
        BY <2>4, <4>1
      <4>4. QED
        BY <4>2, <4>3
    <3>7. QED
      BY <3>2, <3>4, <3>5, <3>6
  <2>6. QED
    BY <2>1, <2>5
<1>2. PICK f \in [0..Len(bs) -> Nat] : Adds(f, Len(bs))
  <2>1. Len(bs) \in 0..Len(bs)
    OBVIOUS
  <2>2. QED
    BY <1>1, <2>1
<1>3. f = [i \in 0..Len(bs) |-> IF i = 0 THEN 0 ELSE f[i - 1] + BlockLen[bs[i]]]
  BY <1>2
<1> DEFINE S == Sums(bs)
<1>4. S = [i \in 0..Len(bs) |-> IF i = 0 THEN 0 ELSE S[i - 1] + BlockLen[bs[i]]]
  BY <1>3 DEF Sums
<1> HIDE DEF S
<1>5. \A i \in 0..Len(bs) : S[i] \in Nat
  <2> DEFINE Not == {n \in 0..Len(bs) : S[n] \notin Nat}
  <2> SUFFICES ASSUME Not # {} PROVE FALSE
    OBVIOUS
  <2>1. PICK m \in Not : \A n \in Not : m <= n
    <3>1. Not \subseteq Nat
      OBVIOUS
    <3>2. QED
      BY <3>1, LeastOf
  <2>2. m # 0
    BY <1>4
  <2>3. m \in 1..Len(bs) /\ m - 1 \in 0..Len(bs) /\ S[m - 1] \in Nat
    BY <2>1, <2>2
  <2>4. S[m] = S[m - 1] + BlockLen[bs[m]]
    BY <2>3, <1>4, SMTT(30)
  <2>5. QED
    BY <2>3, <2>4, <1>0
<1>6. S \in [0..Len(bs) -> Nat] /\ Adds(S, Len(bs))
  <2>1. DOMAIN S = 0..Len(bs) /\ S = [i \in DOMAIN S |-> S[i]]
    BY <1>4
  <2>2. S \in [0..Len(bs) -> Nat]
    BY <2>1, <1>5
  <2>3. \A i \in 1..Len(bs) : i \in 0..Len(bs) /\ i # 0
    OBVIOUS
  <2>4. 0 \in 0..Len(bs)
    OBVIOUS
  <2>5. QED
    BY <2>2, <2>3, <2>4, <1>4
<1>7. QED
  BY <1>0, <1>6 DEF S

LEMMA LenOfType ==
    ASSUME NEW bs \in Seq(Blocks)
    PROVE  LenOf(bs) \in Nat /\ Len(bs) \in Nat /\ (bs = <<>> => LenOf(bs) = 0)
BY SumsStep DEF LenOf

(* A block ends before any later one begins, and none reaches further than *)
(* all together.                                                           *)
LEMMA SumsGrow ==
    ASSUME NEW bs \in Seq(Blocks), NEW i \in 0..Len(bs), NEW j \in 0..Len(bs), i <= j
    PROVE  Sums(bs)[i] <= Sums(bs)[j]
<1> DEFINE Low == {n \in i..Len(bs) : Sums(bs)[n] < Sums(bs)[i]}
<1>1. Low = {}
  <2> SUFFICES ASSUME Low # {} PROVE FALSE
    OBVIOUS
  <2>1. PICK m \in Low : \A n \in Low : m <= n
    <3>1. Low \subseteq Nat
      OBVIOUS
    <3>2. QED
      BY <3>1, LeastOf
  <2>2. m # i /\ m - 1 \in i..Len(bs) /\ m \in 1..Len(bs)
    BY <2>1, SumsStep
  <2>3. ~(Sums(bs)[m - 1] < Sums(bs)[i])
    BY <2>1, <2>2
  <2>4. /\ Sums(bs)[m] = Sums(bs)[m - 1] + BlockLen[bs[m]]
        /\ BlockLen[bs[m]] \in Nat
    BY <2>2, SumsStep
  <2>5. Sums(bs)[m - 1] \in Nat /\ Sums(bs)[i] \in Nat
    BY <2>2, SumsStep
  <2>6. QED
    BY <2>1, <2>3, <2>4, <2>5
<1>2. Sums(bs)[i] \in Nat /\ Sums(bs)[j] \in Nat
  BY SumsStep
<1>3. QED
  BY <1>1, <1>2

(* The bytes of a sequence of blocks are all in one of them.               *)
LEMMA InSomeBlock ==
    ASSUME NEW bs \in Seq(Blocks), NEW n \in Nat, n < LenOf(bs)
    PROVE  \E i \in 1..Len(bs) : Sums(bs)[i - 1] <= n /\ n < Sums(bs)[i]
<1> DEFINE Above == {k \in 0..Len(bs) : n < Sums(bs)[k]}
<1>1. Len(bs) \in Above
  BY LenOfType DEF LenOf
<1>2. PICK m \in Above : \A k \in Above : m <= k
  <2>1. Above \subseteq Nat /\ Above # {}
    BY <1>1
  <2>2. QED
    BY <2>1, LeastOf
<1>3. m # 0
  BY <1>2, SumsStep
<1>4. m \in 1..Len(bs) /\ m - 1 \in 0..Len(bs) /\ m - 1 \notin Above
  BY <1>2, <1>3
<1>5. Sums(bs)[m - 1] \in Nat
  BY <1>4, SumsStep
<1>6. QED
  BY <1>2, <1>4, <1>5

(* One block more.                                                         *)
LEMMA SumsAppend ==
    ASSUME NEW bs \in Seq(Blocks), NEW b \in Blocks
    PROVE  /\ Append(bs, b) \in Seq(Blocks) /\ Len(Append(bs, b)) = Len(bs) + 1
           /\ \A i \in 0..Len(bs) : Sums(Append(bs, b))[i] = Sums(bs)[i]
           /\ LenOf(Append(bs, b)) = LenOf(bs) + BlockLen[b]
<1> DEFINE cs == Append(bs, b)
<1>1. /\ cs \in Seq(Blocks) /\ Len(cs) = Len(bs) + 1 /\ Len(bs) \in Nat
      /\ \A i \in 1..Len(bs) : cs[i] = bs[i]
      /\ cs[Len(bs) + 1] = b
  OBVIOUS
<1> HIDE DEF cs
<1> DEFINE Off == {n \in 0..Len(bs) : Sums(cs)[n] # Sums(bs)[n]}
<1>2. Off = {}
  <2> SUFFICES ASSUME Off # {} PROVE FALSE
    OBVIOUS
  <2>1. PICK m \in Off : \A n \in Off : m <= n
    <3>1. Off \subseteq Nat
      OBVIOUS
    <3>2. QED
      BY <3>1, LeastOf
  <2>2. m # 0
    BY <1>1, <2>1, SumsStep
  <2>3. Sums(cs)[m - 1] = Sums(bs)[m - 1]
    BY <2>1, <2>2
  <2>4. m \in 1..Len(bs) /\ m \in 1..Len(cs)
    BY <2>1, <2>2, <1>1
  <2>5. /\ Sums(cs)[m] = Sums(cs)[m - 1] + BlockLen[cs[m]]
        /\ Sums(bs)[m] = Sums(bs)[m - 1] + BlockLen[bs[m]]
    BY <2>4, <1>1, SumsStep
  <2>6. QED
    BY <2>1, <2>3, <2>4, <2>5, <1>1
<1>3. \A i \in 0..Len(bs) : Sums(cs)[i] = Sums(bs)[i]
  BY <1>2
<1>4. LenOf(cs) = LenOf(bs) + BlockLen[b]
  <2>1. Sums(cs)[Len(bs) + 1] = Sums(cs)[(Len(bs) + 1) - 1] + BlockLen[cs[Len(bs) + 1]]
    BY <1>1, SumsStep
  <2>2. Sums(cs)[(Len(bs) + 1) - 1] = Sums(bs)[Len(bs)]
    BY <1>1, <1>3
  <2>3. QED
    BY <2>1, <2>2, <1>1 DEF LenOf
<1>5. QED
  BY <1>1, <1>3, <1>4 DEF cs

----------------------------------------------------------------------------
(* The stream.                                                             *)

Extents ==
    [kind : OwnKinds \cup Blocks, at : Nat, len : Nat, size : Nat, entries : {<<>>}]

LEMMA PlainType ==
    ASSUME NEW k \in OwnKinds \cup Blocks, NEW at \in Nat, NEW len \in Nat
    PROVE  /\ Plain(k, at, len) \in Extents
           /\ Plain(k, at, len).kind = k /\ Plain(k, at, len).at = at
           /\ Plain(k, at, len).len = len
           /\ End(Plain(k, at, len)) = at + len
BY DEF Plain, Extent, Extents, End

LEMMA SizeFieldType ==
    ASSUME NEW at \in Nat, NEW n \in Nat
    PROVE  /\ SizeField(at, n) \in Extents
           /\ SizeField(at, n).kind = "ClusterSize" /\ SizeField(at, n).size = n
           /\ SizeField(at, n).at = at + 4
           /\ End(SizeField(at, n)) = at + 12
BY DEF SizeField, Extent, Extents, End, SizeLen, IdLen, OwnKinds

LEMMA ExtentType ==
    ASSUME NEW e \in Extents
    PROVE  e.at \in Nat /\ e.len \in Nat /\ End(e) \in Nat /\ End(e) = e.at + e.len
BY DEF Extents, End

LEMMA PutAt ==
    ASSUME NEW s, NEW e
    PROVE  /\ DOMAIN Put(s, e) = Positions
           /\ \A p \in Positions :
                  Put(s, e)[p] = IF e.at <= p /\ p < End(e) THEN e ELSE s[p]
BY DEF Put

LEMMA PutType ==
    ASSUME NEW s \in [Positions -> Extents], NEW e \in Extents
    PROVE  Put(s, e) \in [Positions -> Extents]
BY DEF Put

LEMMA PutWhole ==
    ASSUME NEW s, NEW e \in Extents, End(e) <= StreamMax
    PROVE  Whole(Put(s, e), e)
<1> SUFFICES ASSUME NEW p \in Bytes(e) PROVE Put(s, e)[p] = e
  BY DEF Whole
<1>1. p \in Positions /\ e.at <= p /\ p < End(e)
  BY ExtentType, ConstantTypes DEF Bytes, Positions
<1>2. QED
  BY <1>1, PutAt

(* An element stays whole when nothing changes where it lies.              *)
LEMMA WholeStays ==
    ASSUME NEW s, NEW t, NEW e \in Extents, Whole(s, e),
           \A p \in Nat : e.at <= p /\ p < End(e) => t[p] = s[p]
    PROVE  Whole(t, e)
BY ExtentType DEF Whole, Bytes

(* Blocks in their places.                                                 *)
LaidOut(s, from, bs) == \A i \in 1..Len(bs) : Whole(s, BlockAt(bs, from, i))

LEMMA BlockAtType ==
    ASSUME NEW bs \in Seq(Blocks), NEW from \in Nat, NEW i \in 1..Len(bs)
    PROVE  /\ BlockAt(bs, from, i) \in Extents
           /\ BlockAt(bs, from, i).kind = bs[i]
           /\ BlockAt(bs, from, i).at = from + Sums(bs)[i - 1]
           /\ End(BlockAt(bs, from, i)) = from + Sums(bs)[i]
           /\ BlockAt(bs, from, i).at < End(BlockAt(bs, from, i))
           /\ from <= BlockAt(bs, from, i).at
           /\ End(BlockAt(bs, from, i)) <= from + LenOf(bs)
<1>1. i - 1 \in 0..Len(bs) /\ i \in 0..Len(bs) /\ Len(bs) \in 0..Len(bs)
  BY LenOfType
<1>2. Sums(bs)[i - 1] \in Nat /\ Sums(bs)[i] \in Nat /\ LenOf(bs) \in Nat
  BY <1>1, SumsStep, LenOfType
<1>3. Sums(bs)[i] <= LenOf(bs)
  BY <1>1, SumsGrow DEF LenOf
<1>4. /\ Sums(bs)[i] = Sums(bs)[i - 1] + BlockLen[bs[i]]
      /\ BlockLen[bs[i]] \in Nat /\ BlockLen[bs[i]] > 0
  BY SumsStep
<1>5. bs[i] \in Blocks
  OBVIOUS
<1> DEFINE at == from + Sums(bs)[i - 1]
<1>6. at \in Nat /\ from <= at /\ BlockAt(bs, from, i) = Plain(bs[i], at, BlockLen[bs[i]])
  BY <1>2 DEF BlockAt
<1> HIDE DEF at
<1>7. /\ BlockAt(bs, from, i) \in Extents
      /\ BlockAt(bs, from, i).kind = bs[i]
      /\ BlockAt(bs, from, i).at = at
      /\ End(BlockAt(bs, from, i)) = at + BlockLen[bs[i]]
  <2> DEFINE k == bs[i]
             len == BlockLen[bs[i]]
  <2>1. k \in OwnKinds \cup Blocks /\ len \in Nat
    BY <1>4, <1>5
  <2>2. BlockAt(bs, from, i) = Plain(k, at, len)
    BY <1>6
  <2> HIDE DEF k, len
  <2>3. /\ BlockAt(bs, from, i) \in Extents
        /\ BlockAt(bs, from, i).kind = k /\ BlockAt(bs, from, i).at = at
        /\ End(BlockAt(bs, from, i)) = at + len
    <3>1. at \in Nat
      BY <1>6
    <3>2. /\ Plain(k, at, len) \in Extents
          /\ Plain(k, at, len).kind = k /\ Plain(k, at, len).at = at
          /\ End(Plain(k, at, len)) = at + len
      BY <2>1, <3>1 DEF Plain, Extent, Extents, End
    <3>3. QED
      BY <2>2, <3>2
  <2>4. QED
    BY <2>3 DEF k, len
<1>8. at + BlockLen[bs[i]] = from + Sums(bs)[i]
  BY <1>2, <1>4 DEF at
<1>9. at < from + Sums(bs)[i] /\ from + Sums(bs)[i] <= from + LenOf(bs)
  <2> DEFINE low == Sums(bs)[i - 1]
             high == Sums(bs)[i]
             all == LenOf(bs)
             len == BlockLen[bs[i]]
  <2>1. /\ low \in Nat /\ high \in Nat /\ all \in Nat /\ len \in Nat
        /\ high = low + len /\ len > 0 /\ high <= all
    BY <1>2, <1>3, <1>4
  <2>2. at = from + low
    BY DEF at
  <2> HIDE DEF low, high, all, len
  <2>3. at < from + high /\ from + high <= from + all
    BY <2>1, <2>2
  <2>4. QED
    BY <2>3 DEF high, all
<1> DEFINE e == BlockAt(bs, from, i)
<1>10. e \in Extents /\ e.kind = bs[i] /\ e.at = at
  BY <1>7
<1>11. End(e) = from + Sums(bs)[i]
  BY <1>7, <1>8
<1>12. at = from + Sums(bs)[i - 1]
  BY DEF at
<1> HIDE DEF e
<1>13. e.at < End(e) /\ from <= e.at /\ End(e) <= from + LenOf(bs)
  BY <1>6, <1>9, <1>10, <1>11
<1>14. QED
  BY <1>10, <1>11, <1>12, <1>13 DEF e

LEMMA LaidOutStays ==
    ASSUME NEW s, NEW t, NEW from \in Nat, NEW bs \in Seq(Blocks), LaidOut(s, from, bs),
           \A p \in Nat : from <= p /\ p < from + LenOf(bs) => t[p] = s[p]
    PROVE  LaidOut(t, from, bs)
<1> SUFFICES ASSUME NEW i \in 1..Len(bs) PROVE Whole(t, BlockAt(bs, from, i))
  BY DEF LaidOut
<1> DEFINE e == BlockAt(bs, from, i)
<1>1. /\ e \in Extents /\ from <= e.at /\ End(e) <= from + LenOf(bs)
      /\ e.at \in Nat /\ End(e) \in Nat /\ LenOf(bs) \in Nat
  BY BlockAtType, ExtentType, LenOfType
<1>2. Whole(s, e)
  BY DEF LaidOut
<1> HIDE DEF e
<1>3. \A p \in Nat : e.at <= p /\ p < End(e) => t[p] = s[p]
  BY <1>1
<1>4. Whole(t, e)
  BY <1>1, <1>2, <1>3, WholeStays
<1>5. QED
  BY <1>4 DEF e

LEMMA NoBlocks ==
    ASSUME NEW s, NEW from
    PROVE  <<>> \in Seq(Blocks) /\ LenOf(<<>>) = 0 /\ LaidOut(s, from, <<>>)
<1> DEFINE none == <<>>
<1>1. none \in Seq(Blocks) /\ Len(none) = 0 /\ none = <<>>
  OBVIOUS
<1> HIDE DEF none
<1>2. LenOf(none) = 0
  BY <1>1, SumsStep DEF LenOf
<1>3. LaidOut(s, from, none)
  BY <1>1 DEF LaidOut
<1>4. QED
  BY <1>1, <1>2, <1>3

(* finalise() of a memory cluster lays its blocks out and changes nothing  *)
(* else.                                                                   *)
LEMMA PutAllLaid ==
    ASSUME NEW s, NEW from \in Nat, NEW bs \in Seq(Blocks),
           from + LenOf(bs) <= StreamMax
    PROVE  LET t == PutAll(s, Laid(bs, from)) IN
           /\ DOMAIN t = Positions
           /\ \A p \in Positions :
                 \/ t[p] \in Laid(bs, from) /\ from <= p /\ p < from + LenOf(bs)
                 \/ t[p] = s[p] /\ ~(from <= p /\ p < from + LenOf(bs))
           /\ LaidOut(t, from, bs)
<1> DEFINE t == PutAll(s, Laid(bs, from))
<1>1. DOMAIN t = Positions
  BY DEF PutAll
<1>2. \A e \in Laid(bs, from) : \E i \in 1..Len(bs) : e = BlockAt(bs, from, i)
  BY DEF Laid
<1>3. ASSUME NEW p \in Positions, NEW e \in Laid(bs, from), p \in Bytes(e)
      PROVE  t[p] = e /\ from <= p /\ p < from + LenOf(bs)
  <2>1. PICK i \in 1..Len(bs) : e = BlockAt(bs, from, i)
    BY <1>2
  <2>2. PICK d \in Laid(bs, from) : t[p] = d /\ p \in Bytes(d)
    BY <1>3 DEF PutAll
  <2>3. PICK j \in 1..Len(bs) : d = BlockAt(bs, from, j)
    BY <1>2
  <2>4. /\ from + Sums(bs)[i - 1] <= p /\ p < from + Sums(bs)[i]
        /\ from + Sums(bs)[j - 1] <= p /\ p < from + Sums(bs)[j]
        /\ from + Sums(bs)[i] <= from + LenOf(bs)
    <3>1. e.at <= p /\ p <= End(e) - 1 /\ d.at <= p /\ p <= End(d) - 1
      BY <1>3, <2>2 DEF Bytes
    <3>2. /\ e.at = from + Sums(bs)[i - 1] /\ End(e) = from + Sums(bs)[i]
          /\ d.at = from + Sums(bs)[j - 1] /\ End(d) = from + Sums(bs)[j]
          /\ End(e) <= from + LenOf(bs)
      BY <2>1, <2>3, BlockAtType
    <3>3. End(e) \in Nat /\ End(d) \in Nat /\ p \in Nat
      BY <2>1, <2>3, BlockAtType, ExtentType, ConstantTypes DEF Positions
    <3>4. QED
      BY <3>1, <3>2, <3>3
  <2>5. /\ i - 1 \in 0..Len(bs) /\ j - 1 \in 0..Len(bs)
        /\ i \in 0..Len(bs) /\ j \in 0..Len(bs)
        /\ p \in Nat /\ LenOf(bs) \in Nat
    BY LenOfType DEF Positions
  <2>6. /\ Sums(bs)[i - 1] \in Nat /\ Sums(bs)[j - 1] \in Nat
        /\ Sums(bs)[i] \in Nat /\ Sums(bs)[j] \in Nat
    BY <2>5, SumsStep
  <2>7. ~(i < j) /\ ~(j < i)
    <3>1. i < j => Sums(bs)[i] <= Sums(bs)[j - 1]
      BY <2>5, SumsGrow
    <3>2. j < i => Sums(bs)[j] <= Sums(bs)[i - 1]
      BY <2>5, SumsGrow
    <3> DEFINE a == Sums(bs)[i - 1]
               b == Sums(bs)[i]
               c1 == Sums(bs)[j - 1]
               d1 == Sums(bs)[j]
    <3>3. /\ a \in Nat /\ b \in Nat /\ c1 \in Nat /\ d1 \in Nat /\ p \in Nat
          /\ from + a <= p /\ p < from + b /\ from + c1 <= p /\ p < from + d1
          /\ (i < j => b <= c1) /\ (j < i => d1 <= a)
      BY <2>4, <2>5, <2>6, <3>1, <3>2
    <3> HIDE DEF a, b, c1, d1
    <3>4. ~(b <= c1) /\ ~(d1 <= a)
      BY <3>3
    <3>5. QED
      BY <3>3, <3>4
  <2>8. i = j
    <3>1. i \in Int /\ j \in Int
      BY <2>5
    <3>2. QED
      BY <3>1, <2>7
  <2>9. t[p] = e
    BY <2>1, <2>2, <2>3, <2>8
  <2>10. from <= p /\ p < from + LenOf(bs)
    <3> DEFINE a == Sums(bs)[i - 1]
               b == Sums(bs)[i]
               z == LenOf(bs)
    <3>1. /\ a \in Nat /\ b \in Nat /\ z \in Nat /\ p \in Nat
          /\ from + a <= p /\ p < from + b /\ from + b <= from + z
      BY <2>4, <2>5, <2>6
    <3> HIDE DEF a, b, z
    <3>2. from <= p /\ p < from + z
      BY <3>1
    <3>3. QED
      BY <3>2 DEF z
  <2>11. QED
    BY <2>9, <2>10
<1>4. ASSUME NEW p \in Positions, from <= p, p < from + LenOf(bs)
      PROVE  \E e \in Laid(bs, from) : p \in Bytes(e)
  <2>1. p - from \in Nat /\ p - from < LenOf(bs)
    BY <1>4, LenOfType DEF Positions
  <2>2. PICK i \in 1..Len(bs) : Sums(bs)[i - 1] <= p - from /\ p - from < Sums(bs)[i]
    BY <2>1, InSomeBlock
  <2>3. Sums(bs)[i - 1] \in Nat /\ Sums(bs)[i] \in Nat /\ p \in Nat
    <3>1. i - 1 \in 0..Len(bs) /\ i \in 0..Len(bs)
      OBVIOUS
    <3>2. Sums(bs)[i - 1] \in Nat /\ Sums(bs)[i] \in Nat
      BY <3>1, SumsStep
    <3>3. p \in Nat
      BY ConstantTypes DEF Positions
    <3>4. QED
      BY <3>2, <3>3
  <2>4. p \in Bytes(BlockAt(bs, from, i))
    <3>1. /\ BlockAt(bs, from, i).at = from + Sums(bs)[i - 1]
          /\ End(BlockAt(bs, from, i)) = from + Sums(bs)[i]
      BY BlockAtType
    <3>2. QED
      BY <2>2, <2>3, <3>1 DEF Bytes
  <2>5. QED
    BY <2>4 DEF Laid
<1>5. ASSUME NEW p \in Positions
      PROVE  \/ t[p] \in Laid(bs, from) /\ from <= p /\ p < from + LenOf(bs)
             \/ t[p] = s[p] /\ ~(from <= p /\ p < from + LenOf(bs))
  <2>1. CASE \E e \in Laid(bs, from) : p \in Bytes(e)
    BY <2>1, <1>3
  <2>2. CASE ~ \E e \in Laid(bs, from) : p \in Bytes(e)
    BY <2>2, <1>4 DEF PutAll
  <2>3. QED
    BY <2>1, <2>2
<1>6. ASSUME NEW i \in 1..Len(bs) PROVE Whole(t, BlockAt(bs, from, i))
  <2> DEFINE e == BlockAt(bs, from, i)
  <2>1. /\ e \in Laid(bs, from) /\ e.at \in Nat /\ End(e) \in Nat
        /\ End(e) <= from + LenOf(bs) /\ LenOf(bs) \in Nat
    BY BlockAtType, ExtentType, LenOfType DEF Laid
  <2>2. \A p \in Bytes(e) : p \in Positions
    BY <2>1, ConstantTypes DEF Bytes, Positions
  <2> HIDE DEF e, t
  <2>3. Whole(t, e)
    BY <2>1, <2>2, <1>3 DEF Whole
  <2>4. QED
    BY <2>3 DEF e
<1>7. QED
  BY <1>1, <1>5, <1>6 DEF LaidOut

(* What a reader does at one position: the recursive definition of its     *)
(* walk has a solution, because it only goes forward.                      *)
LEMMA WalkStep ==
    ASSUME NEW s \in [Positions -> Extents], NEW to \in Nat, NEW p \in Nat
    PROVE  BlocksIn(s, p, to) =
              IF p < to /\ ReadableAt(s, p)
              THEN <<s[p].kind>> \o BlocksIn(s, End(s[p]), to) ELSE <<>>
<1> DEFINE Go(w, q) == IF q < to /\ ReadableAt(s, q)
                       THEN <<s[q].kind>> \o w[End(s[q])] ELSE <<>>
           Last(n) == {q \in Nat : to <= q + n}
           Walks(w, n) == w = [q \in Last(n) |-> Go(w, q)]
           Without == {n \in 0..to : ~ \E w : Walks(w, n)}
<1>1. \A q \in Nat : ReadableAt(s, q) => End(s[q]) \in Nat /\ q < End(s[q])
  BY ExtentType DEF ReadableAt
<1>2. Without = {}
  <2> SUFFICES ASSUME Without # {} PROVE FALSE
    OBVIOUS
  <2>1. PICK m \in Without : \A n \in Without : m <= n
    <3>1. Without \subseteq Nat
      OBVIOUS
    <3> HIDE DEF Without
    <3>2. QED
      BY <3>1, LeastOf
  <2>2. m # 0
    <3>1. Walks([q \in Last(0) |-> <<>>], 0)
      OBVIOUS
    <3>2. QED
      BY <3>1
  <2>3. m \in 0..to
    OBVIOUS
  <2>4. m - 1 \in 0..to /\ m - 1 \notin Without
    <3> HIDE DEF Without
    <3>1. QED
      BY <2>1, <2>2, <2>3
  <2>5. PICK w : Walks(w, m - 1)
    BY <2>4
  <2> DEFINE g == [q \in Last(m) |-> IF q \in Last(m - 1) THEN w[q] ELSE Go(w, q)]
  <2>6. ASSUME NEW q \in Last(m) PROVE g[q] = Go(w, q)
    BY <2>5
  <2>7. ASSUME NEW q \in Last(m) PROVE Go(w, q) = Go(g, q)
    <3>1. CASE q < to /\ ReadableAt(s, q)
      <4>1. End(s[q]) \in Last(m - 1) /\ End(s[q]) \in Last(m)
        BY <1>1, <2>3, <2>4, <3>1
      <4> DEFINE r == End(s[q])
      <4>2. g[r] = w[r]
        BY <4>1
      <4>3. QED
        BY <3>1, <4>2
    <3>2. CASE ~(q < to /\ ReadableAt(s, q))
      BY <3>2
    <3>3. QED
      BY <3>1, <3>2
  <2>8. g = [q \in Last(m) |-> g[q]]
    OBVIOUS
  <2> HIDE DEF g
  <2>9. Walks(g, m)
    BY <2>6, <2>7, <2>8
  <2>10. QED
    BY <2>1, <2>9
<1>3. PICK w : Walks(w, to)
  <2>1. to \in 0..to
    OBVIOUS
  <2>2. QED
    BY <1>2, <2>1
<1>4. Last(to) = Nat
  OBVIOUS
<1>5. w = [q \in Nat |-> Go(w, q)]
  BY <1>3, <1>4
<1> DEFINE walk == CHOOSE f : f = [q \in Nat |-> Go(f, q)]
<1>6. walk = [q \in Nat |-> Go(walk, q)]
  BY <1>5
<1>7. \A q : BlocksIn(s, q, to) = walk[q]
  BY DEF BlocksIn
<1> HIDE DEF walk
<1>8. walk[p] = Go(walk, p)
  BY <1>6
<1>9. /\ BlocksIn(s, p, to) = walk[p]
      /\ BlocksIn(s, End(s[p]), to) = walk[End(s[p])]
  BY <1>7
<1>10. QED
  BY <1>8, <1>9

(* A reader recovers the blocks that were laid out.                        *)
LEMMA ReadsBack ==
    ASSUME NEW s \in [Positions -> Extents], NEW from \in Nat, NEW bs \in Seq(Blocks),
           from + LenOf(bs) <= StreamMax, LaidOut(s, from, bs)
    PROVE  BlocksIn(s, from, from + LenOf(bs)) = bs
<1> DEFINE to == from + LenOf(bs)
           N == Len(bs)
           Rest(k) == BlocksIn(s, from + Sums(bs)[k], to)
           Good(k) == Rest(k) = SubSeq(bs, k + 1, N)
           Bad == {n \in 0..N : ~Good(N - n)}
<1>0. N \in Nat /\ to \in Nat /\ LenOf(bs) \in Nat
  BY LenOfType
<1>1. ASSUME NEW k \in 1..N
      PROVE  Rest(k - 1) = <<bs[k]>> \o Rest(k)
  <2> DEFINE e == BlockAt(bs, from, k)
             q == from + Sums(bs)[k - 1]
  <2>1. /\ e \in Extents /\ e.kind = bs[k] /\ e.at = q
        /\ End(e) = from + Sums(bs)[k] /\ e.at < End(e) /\ End(e) <= to
        /\ e.at \in Nat /\ End(e) \in Nat
    BY BlockAtType, ExtentType
  <2>2. Whole(s, e)
    BY DEF LaidOut
  <2> HIDE DEF e, q, to
  <2>3. q \in Bytes(e) /\ q \in Positions /\ q < to /\ q \in Nat
    BY <1>0, <2>1, ConstantTypes DEF Bytes, Positions, to
  <2>4. s[q] = e
    BY <2>2, <2>3 DEF Whole
  <2>5. ReadableAt(s, q)
    BY <2>1, <2>2, <2>3, <2>4 DEF ReadableAt
  <2>6. BlocksIn(s, q, to) = <<bs[k]>> \o BlocksIn(s, End(e), to)
    BY <1>0, <2>1, <2>3, <2>4, <2>5, WalkStep
  <2>7. QED
    BY <2>1, <2>6 DEF q
<1>2. Good(N)
  <2>1. from + Sums(bs)[N] = to
    BY DEF LenOf
  <2> HIDE DEF to
  <2>2. BlocksIn(s, to, to) = <<>>
    <3>1. ~(to < to)
      BY <1>0
    <3>2. QED
      BY <1>0, <3>1, WalkStep
  <2>3. SubSeq(bs, N + 1, N) = <<>>
    BY <1>0
  <2>4. QED
    BY <2>1, <2>2, <2>3
<1> HIDE DEF Rest
<1>3. Bad = {}
  <2> SUFFICES ASSUME Bad # {} PROVE FALSE
    OBVIOUS
  <2>1. PICK m \in Bad : \A n \in Bad : m <= n
    <3>1. Bad \subseteq Nat
      OBVIOUS
    <3> HIDE DEF Bad
    <3>2. QED
      BY <3>1, LeastOf
  <2>2. m \in 0..N /\ m # 0
    <3>1. m \in 0..N /\ ~Good(N - m)
      OBVIOUS
    <3>2. N - 0 = N
      BY <1>0
    <3>3. QED
      BY <1>2, <3>1, <3>2
  <2>3. m - 1 \in 0..N /\ m - 1 \notin Bad
    <3> HIDE DEF Bad
    <3>1. QED
      BY <1>0, <2>1, <2>2
  <2>4. Good(N - (m - 1))
    BY <2>3
  <2> DEFINE k == N - (m - 1)
  <2>5. k \in 1..N /\ k - 1 = N - m /\ k \in Nat
    BY <1>0, <2>2
  <2> HIDE DEF k
  <2>6. Rest(k) = SubSeq(bs, k + 1, N)
    BY <2>4 DEF k
  <2>7. <<bs[k]>> \o SubSeq(bs, k + 1, N) = SubSeq(bs, k, N)
    <3>1. N \in k..N /\ k \in 1..Len(bs)
      BY <1>0, <2>5
    <3>2. QED
      BY <3>1, SubSeqRecursiveFirst
  <2>8. Rest(k - 1) = SubSeq(bs, (k - 1) + 1, N)
    <3>1. (k - 1) + 1 = k
      BY <2>5
    <3>2. Rest(k - 1) = <<bs[k]>> \o Rest(k)
      BY <1>1, <2>5
    <3>3. QED
      BY <2>6, <2>7, <3>1, <3>2
  <2>9. QED
    BY <2>1, <2>5, <2>8
<1>4. Good(0)
  <2>1. N \in 0..N /\ N - N = 0
    BY <1>0
  <2>2. QED
    BY <1>3, <2>1
<1>5. SubSeq(bs, 1, N) = bs
  BY SubSeqFull
<1>6. QED
  BY <1>0, <1>4, <1>5, SumsStep DEF Rest

----------------------------------------------------------------------------
(* The inductive invariant.                                                *)

TypeOK ==
    /\ stream \in [Positions -> Extents]
    /\ eof \in 0..StreamMax /\ wpos \in 0..StreamMax /\ moved \in BOOLEAN
    /\ c \in [flavour : {"memory", "file"}, offset : Nat, meta : MetaSizes,
              writing : BOOLEAN, blocks : Seq(Blocks), start : Nat, end : Nat]
    /\ phase \in Phases
    /\ closed \in Seq(Nat)

WhereItIs == /\ wpos = IF moved THEN 0 ELSE eof
             /\ c.writing <=> phase = "open"

(* What lies before the open cluster, or in the stream if none is open, is *)
(* final.                                                                  *)
Frontier == IF phase = "open" THEN c.offset ELSE eof

KeptBehind ==
    \A e \in kept : e \in Extents /\ End(e) <= Frontier /\ Whole(stream, e)

(* ID, size field and metadata of a cluster.                               *)
Headed(s, o, n, m) ==
    /\ Whole(s, Plain("ClusterID", o, IdLen))
    /\ Whole(s, SizeField(o, n))
    /\ Whole(s, Plain("Meta", o + HeaderLen, m))

(* The open cluster begins as write() left it; behind its metadata is the  *)
(* end of the stream, or are the blocks of a file cluster and then the end.*)
OpenInPlace ==
    phase = "open" =>
        \E n \in Nat, m \in MetaSizes :
            /\ Headed(stream, c.offset, n, m)
            /\ "open" \notin MetaPhases => m = c.meta
            /\ IF InMemory THEN eof = c.offset + HeaderLen + m
               ELSE c.start = c.offset + HeaderLen + m /\ c.end = eof

FileBlocks ==
    ~InMemory => \E bs \in Seq(Blocks) :
                    /\ LaidOut(stream, c.start, bs)
                    /\ c.end = c.start + LenOf(bs) /\ c.end <= eof

(* A closed cluster, up to where the next one begins.                      *)
SealedWith(s, o, next, bs, m) ==
    /\ Headed(s, o, m + LenOf(bs), m)
    /\ LaidOut(s, o + HeaderLen + m, bs)
    /\ next = o + HeaderLen + m + LenOf(bs)

Sealed(s, o, next) ==
    \E bs \in Seq(Blocks), m \in MetaSizes : SealedWith(s, o, next, bs, m)

Successor(i) == IF i < Len(closed) THEN closed[i + 1] ELSE Frontier

Chained ==
    "open" \notin MetaPhases =>
        \A i \in 1..Len(closed) :
            Sealed(stream, closed[i], Successor(i)) /\ Successor(i) <= Frontier

IInv == TypeOK /\ WhereItIs /\ KeptBehind /\ OpenInPlace /\ FileBlocks /\ Chained

----------------------------------------------------------------------------
LEMMA TypeFacts ==
    ASSUME TypeOK
    PROVE  /\ stream \in [Positions -> Extents]
           /\ eof \in Nat /\ eof <= StreamMax /\ wpos \in Nat /\ wpos <= StreamMax
           /\ c.offset \in Nat /\ c.meta \in MetaSizes /\ c.meta \in Nat /\ c.meta > 0
           /\ c.blocks \in Seq(Blocks) /\ c.start \in Nat /\ c.end \in Nat
           /\ c.flavour \in {"memory", "file"}
           /\ Frontier \in Nat
           /\ Len(closed) \in Nat /\ \A i \in 1..Len(closed) : closed[i] \in Nat
<1>1. /\ stream \in [Positions -> Extents]
      /\ eof \in Nat /\ eof <= StreamMax /\ wpos \in Nat /\ wpos <= StreamMax
  BY ConstantTypes DEF TypeOK
<1>2. /\ c.offset \in Nat /\ c.meta \in MetaSizes
      /\ c.blocks \in Seq(Blocks) /\ c.start \in Nat /\ c.end \in Nat
      /\ c.flavour \in {"memory", "file"}
  BY DEF TypeOK
<1>3. c.meta \in Nat /\ c.meta > 0
  BY <1>2, ConstantTypes
<1>4. Len(closed) \in Nat /\ \A i \in 1..Len(closed) : closed[i] \in Nat
  BY DEF TypeOK
<1>5. QED
  BY <1>1, <1>2, <1>3, <1>4 DEF Frontier

LEMMA HeaderTypes ==
    ASSUME NEW o \in Nat, NEW m \in Nat
    PROVE  /\ Plain("ClusterID", o, IdLen) \in Extents
           /\ Plain("ClusterID", o, IdLen).at = o
           /\ End(Plain("ClusterID", o, IdLen)) = o + 4
           /\ Plain("Meta", o + HeaderLen, m) \in Extents
           /\ Plain("Meta", o + HeaderLen, m).at = o + 12
           /\ End(Plain("Meta", o + HeaderLen, m)) = o + 12 + m
BY ConstantTypes DEF Plain, Extent, Extents, End, OwnKinds

LEMMA HeadedStays ==
    ASSUME NEW s, NEW t, NEW o \in Nat, NEW n \in Nat, NEW m \in Nat,
           Headed(s, o, n, m),
           \A p \in Nat : o <= p /\ p < o + HeaderLen + m => t[p] = s[p]
    PROVE  Headed(t, o, n, m)
<1> DEFINE id == Plain("ClusterID", o, IdLen)
           field == SizeField(o, n)
           meta == Plain("Meta", o + HeaderLen, m)
<1>1. /\ id \in Extents /\ id.at = o /\ End(id) = o + 4
      /\ field \in Extents /\ field.at = o + 4 /\ End(field) = o + 12
      /\ meta \in Extents /\ meta.at = o + 12 /\ End(meta) = o + 12 + m
  BY HeaderTypes, SizeFieldType
<1>2. Whole(s, id) /\ Whole(s, field) /\ Whole(s, meta) /\ HeaderLen = 12
  BY ConstantTypes DEF Headed
<1> HIDE DEF id, field, meta
<1>3. Whole(t, id) /\ Whole(t, field) /\ Whole(t, meta)
  <2>1. \A p \in Nat : id.at <= p /\ p < End(id) => t[p] = s[p]
    BY <1>1, <1>2
  <2>2. \A p \in Nat : field.at <= p /\ p < End(field) => t[p] = s[p]
    BY <1>1, <1>2
  <2>3. \A p \in Nat : meta.at <= p /\ p < End(meta) => t[p] = s[p]
    BY <1>1, <1>2
  <2>4. QED
    BY <1>1, <1>2, <2>1, <2>2, <2>3, WholeStays
<1>4. QED
  BY <1>3 DEF Headed, id, field, meta

LEMMA SealedStays ==
    ASSUME NEW s, NEW t, NEW o \in Nat, NEW next, Sealed(s, o, next),
           \A p \in Nat : p < next => t[p] = s[p]
    PROVE  Sealed(t, o, next)
<1>1. PICK bs \in Seq(Blocks), m \in MetaSizes : SealedWith(s, o, next, bs, m)
  BY DEF Sealed
<1>2. LenOf(bs) \in Nat /\ m \in Nat /\ HeaderLen = 12
  BY LenOfType, ConstantTypes
<1>3. next = o + 12 + m + LenOf(bs) /\ o + HeaderLen + m \in Nat
  BY <1>1, <1>2 DEF SealedWith
<1>4. \A p \in Nat : o <= p /\ p < o + HeaderLen + m => t[p] = s[p]
  BY <1>2, <1>3
<1>5. Headed(t, o, m + LenOf(bs), m)
  BY <1>1, <1>2, <1>4, HeadedStays DEF SealedWith
<1> DEFINE from == o + HeaderLen + m
<1>6. \A p \in Nat : from <= p /\ p < from + LenOf(bs) => t[p] = s[p]
  BY <1>2, <1>3
<1>7. LaidOut(s, from, bs) /\ from \in Nat
  BY <1>1, <1>3 DEF SealedWith
<1> HIDE DEF from
<1>8. LaidOut(t, from, bs)
  BY <1>6, <1>7, LaidOutStays
<1>9. SealedWith(t, o, next, bs, m)
  BY <1>1, <1>5, <1>8 DEF SealedWith, from
<1>10. QED
  BY <1>9 DEF Sealed

(* A step that leaves the frontier, and all before it, where it is.        *)
LEMMA BehindFrontier ==
    ASSUME IInv, Frontier' = Frontier, kept' = kept, closed' = closed,
           \A p \in Nat : p < Frontier => stream'[p] = stream[p]
    PROVE  KeptBehind' /\ Chained'
<1>0. Frontier \in Nat /\ Len(closed) \in Nat /\ \A i \in 1..Len(closed) : closed[i] \in Nat
  BY TypeFacts DEF IInv
<1>1. ASSUME NEW e \in kept PROVE Whole(stream', e)
  <2>1. e \in Extents /\ End(e) <= Frontier /\ Whole(stream, e)
    BY DEF IInv, KeptBehind
  <2>2. \A p \in Nat : e.at <= p /\ p < End(e) => stream'[p] = stream[p]
    BY <1>0, <2>1, ExtentType
  <2>3. QED
    BY <2>1, <2>2, WholeStays
<1>2. KeptBehind'
  BY <1>1 DEF IInv, KeptBehind
<1>3. ASSUME NEW i \in 1..Len(closed), "open" \notin MetaPhases
      PROVE  Sealed(stream', closed[i], Successor(i)) /\ Successor(i) <= Frontier
  <2>1. Sealed(stream, closed[i], Successor(i)) /\ Successor(i) <= Frontier
    BY <1>3 DEF IInv, Chained
  <2>2. Successor(i) \in Nat
    BY <1>0 DEF Successor
  <2>3. \A p \in Nat : p < Successor(i) => stream'[p] = stream[p]
    BY <1>0, <2>1, <2>2
  <2>4. closed[i] \in Nat
    BY <1>0
  <2>5. QED
    BY <2>1, <2>3, <2>4, SealedStays
<1>4. \A i : Successor(i)' = Successor(i)
  BY DEF Successor
<1>5. Chained'
  BY <1>3, <1>4 DEF Chained
<1>6. QED
  BY <1>2, <1>5

(* A step that leaves the stream alone and, of the cluster, what lies in it. *)
LEMMA QuietKeeps ==
    ASSUME IInv, TypeOK', WhereItIs', UNCHANGED <<stream, eof, phase, kept, closed>>,
           c'.flavour = c.flavour, c'.offset = c.offset,
           c'.start = c.start, c'.end = c.end,
           c'.meta = c.meta \/ phase \in MetaPhases
    PROVE  IInv'
<1>1. Frontier' = Frontier
  BY DEF Frontier
<1>2. KeptBehind' /\ Chained'
  BY <1>1, BehindFrontier
<1>3. InMemory' = InMemory
  BY DEF InMemory
<1>4. OpenInPlace'
  BY <1>3 DEF IInv, OpenInPlace
<1>5. FileBlocks'
  BY <1>3 DEF IInv, FileBlocks
<1>6. QED
  BY <1>2, <1>4, <1>5 DEF IInv

----------------------------------------------------------------------------
(* One lemma for each step: it keeps IInv.                                 *)

LEMMA SetMetaKeeps ==
    ASSUME IInv, NEW n \in MetaSizes, SetMeta(n)
    PROVE  IInv'
<1>1. TypeOK' /\ WhereItIs'
  BY DEF IInv, TypeOK, WhereItIs, SetMeta, streamVars
<1>2. QED
  BY <1>1, QuietKeeps DEF IInv, TypeOK, SetMeta, streamVars

LEMMA PushInMemoryKeeps ==
    ASSUME IInv, NEW b \in Blocks, PushInMemory(b)
    PROVE  IInv'
<1>1. Append(c.blocks, b) \in Seq(Blocks)
  BY TypeFacts DEF IInv
<1>2. TypeOK' /\ WhereItIs'
  BY <1>1 DEF IInv, TypeOK, WhereItIs, PushInMemory, streamVars
<1>3. QED
  BY <1>2, QuietKeeps DEF IInv, TypeOK, PushInMemory, streamVars

LEMMA EraseKeeps ==
    ASSUME IInv, NEW i \in 1..(Len(c.blocks) + 1), NEW j \in 1..(Len(c.blocks) + 1),
           Erase(i, j)
    PROVE  IInv'
<1> DEFINE left == SubSeq(c.blocks, 1, i - 1) \o SubSeq(c.blocks, j, Len(c.blocks))
<1>1. left \in Seq(Blocks)
  <2>1. c.blocks \in Seq(Blocks)
    BY TypeFacts DEF IInv
  <2>2. SubSeq(c.blocks, 1, i - 1) \in Seq(Blocks)
    BY <2>1
  <2>3. SubSeq(c.blocks, j, Len(c.blocks)) \in Seq(Blocks)
    BY <2>1
  <2>4. QED
    BY <2>2, <2>3
<1>2. c' = [c EXCEPT !.blocks = left]
  BY DEF Erase
<1> HIDE DEF left
<1>3. TypeOK' /\ WhereItIs'
  BY <1>1, <1>2 DEF IInv, TypeOK, WhereItIs, Erase, streamVars
<1>4. QED
  BY <1>2, <1>3, QuietKeeps DEF IInv, TypeOK, Erase, streamVars

LEMMA RefusedKeeps ==
    ASSUME IInv, PushRefused \/ FinaliseRefused
    PROVE  IInv'
<1>1. UNCHANGED <<stream, eof, wpos, moved, c, phase, kept, closed>>
  BY DEF PushRefused, FinaliseRefused, streamVars
<1>2. TypeOK' /\ WhereItIs'
  BY <1>1 DEF IInv, TypeOK, WhereItIs
<1>3. QED
  BY <1>1, <1>2, QuietKeeps

LEMMA MovesKeep ==
    ASSUME IInv, MoveAway \/ MoveBack
    PROVE  IInv'
<1>1. UNCHANGED <<stream, eof, c, phase, kept, closed>>
  BY DEF MoveAway, MoveBack
<1>2. TypeOK' /\ WhereItIs'
  <2>1. wpos' \in 0..StreamMax /\ moved' \in BOOLEAN
    <3>1. 0 \in 0..StreamMax /\ eof \in 0..StreamMax
      BY ConstantTypes DEF IInv, TypeOK
    <3>2. QED
      BY <3>1 DEF MoveAway, MoveBack
  <2>2. WhereItIs'
    BY <1>1 DEF IInv, WhereItIs, MoveAway, MoveBack
  <2>3. QED
    BY <1>1, <2>1, <2>2 DEF IInv, TypeOK
<1>3. QED
  BY <1>1, <1>2, QuietKeeps

LEMMA RenewKeeps ==
    ASSUME IInv, Renew
    PROVE  IInv'
<1>1. PICK f \in Flavours, n \in MetaSizes : c' = New(f, n)
  BY DEF Renew
<1>2. /\ UNCHANGED <<stream, eof, wpos, moved, kept, closed>>
      /\ phase = "closed" /\ phase' = "new"
  BY DEF Renew, streamVars
<1>3. /\ c'.flavour = f /\ c'.meta = n /\ c'.writing = FALSE /\ c'.blocks = <<>>
      /\ c'.start = 0 /\ c'.end = 0
  BY <1>1 DEF New
<1>4. TypeOK'
  BY <1>1, <1>2, ConstantTypes DEF IInv, TypeOK, New, Phases
<1>5. WhereItIs'
  BY <1>2, <1>3 DEF IInv, WhereItIs
<1>6. Frontier' = Frontier
  BY <1>2 DEF Frontier
<1>7. KeptBehind' /\ Chained'
  BY <1>2, <1>6, BehindFrontier
<1>8. OpenInPlace'
  BY <1>2 DEF OpenInPlace
<1>9. FileBlocks'
  <2>1. LaidOut(stream', 0, <<>>) /\ <<>> \in Seq(Blocks) /\ LenOf(<<>>) = 0
    BY NoBlocks
  <2>2. 0 <= eof'
    BY <1>2, TypeFacts DEF IInv
  <2>3. c'.end = c'.start + LenOf(<<>>) /\ LaidOut(stream', c'.start, <<>>) /\ c'.end <= eof'
    BY <1>3, <2>1, <2>2
  <2>4. QED
    BY <2>1, <2>3 DEF FileBlocks
<1>10. QED
  BY <1>4, <1>5, <1>7, <1>8, <1>9 DEF IInv

(* What the object says its body has is a size.                            *)
LEMMA BodySizeType ==
    ASSUME IInv
    PROVE  BodySize \in Nat
<1>1. c.meta \in Nat /\ LenOf(c.blocks) \in Nat /\ c.start \in Nat
  BY TypeFacts, LenOfType DEF IInv
<1>2. ~InMemory => c.end - c.start \in Nat
  <2> SUFFICES ASSUME ~InMemory PROVE c.end - c.start \in Nat
    OBVIOUS
  <2>1. PICK bs \in Seq(Blocks) : c.end = c.start + LenOf(bs)
    BY DEF IInv, FileBlocks
  <2>2. QED
    BY <1>1, <2>1, LenOfType
<1>3. QED
  BY <1>1, <1>2 DEF BodySize

(* The start of a cluster as write() puts it into the stream.              *)
LEMMA HeaderWritten ==
    ASSUME NEW s \in [Positions -> Extents], NEW o \in Nat, NEW n \in Nat,
           NEW m \in Nat, o + HeaderLen + m <= StreamMax, NEW t,
           t = Put(Put(Put(s, Plain("ClusterID", o, IdLen)), SizeField(o, n)),
                   Plain("Meta", o + HeaderLen, m))
    PROVE  /\ t \in [Positions -> Extents] /\ Headed(t, o, n, m)
           /\ \A p \in Nat : p < o => t[p] = s[p]
<1> DEFINE id == Plain("ClusterID", o, IdLen)
           field == SizeField(o, n)
           meta == Plain("Meta", o + HeaderLen, m)
           s1 == Put(s, id)
           s2 == Put(s1, field)
<1>1. /\ id \in Extents /\ id.at = o /\ End(id) = o + 4
      /\ field \in Extents /\ field.at = o + 4 /\ End(field) = o + 12
      /\ meta \in Extents /\ meta.at = o + 12 /\ End(meta) = o + 12 + m
  BY HeaderTypes, SizeFieldType
<1>2. HeaderLen = 12 /\ StreamMax \in Nat /\ o + 12 + m <= StreamMax
  BY ConstantTypes
<1>3. t = Put(s2, meta)
  OBVIOUS
<1> HIDE DEF id, field, meta
<1>4. s1 \in [Positions -> Extents] /\ s2 \in [Positions -> Extents]
  BY <1>1, PutType
<1>5. t \in [Positions -> Extents]
  BY <1>1, <1>3, <1>4, PutType
<1>6. Whole(s1, id) /\ Whole(s2, field) /\ Whole(t, meta)
  BY <1>1, <1>2, <1>3, PutWhole
<1>7. /\ \A p \in Nat : p < o => p \in Positions /\ s1[p] = s[p]
      /\ \A p \in Nat : p < o + 4 => p \in Positions /\ s2[p] = s1[p]
      /\ \A p \in Nat : p < o + 12 => p \in Positions /\ t[p] = s2[p]
  <2>1. \A p \in Nat : p < o + 12 => p \in Positions
    BY <1>2 DEF Positions
  <2>2. \A p \in Positions : p < o => s1[p] = s[p]
    BY <1>1, PutAt, ConstantTypes DEF Positions
  <2>3. \A p \in Positions : p < o + 4 => s2[p] = s1[p]
    BY <1>1, PutAt, ConstantTypes DEF Positions
  <2>4. \A p \in Positions : p < o + 12 => t[p] = s2[p]
    BY <1>1, <1>3, PutAt, ConstantTypes DEF Positions
  <2>5. QED
    BY <2>1, <2>2, <2>3, <2>4
<1> HIDE DEF s1, s2
<1>8. Whole(t, id) /\ Whole(t, field)
  <2>1. \A p \in Nat : id.at <= p /\ p < End(id) => t[p] = s1[p]
    BY <1>1, <1>7
  <2>2. \A p \in Nat : field.at <= p /\ p < End(field) => t[p] = s2[p]
    BY <1>1, <1>7
  <2>3. QED
    BY <1>1, <1>6, <2>1, <2>2, WholeStays
<1>9. Headed(t, o, n, m)
  BY <1>6, <1>8 DEF Headed, id, field, meta
<1>10. QED
  BY <1>5, <1>7, <1>9

LEMMA WriteKeeps ==
    ASSUME IInv, Write
    PROVE  IInv'
<1> DEFINE o == wpos
           m == c.meta
           end == o + 12 + m
<1>1. /\ o \in Nat /\ m \in Nat /\ m > 0 /\ m \in MetaSizes /\ eof \in Nat
      /\ stream \in [Positions -> Extents] /\ StreamMax \in Nat /\ HeaderLen = 12
      /\ BodySize \in Nat
  BY TypeFacts, ConstantTypes, BodySizeType DEF IInv
<1>2. o = eof /\ phase # "open" /\ ~moved
  BY DEF IInv, WhereItIs, Write
<1>3. End(Plain("Meta", o + HeaderLen, m)) = end
  BY <1>1, HeaderTypes
<1>4. /\ end <= StreamMax
      /\ stream' = Put(Put(Put(stream, Plain("ClusterID", o, IdLen)),
                           SizeField(o, BodySize)), Plain("Meta", o + HeaderLen, m))
      /\ eof' = end /\ wpos' = end
      /\ phase' = "open" /\ UNCHANGED <<moved, kept, closed>>
      /\ c' = IF InMemory THEN [c EXCEPT !.offset = o, !.writing = TRUE]
              ELSE [c EXCEPT !.offset = o, !.writing = TRUE, !.start = end, !.end = end]
  <2> DEFINE meta == Plain("Meta", o + HeaderLen, m)
  <2>1. /\ End(meta) <= StreamMax
        /\ stream' = Put(Put(Put(stream, Plain("ClusterID", o, IdLen)),
                           SizeField(o, BodySize)), meta)
        /\ eof' = IF End(meta) > eof THEN End(meta) ELSE eof
        /\ wpos' = End(meta)
        /\ phase' = "open" /\ UNCHANGED <<moved, kept, closed>>
        /\ c' = IF InMemory THEN [c EXCEPT !.offset = o, !.writing = TRUE]
              ELSE [c EXCEPT !.offset = o, !.writing = TRUE, !.start = End(meta),
                             !.end = End(meta)]
    BY DEF Write
  <2>2. End(meta) = end
    BY <1>3
  <2>3. end > eof
    BY <1>1, <1>2
  <2> HIDE DEF meta, o, m, end
  <2>4. QED
    BY <2>1, <2>2, <2>3 DEF meta
<1>5. /\ stream' \in [Positions -> Extents] /\ Headed(stream', o, BodySize, m)
      /\ \A p \in Nat : p < o => stream'[p] = stream[p]
  BY <1>1, <1>4, HeaderWritten
<1>6. end \in Nat /\ o <= end
  BY <1>1
<1> HIDE DEF o, m, end
<1>7. /\ c' \in [flavour : {"memory", "file"}, offset : Nat, meta : MetaSizes,
              writing : BOOLEAN, blocks : Seq(Blocks), start : Nat, end : Nat]
      /\ c'.offset = o /\ c'.meta = c.meta /\ c'.writing = TRUE /\ c'.flavour = c.flavour
      /\ ~InMemory => c'.start = end /\ c'.end = end
  BY <1>1, <1>4, <1>6 DEF IInv, TypeOK
<1>8. TypeOK'
  BY <1>1, <1>4, <1>5, <1>6, <1>7 DEF IInv, TypeOK, Phases
<1>9. WhereItIs'
  BY <1>2, <1>4, <1>7 DEF WhereItIs
<1>10. Frontier' = Frontier
  BY <1>2, <1>4, <1>7 DEF Frontier
<1>11. KeptBehind' /\ Chained'
  BY <1>2, <1>4, <1>5, <1>10, BehindFrontier DEF Frontier
<1>12. InMemory' = InMemory
  BY <1>7 DEF InMemory
<1>13. OpenInPlace'
  <2>1. m = c'.meta /\ end = c'.offset + HeaderLen + m
    BY <1>1, <1>7 DEF m, end
  <2>2. IF InMemory' THEN eof' = c'.offset + HeaderLen + m
        ELSE c'.start = c'.offset + HeaderLen + m /\ c'.end = eof'
    BY <1>4, <1>7, <1>12, <2>1
  <2>3. QED
    BY <1>1, <1>5, <1>7, <2>1, <2>2 DEF OpenInPlace
<1>14. FileBlocks'
  <2>1. LaidOut(stream', end, <<>>) /\ <<>> \in Seq(Blocks) /\ LenOf(<<>>) = 0
    BY NoBlocks
  <2>2. ~InMemory' => c'.start = end /\ c'.end = end + 0 /\ end <= eof'
    BY <1>4, <1>6, <1>7, <1>12
  <2>3. ~InMemory' => c'.end = c'.start + LenOf(<<>>) /\ LaidOut(stream', c'.start, <<>>)
    BY <2>1, <2>2, <1>7, <1>12
  <2>4. QED
    BY <1>7, <1>12, <2>1, <2>2, <2>3 DEF FileBlocks
<1>15. QED
  BY <1>8, <1>9, <1>11, <1>13, <1>14 DEF IInv

(* A block pushed into a file cluster comes to lie behind the others.      *)
LEMMA PushInFileFacts ==
    ASSUME IInv, NEW b \in Blocks, PushInFile(b)
    PROVE  \E bs \in Seq(Blocks) :
             /\ LaidOut(stream, c.start, bs) /\ c.end = c.start + LenOf(bs)
             /\ LaidOut(stream', c.start, Append(bs, b))
             /\ c'.start = c.start /\ c'.end = c.start + LenOf(Append(bs, b))
             /\ c'.end <= StreamMax
<1> DEFINE len == BlockLen[b]
           end == c.end + len
           e == Plain(b, c.end, len)
<1>1. /\ len \in Nat /\ len > 0 /\ c.end \in Nat /\ c.start \in Nat
      /\ stream \in [Positions -> Extents] /\ StreamMax \in Nat
  BY TypeFacts, ConstantTypes DEF IInv
<1>2. PICK bs \in Seq(Blocks) : LaidOut(stream, c.start, bs) /\ c.end = c.start + LenOf(bs)
  BY DEF IInv, FileBlocks, PushInFile
<1>3. LenOf(bs) \in Nat
  BY LenOfType
<1>4. /\ e \in Extents /\ e.at = c.end /\ End(e) = end
  BY <1>1 DEF Plain, Extent, Extents, End
<1>5. /\ End(e) <= StreamMax /\ stream' = Put(stream, e)
      /\ c' = [c EXCEPT !.end = End(e)]
  BY DEF PushInFile, BlockPos
<1>6. c'.start = c.start /\ c'.end = End(e)
  BY <1>5 DEF IInv, TypeOK
<1> DEFINE cs == Append(bs, b)
<1>7. /\ cs \in Seq(Blocks) /\ Len(cs) = Len(bs) + 1 /\ Len(bs) \in Nat
      /\ \A i \in 0..Len(bs) : Sums(cs)[i] = Sums(bs)[i]
      /\ LenOf(cs) = LenOf(bs) + len
      /\ \A i \in 1..Len(bs) : cs[i] = bs[i]
      /\ cs[Len(bs) + 1] = b
  BY SumsAppend DEF len
<1>8. e = Plain(b, c.end, len)
  OBVIOUS
<1> HIDE DEF e, cs
<1>9. end = c.start + LenOf(cs) /\ end \in Nat
  BY <1>1, <1>2, <1>3, <1>7
<1> HIDE DEF end
<1>10. Whole(stream', e)
  BY <1>1, <1>4, <1>5, PutWhole
<1>11. LaidOut(stream', c.start, bs)
  <2>1. \A p \in Nat : p < c.end => p \in Positions
    BY <1>1, <1>4, <1>5, <1>9 DEF Positions, end
  <2>2. \A p \in Nat : c.start <= p /\ p < c.start + LenOf(bs) => stream'[p] = stream[p]
    BY <1>1, <1>2, <1>3, <1>4, <1>5, <2>1, PutAt
  <2>3. QED
    BY <1>1, <1>2, <2>2, LaidOutStays
<1>12. ASSUME NEW i \in 1..Len(cs) PROVE Whole(stream', BlockAt(cs, c.start, i))
  <2>1. CASE i \in 1..Len(bs)
    <3>1. i - 1 \in 0..Len(bs)
      BY <1>7, <2>1
    <3>2. BlockAt(cs, c.start, i) = BlockAt(bs, c.start, i)
      BY <1>7, <2>1, <3>1 DEF BlockAt
    <3>3. QED
      BY <1>11, <2>1, <3>2 DEF LaidOut
  <2>2. CASE i = Len(bs) + 1
    <3>1. i - 1 = Len(bs) /\ Len(bs) \in 0..Len(bs)
      BY <1>7, <2>2
    <3>2. Sums(cs)[i - 1] = LenOf(bs)
      BY <1>7, <3>1 DEF LenOf
    <3>3. BlockAt(cs, c.start, i) = e
      BY <1>2, <1>7, <1>8, <2>2, <3>2 DEF BlockAt, len
    <3>4. QED
      BY <1>10, <3>3
  <2>3. QED
    BY <1>7, <2>1, <2>2
<1>13. LaidOut(stream', c.start, cs)
  BY <1>12 DEF LaidOut
<1>14. QED
  BY <1>2, <1>4, <1>5, <1>6, <1>9, <1>13 DEF cs

LEMMA PushInFileKeeps ==
    ASSUME IInv, NEW b \in Blocks, PushInFile(b)
    PROVE  IInv'
<1> DEFINE len == BlockLen[b]
           end == c.end + len
           e == Plain(b, c.end, len)
<1>1. /\ len \in Nat /\ len > 0 /\ c.end \in Nat /\ c.start \in Nat /\ eof \in Nat
      /\ c.offset \in Nat
      /\ stream \in [Positions -> Extents] /\ StreamMax \in Nat /\ HeaderLen = 12
  BY TypeFacts, ConstantTypes DEF IInv
<1>2. ~InMemory /\ c.writing /\ phase = "open"
  BY DEF IInv, WhereItIs, PushInFile
<1>3. PICK n \in Nat, m \in MetaSizes :
        /\ Headed(stream, c.offset, n, m)
        /\ "open" \notin MetaPhases => m = c.meta
        /\ c.start = c.offset + HeaderLen + m /\ c.end = eof
  BY <1>2 DEF IInv, OpenInPlace
<1>4. PICK bs \in Seq(Blocks) : LaidOut(stream, c.start, bs) /\ c.end = c.start + LenOf(bs)
  BY <1>2 DEF IInv, FileBlocks
<1>5. m \in Nat /\ LenOf(bs) \in Nat
  BY ConstantTypes, LenOfType
<1>6. /\ e \in Extents /\ e.at = c.end /\ End(e) = end
  BY <1>1 DEF Plain, Extent, Extents, End
<1>7. /\ end <= StreamMax /\ stream' = Put(stream, e) /\ eof' = end /\ wpos' = end
      /\ moved' = FALSE /\ UNCHANGED <<phase, kept, closed>>
      /\ c' = [c EXCEPT !.end = end]
  <2>1. /\ End(e) <= StreamMax /\ stream' = Put(stream, e)
        /\ eof' = (IF End(e) > eof THEN End(e) ELSE eof) /\ wpos' = End(e)
        /\ moved' = FALSE /\ UNCHANGED <<phase, kept, closed>>
        /\ c' = [c EXCEPT !.end = End(e)]
    BY DEF PushInFile, BlockPos
  <2>2. end > eof
    BY <1>1, <1>3
  <2> HIDE DEF e, end, len
  <2>3. QED
    BY <1>6, <2>1, <2>2
<1>8. stream' \in [Positions -> Extents] /\ Whole(stream', e)
  <2>1. End(e) <= StreamMax
    BY <1>6, <1>7
  <2> HIDE DEF e
  <2>2. QED
    BY <1>1, <1>6, <1>7, <2>1, PutType, PutWhole
<1>9. \A p \in Nat : p < eof => stream'[p] = stream[p]
  <2>1. \A p \in Nat : p < eof => p \in Positions
    BY <1>1, TypeFacts DEF IInv, Positions
  <2> HIDE DEF e
  <2>2. QED
    BY <1>1, <1>3, <1>6, <1>7, <2>1, PutAt
<1>10. end \in Nat
  BY <1>1
<1> HIDE DEF e, end, len
<1>11. /\ c' \in [flavour : {"memory", "file"}, offset : Nat, meta : MetaSizes,
              writing : BOOLEAN, blocks : Seq(Blocks), start : Nat, end : Nat]
       /\ c'.offset = c.offset /\ c'.meta = c.meta /\ c'.writing = c.writing
       /\ c'.flavour = c.flavour /\ c'.start = c.start /\ c'.end = end
  BY <1>7, <1>10 DEF IInv, TypeOK
<1>12. InMemory' = InMemory
  BY <1>11 DEF InMemory
<1>13. TypeOK'
  <2>1. eof' \in 0..StreamMax /\ wpos' \in 0..StreamMax /\ moved' \in BOOLEAN
    <3>1. end \in 0..StreamMax
      BY <1>1, <1>7, <1>10
    <3>2. QED
      BY <1>7, <3>1
  <2>2. phase' \in Phases /\ closed' \in Seq(Nat)
    BY <1>7 DEF IInv, TypeOK
  <2>3. QED
    BY <1>8, <1>11, <2>1, <2>2 DEF TypeOK
<1>14. WhereItIs'
  BY <1>2, <1>7, <1>11 DEF IInv, WhereItIs
<1>15. Frontier' = Frontier /\ Frontier = c.offset
  BY <1>2, <1>7, <1>11 DEF Frontier
<1>16. KeptBehind' /\ Chained'
  <2>1. \A p \in Nat : p < Frontier => stream'[p] = stream[p]
    BY <1>1, <1>3, <1>4, <1>5, <1>9, <1>15
  <2>2. QED
    BY <1>7, <1>15, <2>1, BehindFrontier
<1>17. OpenInPlace'
  <2>1. Headed(stream', c.offset, n, m)
    <3>1. \A p \in Nat : c.offset <= p /\ p < c.offset + HeaderLen + m =>
             stream'[p] = stream[p]
      BY <1>1, <1>3, <1>4, <1>5, <1>9
    <3>2. QED
      BY <1>1, <1>3, <1>5, <3>1, HeadedStays
  <2>2. c'.start = c'.offset + HeaderLen + m /\ c'.end = eof' /\ ~InMemory'
    BY <1>2, <1>3, <1>7, <1>11, <1>12
  <2>3. "open" \notin MetaPhases => m = c'.meta
    BY <1>3, <1>11
  <2>4. Headed(stream', c'.offset, n, m)
    BY <1>11, <2>1
  <2>5. QED
    BY <2>2, <2>3, <2>4 DEF OpenInPlace
<1>18. FileBlocks'
  <2>1. PICK old \in Seq(Blocks) :
          /\ LaidOut(stream', c.start, Append(old, b))
          /\ c'.start = c.start /\ c'.end = c.start + LenOf(Append(old, b))
    BY PushInFileFacts
  <2>2. Append(old, b) \in Seq(Blocks)
    BY SumsAppend
  <2>3. c'.end = eof' /\ eof' \in Nat
    BY <1>7, <1>10, <1>11
  <2>4. c'.end <= eof'
    BY <2>3
  <2>5. QED
    BY <2>1, <2>2, <2>4 DEF FileBlocks
<1>19. QED
  BY <1>13, <1>14, <1>16, <1>17, <1>18 DEF IInv

(* What finalise() leaves in the stream.                                   *)
FinalBlocks(e, bs, from) == \E i \in 1..Len(bs) : e = BlockAt(bs, from, i)

Final(bs, m) ==
    LET from == c.offset + HeaderLen + m IN
    /\ Headed(stream', c.offset, c.meta + LenOf(bs), m)
    /\ LaidOut(stream', from, bs)
    /\ eof' = from + LenOf(bs) /\ eof <= eof' /\ eof' <= StreamMax
    /\ stream' \in [Positions -> Extents]
    /\ \A p \in Nat : p < c.offset => stream'[p] = stream[p]
    /\ "open" \notin MetaPhases => m = c.meta
    /\ \A e \in kept' : \/ e \in kept
                        \/ FinalBlocks(e, bs, from)
                        \/ e = Plain("ClusterID", c.offset, IdLen)
                        \/ e = Plain("Meta", c.offset + HeaderLen, m)
    /\ IF InMemory THEN bs = c.blocks
       ELSE LaidOut(stream, c.start, bs) /\ c.start = from /\ c.end = from + LenOf(bs)

(* The first byte of an element tells which it is.                         *)
LEMMA FirstByte ==
    ASSUME NEW s, NEW e \in Extents, Whole(s, e), e.at < End(e)
    PROVE  s[e.at] = e
BY ExtentType DEF Whole, Bytes

LEMMA FinaliseFacts ==
    ASSUME IInv, Finalise
    PROVE  \E bs \in Seq(Blocks), m \in MetaSizes : Final(bs, m)
<1> DEFINE o == c.offset
           blocks == IF InMemory THEN Laid(c.blocks, wpos)
                     ELSE {stream[p] : p \in c.start..(c.end - 1)}
           end == IF InMemory THEN wpos + LenOf(c.blocks) ELSE wpos
           w == IF InMemory THEN PutAll(stream, blocks) ELSE stream
<1>1. /\ phase = "open" /\ c.writing /\ (InMemory => ~moved)
      /\ end <= StreamMax /\ stream' = Put(w, SizeField(o, BodySize))
      /\ eof' = (IF end > eof THEN end ELSE eof)
      /\ kept' = kept \cup blocks \cup {stream[o], stream[o + HeaderLen]}
  BY DEF Finalise
<1>2. /\ stream \in [Positions -> Extents] /\ o \in Nat /\ c.meta \in Nat
      /\ eof \in Nat /\ eof <= StreamMax /\ wpos \in Nat /\ StreamMax \in Nat
      /\ c.blocks \in Seq(Blocks) /\ LenOf(c.blocks) \in Nat
      /\ c.start \in Nat /\ c.end \in Nat
      /\ HeaderLen = 12 /\ IdLen = 4
  BY TypeFacts, LenOfType, ConstantTypes DEF IInv
<1>3. PICK n \in Nat, m \in MetaSizes :
        /\ Headed(stream, o, n, m)
        /\ "open" \notin MetaPhases => m = c.meta
        /\ IF InMemory THEN eof = o + HeaderLen + m
           ELSE c.start = o + HeaderLen + m /\ c.end = eof
  BY <1>1 DEF IInv, OpenInPlace
<1> DEFINE from == o + HeaderLen + m
<1>4. m \in Nat /\ m > 0 /\ from = o + 12 + m /\ from \in Nat
  BY <1>2, ConstantTypes
<1> HIDE DEF from
<1>5. stream[o] = Plain("ClusterID", o, IdLen)
  <2> DEFINE e == Plain("ClusterID", o, IdLen)
  <2>1. e \in Extents /\ e.at = o /\ End(e) = o + 4 /\ Whole(stream, e)
    BY <1>2, <1>3, <1>4, HeaderTypes DEF Headed
  <2> HIDE DEF e
  <2>2. e.at < End(e)
    BY <1>2, <2>1
  <2>3. stream[o] = e
    BY <2>1, <2>2, FirstByte
  <2>4. QED
    BY <2>3 DEF e
<1>6. stream[o + HeaderLen] = Plain("Meta", o + HeaderLen, m)
  <2> DEFINE e == Plain("Meta", o + HeaderLen, m)
  <2>1. e \in Extents /\ e.at = o + 12 /\ End(e) = o + 12 + m /\ Whole(stream, e)
    <3>1. e \in Extents /\ e.at = o + 12 /\ End(e) = o + 12 + m
      BY <1>2, <1>4, HeaderTypes
    <3>2. Whole(stream, e)
      BY <1>3 DEF Headed
    <3>3. QED
      BY <3>1, <3>2
  <2> HIDE DEF e
  <2>2. e.at < End(e)
    BY <1>2, <1>4, <2>1
  <2>3. stream[o + HeaderLen] = e
    BY <1>2, <2>1, <2>2, FirstByte
  <2>4. QED
    BY <2>3 DEF e
(* Where the blocks are in the stream before the size goes over it.        *)
<1>7. \E bs \in Seq(Blocks) :
        /\ LaidOut(w, from, bs)
        /\ w \in [Positions -> Extents]
        /\ \A p \in Nat : p < from => w[p] = stream[p]
        /\ eof' = from + LenOf(bs) /\ eof <= eof' /\ eof' <= StreamMax
        /\ BodySize = c.meta + LenOf(bs)
        /\ \A e \in blocks : FinalBlocks(e, bs, from)
        /\ IF InMemory THEN bs = c.blocks
           ELSE LaidOut(stream, c.start, bs) /\ c.start = from /\ c.end = from + LenOf(bs)
  <2>1. CASE InMemory
    <3>1. wpos = from /\ eof = from
      BY <1>1, <1>3, <2>1 DEF IInv, WhereItIs, from
    <3>2. /\ blocks = Laid(c.blocks, from) /\ w = PutAll(stream, Laid(c.blocks, from))
          /\ end = from + LenOf(c.blocks)
      BY <2>1, <3>1
    <3>3. eof' = from + LenOf(c.blocks) /\ eof <= eof' /\ eof' <= StreamMax
      <4>1. LenOf(c.blocks) > 0 \/ LenOf(c.blocks) = 0
        BY <1>2
      <4> HIDE DEF end
      <4>2. QED
        BY <1>1, <1>2, <1>4, <3>1, <3>2, <4>1, SMTT(30)
    <3>4. BodySize = c.meta + LenOf(c.blocks)
      BY <2>1 DEF BodySize
    <3> DEFINE t == PutAll(stream, Laid(c.blocks, from))
    <3> HIDE DEF end, blocks, w
    <3>5. /\ DOMAIN t = Positions
          /\ \A p \in Positions :
                \/ t[p] \in Laid(c.blocks, from) /\ from <= p /\ p < from + LenOf(c.blocks)
                \/ t[p] = stream[p] /\ ~(from <= p /\ p < from + LenOf(c.blocks))
          /\ LaidOut(t, from, c.blocks)
      BY <1>2, <1>4, <3>3, PutAllLaid
    <3>6. \A e \in Laid(c.blocks, from) : FinalBlocks(e, c.blocks, from) /\ e \in Extents
      <4>1. \A i \in 1..Len(c.blocks) : BlockAt(c.blocks, from, i) \in Extents
        BY <1>2, <1>4, BlockAtType
      <4>2. QED
        BY <4>1 DEF Laid, FinalBlocks
    <3>7. \A p \in Positions : t[p] \in Extents
      BY <1>2, <3>5, <3>6
    <3>8. t = [p \in Positions |-> t[p]]
      BY <3>5 DEF PutAll
    <3> HIDE DEF t
    <3>9. t \in [Positions -> Extents]
      BY <3>7, <3>8
    <3>10. \A p \in Nat : p < from => p \in Positions /\ t[p] = stream[p]
      <4>1. \A p \in Nat : p < from => p \in Positions
        BY <1>2, <1>4, <3>1 DEF Positions
      <4>2. QED
        BY <1>4, <3>5, <4>1
    <3>11. w = t
      BY <3>2 DEF t
    <3>12. QED
      BY <1>2, <2>1, <3>2, <3>3, <3>4, <3>5, <3>6, <3>9, <3>10, <3>11
  <2>2. CASE ~InMemory
    <3>1. c.start = from /\ c.end = eof /\ end = wpos /\ w = stream
      BY <1>3, <2>2 DEF from
    <3>2. PICK bs \in Seq(Blocks) : LaidOut(stream, c.start, bs) /\ c.end = c.start + LenOf(bs)
      BY <2>2 DEF IInv, FileBlocks
    <3>3. eof' = eof
      <4>1. wpos <= eof
        BY <1>2 DEF IInv, WhereItIs
      <4>2. QED
        BY <1>1, <1>2, <3>1, <4>1
    <3>4. LenOf(bs) \in Nat
      BY LenOfType
    <3> HIDE DEF end, w
    <3>5. BodySize = c.meta + LenOf(bs)
      <4>1. c.end - c.start = LenOf(bs)
        BY <1>2, <3>2, <3>4
      <4>2. QED
        BY <2>2, <4>1 DEF BodySize
    <3>6. ASSUME NEW e \in blocks PROVE FinalBlocks(e, bs, from)
      <4>1. PICK p \in c.start..(c.end - 1) : e = stream[p]
        BY <2>2
      <4>2. p - from \in Nat /\ p - from < LenOf(bs) /\ p \in Nat
        <5>1. c.start = from /\ c.end = from + LenOf(bs)
          BY <3>1, <3>2
        <5>2. QED
          BY <1>4, <3>4, <5>1
      <4>3. PICK i \in 1..Len(bs) : Sums(bs)[i - 1] <= p - from /\ p - from < Sums(bs)[i]
        BY <4>2, InSomeBlock
      <4>4. Sums(bs)[i - 1] \in Nat /\ Sums(bs)[i] \in Nat
        <5>1. i - 1 \in 0..Len(bs) /\ i \in 0..Len(bs)
          OBVIOUS
        <5>2. QED
          BY <5>1, SumsStep
      <4> DEFINE d == BlockAt(bs, from, i)
      <4>5. d.at = from + Sums(bs)[i - 1] /\ End(d) = from + Sums(bs)[i]
        BY <1>4, BlockAtType
      <4>6. Whole(stream, d)
        BY <3>1, <3>2 DEF LaidOut
      <4> HIDE DEF d
      <4>7. p \in Bytes(d)
        <5> DEFINE x == Sums(bs)[i - 1]
                   y == Sums(bs)[i]
        <5>0. /\ x \in Nat /\ y \in Nat /\ x <= p - from /\ p - from < y
              /\ d.at = from + x /\ End(d) = from + y
          BY <4>3, <4>4, <4>5
        <5> HIDE DEF x, y
        <5>1. d.at <= p /\ p < End(d) /\ d.at \in Nat /\ End(d) \in Nat
          BY <1>4, <4>2, <5>0
        <5>2. QED
          BY <4>2, <5>1 DEF Bytes
      <4>8. e = d
        BY <4>1, <4>6, <4>7 DEF Whole
      <4>9. QED
        BY <4>8 DEF FinalBlocks, d
    <3>7. /\ LaidOut(w, from, bs) /\ w \in [Positions -> Extents]
          /\ \A p \in Nat : p < from => w[p] = stream[p]
      BY <1>2, <3>1, <3>2
    <3>8. eof' = from + LenOf(bs) /\ eof <= eof' /\ eof' <= StreamMax
      <4>1. eof = from + LenOf(bs)
        BY <3>1, <3>2
      <4>2. QED
        BY <1>2, <3>3, <4>1
    <3>9. LaidOut(stream, c.start, bs) /\ c.start = from /\ c.end = from + LenOf(bs)
      BY <3>1, <3>2
    <3> HIDE DEF blocks
    <3>10. QED
      BY <2>2, <3>5, <3>6, <3>7, <3>8, <3>9
  <2>3. QED
    BY <2>1, <2>2
<1>8. PICK bs \in Seq(Blocks) :
        /\ LaidOut(w, from, bs)
        /\ w \in [Positions -> Extents]
        /\ \A p \in Nat : p < from => w[p] = stream[p]
        /\ eof' = from + LenOf(bs) /\ eof <= eof' /\ eof' <= StreamMax
        /\ BodySize = c.meta + LenOf(bs)
        /\ \A e \in blocks : FinalBlocks(e, bs, from)
        /\ IF InMemory THEN bs = c.blocks
           ELSE LaidOut(stream, c.start, bs) /\ c.start = from /\ c.end = from + LenOf(bs)
  BY <1>7
<1> HIDE DEF blocks, end, w
<1> DEFINE n2 == c.meta + LenOf(bs)
           field == SizeField(o, n2)
<1>9. n2 \in Nat /\ LenOf(bs) \in Nat
  BY <1>2, LenOfType
<1>10. /\ field \in Extents /\ field.at = o + 4 /\ End(field) = o + 12
       /\ stream' = Put(w, field) /\ End(field) <= StreamMax
  <2>1. stream' = Put(w, field)
    BY <1>1, <1>8
  <2>2. field \in Extents /\ field.at = o + 4 /\ End(field) = o + 12
    BY <1>2, <1>9, SizeFieldType
  <2>3. o + 12 <= StreamMax
    BY <1>2, <1>4, <1>8, <1>9, SMTT(30)
  <2> HIDE DEF field
  <2>4. End(field) <= StreamMax
    BY <2>2, <2>3
  <2>5. QED
    BY <2>1, <2>2, <2>4
<1>11. stream' \in [Positions -> Extents] /\ Whole(stream', field)
  <2> HIDE DEF field
  <2>1. QED
    BY <1>8, <1>10, PutType, PutWhole
<1>12. /\ \A p \in Nat : p < o + 4 => stream'[p] = stream[p]
       /\ \A p \in Nat : o + 12 <= p /\ p < from => stream'[p] = stream[p]
       /\ \A p \in Nat : from <= p /\ p < from + LenOf(bs) => stream'[p] = w[p]
  <2>1. \A p \in Nat : p < from + LenOf(bs) => p \in Positions
    BY <1>2, <1>4, <1>8, <1>9 DEF Positions
  <2> HIDE DEF field
  <2>2. \A p \in Positions : ~(o + 4 <= p /\ p < o + 12) => stream'[p] = w[p]
    BY <1>10, PutAt
  <2>0. from = o + 12 + m /\ o \in Nat /\ m \in Nat /\ LenOf(bs) \in Nat
    BY <1>2, <1>4, <1>9
  <2>3. ASSUME NEW p \in Nat, p < o + 4 PROVE stream'[p] = stream[p]
    BY <1>8, <2>0, <2>1, <2>2, <2>3, SMTT(30)
  <2>4. ASSUME NEW p \in Nat, o + 12 <= p, p < from PROVE stream'[p] = stream[p]
    BY <1>8, <2>0, <2>1, <2>2, <2>4, SMTT(30)
  <2>5. ASSUME NEW p \in Nat, from <= p, p < from + LenOf(bs) PROVE stream'[p] = w[p]
    BY <2>0, <2>1, <2>2, <2>5
  <2>6. QED
    BY <2>3, <2>4, <2>5
<1>13. Headed(stream', o, n2, m)
  <2> DEFINE id == Plain("ClusterID", o, IdLen)
             meta == Plain("Meta", o + HeaderLen, m)
  <2>1. /\ id \in Extents /\ id.at = o /\ End(id) = o + 4
        /\ meta \in Extents /\ meta.at = o + 12 /\ End(meta) = from
    BY <1>2, <1>4, HeaderTypes
  <2>2. Whole(stream, id) /\ Whole(stream, meta)
    BY <1>3 DEF Headed
  <2> HIDE DEF id, meta, field
  <2>3. Whole(stream', id) /\ Whole(stream', meta)
    <3>1. \A p \in Nat : id.at <= p /\ p < End(id) => stream'[p] = stream[p]
      BY <1>12, <2>1
    <3>2. \A p \in Nat : meta.at <= p /\ p < End(meta) => stream'[p] = stream[p]
      BY <1>12, <2>1
    <3>3. QED
      BY <2>1, <2>2, <3>1, <3>2, WholeStays
  <2>4. QED
    BY <1>11, <2>3 DEF Headed, id, meta, field
<1>14. LaidOut(stream', from, bs)
  BY <1>4, <1>8, <1>12, LaidOutStays
<1>15. \A e \in kept' : \/ e \in kept
                        \/ FinalBlocks(e, bs, from)
                        \/ e = Plain("ClusterID", o, IdLen)
                        \/ e = Plain("Meta", o + HeaderLen, m)
  BY <1>1, <1>5, <1>6, <1>8
<1>16. \A p \in Nat : p < o => stream'[p] = stream[p]
  BY <1>2, <1>12
<1>17. Final(bs, m)
  BY <1>3, <1>8, <1>11, <1>13, <1>14, <1>15, <1>16 DEF Final, from
<1>18. QED
  BY <1>17

LEMMA FinaliseKeeps ==
    ASSUME IInv, Finalise
    PROVE  IInv'
<1> DEFINE o == c.offset
           n == Len(closed)
<1>1. PICK bs \in Seq(Blocks), m \in MetaSizes : Final(bs, m)
  BY FinaliseFacts
<1> DEFINE from == o + HeaderLen + m
<1>2. /\ phase = "open" /\ phase' = "closed" /\ moved' = moved
      /\ c' = [c EXCEPT !.writing = FALSE] /\ closed' = Append(closed, o)
  BY DEF Finalise
<1>3. /\ Headed(stream', o, m + LenOf(bs), m) \/ "open" \in MetaPhases
      /\ Headed(stream', o, c.meta + LenOf(bs), m)
      /\ LaidOut(stream', from, bs)
      /\ eof' = from + LenOf(bs) /\ eof <= eof' /\ eof' <= StreamMax
      /\ stream' \in [Positions -> Extents]
      /\ \A p \in Nat : p < o => stream'[p] = stream[p]
      /\ \A e \in kept' : \/ e \in kept
                          \/ FinalBlocks(e, bs, from)
                          \/ e = Plain("ClusterID", o, IdLen)
                          \/ e = Plain("Meta", o + HeaderLen, m)
      /\ ~InMemory => c.start = from /\ c.end = from + LenOf(bs)
  BY <1>1 DEF Final
<1>4. /\ o \in Nat /\ m \in Nat /\ m > 0 /\ LenOf(bs) \in Nat /\ HeaderLen = 12
      /\ n \in Nat /\ eof \in Nat /\ wpos \in Nat /\ StreamMax \in Nat
      /\ c.meta \in Nat /\ LenOf(c.blocks) \in Nat
      /\ closed \in Seq(Nat) /\ \A i \in 1..n : closed[i] \in Nat
  BY TypeFacts, ConstantTypes, LenOfType DEF IInv, TypeOK
<1>5. from = o + 12 + m /\ from \in Nat /\ eof' \in Nat /\ o <= eof' /\ from <= eof'
  <2>1. from = o + 12 + m /\ from \in Nat
    BY <1>4
  <2>2. eof' = from + LenOf(bs)
    BY <1>3
  <2> HIDE DEF o, from
  <2>3. QED
    BY <1>4, <2>1, <2>2
<1> HIDE DEF from
<1>6. /\ c' \in [flavour : {"memory", "file"}, offset : Nat, meta : MetaSizes,
              writing : BOOLEAN, blocks : Seq(Blocks), start : Nat, end : Nat]
      /\ c'.offset = o /\ c'.writing = FALSE /\ c'.flavour = c.flavour
      /\ c'.start = c.start /\ c'.end = c.end
  BY <1>2 DEF IInv, TypeOK
<1>7. InMemory' = InMemory
  BY <1>6 DEF InMemory
<1>8. wpos' = IF moved THEN 0 ELSE eof'
  <2>1. wpos = IF moved THEN 0 ELSE eof
    BY DEF IInv, WhereItIs
  <2>2. CASE InMemory
    <3>1. /\ ~moved /\ wpos' = wpos + LenOf(c.blocks)
          /\ eof' = (IF wpos + LenOf(c.blocks) > eof THEN wpos + LenOf(c.blocks) ELSE eof)
      BY <2>2 DEF Finalise, BackTo
    <3>2. QED
      BY <1>4, <2>1, <3>1
  <2>3. CASE ~InMemory
    <3>1. wpos' = wpos /\ eof' = (IF wpos > eof THEN wpos ELSE eof)
      BY <2>3 DEF Finalise, BackTo
    <3>2. QED
      BY <1>4, <2>1, <3>1
  <2>4. QED
    BY <2>2, <2>3
<1>9. TypeOK'
  <2>1. eof' \in 0..StreamMax /\ wpos' \in 0..StreamMax
    BY <1>3, <1>4, <1>5, <1>8
  <2>2. moved' \in BOOLEAN
    BY <1>2 DEF IInv, TypeOK
  <2>3. phase' \in Phases /\ closed' \in Seq(Nat)
    BY <1>2, <1>4 DEF Phases
  <2>4. QED
    BY <1>3, <1>6, <2>1, <2>2, <2>3 DEF TypeOK
<1>10. WhereItIs'
  BY <1>2, <1>6, <1>8 DEF WhereItIs
<1>11. Frontier = o /\ Frontier' = eof'
  BY <1>2 DEF Frontier
<1>12. ASSUME NEW e \in kept'
       PROVE  e \in Extents /\ End(e) <= eof' /\ Whole(stream', e)
  <2>1. CASE e \in kept
    <3>1. e \in Extents /\ End(e) <= o /\ Whole(stream, e)
      BY <1>11, <2>1 DEF IInv, KeptBehind
    <3>2. \A p \in Nat : e.at <= p /\ p < End(e) => stream'[p] = stream[p]
      BY <1>3, <1>4, <3>1, ExtentType, SMTT(30)
    <3>3. End(e) <= eof'
      BY <1>4, <1>5, <3>1, ExtentType
    <3>4. QED
      BY <3>1, <3>2, <3>3, WholeStays
  <2>2. CASE FinalBlocks(e, bs, from)
    <3>1. PICK i \in 1..Len(bs) : e = BlockAt(bs, from, i)
      BY <2>2 DEF FinalBlocks
    <3>2. e \in Extents /\ End(e) <= from + LenOf(bs)
      BY <1>5, <3>1, BlockAtType
    <3>3. Whole(stream', e)
      BY <1>3, <3>1 DEF LaidOut
    <3>4. QED
      BY <1>3, <3>2, <3>3
  <2>3. CASE e = Plain("ClusterID", o, IdLen)
    <3>1. e \in Extents /\ End(e) = o + 4 /\ Whole(stream', e)
      BY <1>3, <1>4, <2>3, HeaderTypes DEF Headed
    <3>2. o + 4 <= eof'
      BY <1>4, <1>5
    <3>3. QED
      BY <3>1, <3>2
  <2>4. CASE e = Plain("Meta", o + HeaderLen, m)
    <3>1. e \in Extents /\ End(e) = o + 12 + m /\ Whole(stream', e)
      BY <1>3, <1>4, <2>4, HeaderTypes DEF Headed
    <3>2. QED
      BY <1>5, <3>1
  <2>5. QED
    BY <1>3, <2>1, <2>2, <2>3, <2>4
<1>13. KeptBehind'
  BY <1>11, <1>12 DEF KeptBehind
<1>14. OpenInPlace'
  BY <1>2 DEF OpenInPlace
<1>15. FileBlocks'
  <2> SUFFICES ASSUME ~InMemory
               PROVE  /\ LaidOut(stream', c'.start, bs)
                      /\ c'.end = c'.start + LenOf(bs) /\ c'.end <= eof'
    BY <1>7 DEF FileBlocks
  <2>1. c'.start = from /\ c'.end = from + LenOf(bs)
    BY <1>3, <1>6
  <2>2. QED
    BY <1>3, <1>5, <2>1
<1>16. ASSUME "open" \notin MetaPhases, NEW i \in 1..Len(closed')
       PROVE  Sealed(stream', closed'[i], Successor(i)') /\ Successor(i)' <= eof'
  <2>0. Len(closed') = n + 1 /\ closed'[n + 1] = o /\ \A j \in 1..n : closed'[j] = closed[j]
    BY <1>2, <1>4
  <2>1. CASE i \in 1..n
    <3>1. Successor(i)' = Successor(i)
      <4>1. CASE i = n
        <5>1. Successor(i) = o
          BY <1>4, <1>11, <4>1 DEF Successor
        <5>2. i < Len(closed') /\ closed'[i + 1] = o
          BY <1>4, <2>0, <4>1
        <5>3. QED
          BY <5>1, <5>2 DEF Successor
      <4>2. CASE i < n
        <5>1. i < Len(closed') /\ i + 1 \in 1..n
          BY <1>4, <2>0, <2>1, <4>2
        <5>2. QED
          BY <2>0, <4>2, <5>1 DEF Successor
      <4>3. QED
        BY <1>4, <2>1, <4>1, <4>2
    <3>2. Sealed(stream, closed[i], Successor(i)) /\ Successor(i) <= o
      BY <1>11, <1>16, <2>1 DEF IInv, Chained
    <3>3. Successor(i) \in Nat
      <4>1. i < n => i + 1 \in 1..n
        BY <1>4, <2>1
      <4>2. QED
        BY <1>4, <1>11, <4>1 DEF Successor
    <3>4. \A p \in Nat : p < Successor(i) => stream'[p] = stream[p]
      BY <1>3, <1>4, <3>2, <3>3
    <3>5. Sealed(stream', closed[i], Successor(i))
      BY <1>4, <2>1, <3>2, <3>4, SealedStays
    <3>6. Successor(i) <= eof'
      BY <1>4, <1>5, <3>2, <3>3
    <3>7. closed'[i] = closed[i]
      BY <2>0, <2>1
    <3>8. QED
      BY <3>1, <3>5, <3>6, <3>7
  <2>2. CASE i = n + 1
    <3>1. Successor(i)' = eof' /\ closed'[i] = o
      BY <1>4, <1>11, <2>0, <2>2 DEF Successor
    <3>2. SealedWith(stream', o, eof', bs, m)
      BY <1>3, <1>16 DEF SealedWith, from
    <3>3. Sealed(stream', o, eof')
      BY <3>2 DEF Sealed
    <3>4. QED
      BY <1>5, <3>1, <3>3
  <2>3. QED
    BY <1>4, <2>0, <2>1, <2>2
<1>17. Chained'
  BY <1>11, <1>16 DEF Chained
<1>18. QED
  BY <1>9, <1>10, <1>13, <1>14, <1>15, <1>17 DEF IInv

LEMMA InitKeeps ==
    ASSUME Init
    PROVE  IInv
<1> DEFINE before == Plain("Before", 0, Start)
<1>1. PICK f \in Flavours, n \in MetaSizes : c = New(f, n)
  BY DEF Init
<1>2. /\ stream = [p \in Positions |-> IF p < Start THEN before ELSE Free]
      /\ eof = Start /\ wpos = Start /\ moved = FALSE /\ phase = "new"
      /\ kept = {before} /\ closed = <<>>
  BY DEF Init
<1>3. Start \in Nat /\ Start \in 0..StreamMax /\ StreamMax \in Nat
  BY ConstantTypes
<1>4. before \in Extents /\ before.at = 0 /\ End(before) = Start /\ Free \in Extents
  BY <1>3 DEF Plain, Free, Extent, Extents, End, OwnKinds
<1> HIDE DEF before
<1>5. stream \in [Positions -> Extents]
  BY <1>2, <1>4
<1>6. Whole(stream, before)
  BY <1>2, <1>3, <1>4 DEF Whole, Bytes, Positions
<1>7. c \in [flavour : {"memory", "file"}, offset : Nat, meta : MetaSizes,
              writing : BOOLEAN, blocks : Seq(Blocks), start : Nat, end : Nat]
  BY <1>1, ConstantTypes DEF New
<1>8. c.writing = FALSE /\ c.start = 0 /\ c.end = 0
  BY <1>1 DEF New
<1>9. TypeOK
  <2>1. eof \in 0..StreamMax /\ wpos \in 0..StreamMax
    BY <1>2, <1>3
  <2>2. moved \in BOOLEAN /\ phase \in Phases
    BY <1>2 DEF Phases
  <2>3. closed \in Seq(Nat)
    BY <1>2
  <2>4. QED
    BY <1>5, <1>7, <2>1, <2>2, <2>3 DEF TypeOK
<1>10. WhereItIs /\ Frontier = Start
  BY <1>2, <1>8 DEF WhereItIs, Frontier
<1>11. KeptBehind
  BY <1>2, <1>3, <1>4, <1>6, <1>10 DEF KeptBehind
<1>12. OpenInPlace /\ Chained
  BY <1>2 DEF OpenInPlace, Chained
<1>13. FileBlocks
  <2>1. LaidOut(stream, 0, <<>>) /\ <<>> \in Seq(Blocks) /\ LenOf(<<>>) = 0
    BY NoBlocks
  <2>2. 0 <= eof
    BY <1>2, <1>3
  <2>3. c.end = c.start + LenOf(<<>>) /\ LaidOut(stream, c.start, <<>>) /\ c.end <= eof
    BY <1>8, <2>1, <2>2
  <2>4. QED
    BY <2>1, <2>3 DEF FileBlocks
<1>14. QED
  BY <1>9, <1>10, <1>11, <1>12, <1>13 DEF IInv

LEMMA NextKeeps ==
    ASSUME IInv, [Next]_vars
    PROVE  IInv'
<1>1. CASE \E n \in MetaSizes : SetMeta(n)
  BY <1>1, SetMetaKeeps
<1>2. CASE Write
  BY <1>2, WriteKeeps
<1>3. CASE \E b \in Blocks : PushInMemory(b) \/ PushInFile(b)
  BY <1>3, PushInMemoryKeeps, PushInFileKeeps
<1>4. CASE PushRefused \/ FinaliseRefused
  BY <1>4, RefusedKeeps
<1>5. CASE \E i, j \in 1..(Len(c.blocks) + 1) : i < j /\ Erase(i, j)
  BY <1>5, EraseKeeps
<1>6. CASE Finalise
  BY <1>6, FinaliseKeeps
<1>7. CASE Renew
  BY <1>7, RenewKeeps
<1>8. CASE MoveAway \/ MoveBack
  BY <1>8, MovesKeep
<1>9. CASE UNCHANGED vars
  <2>1. UNCHANGED <<stream, eof, wpos, moved, c, phase, kept, closed>>
    BY <1>9 DEF vars
  <2>2. TypeOK' /\ WhereItIs'
    BY <2>1 DEF IInv, TypeOK, WhereItIs
  <2>3. QED
    BY <2>1, <2>2, QuietKeeps
<1>10. QED
  BY <1>1, <1>2, <1>3, <1>4, <1>5, <1>6, <1>7, <1>8, <1>9 DEF Next

(* Whatever the clients do, everything before the open cluster is final,   *)
(* the open cluster begins as write() left it, and the blocks of a file    *)
(* cluster are those pushed into it, one behind the other.                 *)
THEOREM InvariantHolds == Spec => []IInv
<1>1. Init => IInv
  BY InitKeeps
<1>2. IInv /\ [Next]_vars => IInv'
  BY NextKeeps
<1>3. QED
  BY <1>1, <1>2, PTL DEF Spec

(* No byte of a finalised cluster, its size field aside, is ever written   *)
(* over: not by blocks of a later cluster, wherever the caller moves the   *)
(* position (file_cluster.cpp), nor by a size patched late                 *)
(* (cluster.cpp:finalise()).                                               *)
THEOREM NeverOverwritten == Spec => []NothingOverwritten
<1>1. IInv => NothingOverwritten
  BY DEF IInv, KeptBehind, NothingOverwritten
<1>2. QED
  BY <1>1, InvariantHolds, PTL

----------------------------------------------------------------------------
(* What a reader makes of the stream.                                      *)

LEMMA SealedField ==
    ASSUME NEW s, NEW o \in Nat, NEW n \in Nat, NEW m \in Nat, m > 0, Headed(s, o, n, m)
    PROVE  /\ s[o + IdLen] = SizeField(o, n)
           /\ s[o + HeaderLen] = Plain("Meta", o + HeaderLen, m)
<1> DEFINE field == SizeField(o, n)
           meta == Plain("Meta", o + HeaderLen, m)
<1>1. /\ field \in Extents /\ field.at = o + 4 /\ End(field) = o + 12
      /\ meta \in Extents /\ meta.at = o + 12 /\ End(meta) = o + 12 + m
      /\ IdLen = 4 /\ HeaderLen = 12
  BY HeaderTypes, SizeFieldType, ConstantTypes
<1>2. Whole(s, field) /\ Whole(s, meta)
  BY DEF Headed
<1> HIDE DEF field, meta
<1>3. field.at < End(field) /\ meta.at < End(meta)
  BY <1>1
<1>4. s[field.at] = field /\ s[meta.at] = meta
  BY <1>1, <1>2, <1>3, FirstByte
<1>5. s[o + 4] = field /\ s[o + 12] = meta
  BY <1>1, <1>4
<1>6. QED
  BY <1>1, <1>5 DEF field, meta

(* When metadata is not changed under an open cluster, the declared sizes  *)
(* lead from each closed cluster to the next one, and from the last one to *)
(* the open cluster or to the end of the stream (cluster.cpp:finalise()).  *)
(* Without the hypothesis they need not: memory_cluster.cpp:111 computes   *)
(* the size from members that may have changed since write().              *)
THEOREM SizesChain ==
    ASSUME "open" \notin MetaPhases
    PROVE  Spec => []DeclaredSizesChain
<1>1. IInv => DeclaredSizesChain
  <2> SUFFICES ASSUME IInv, NEW i \in 1..Len(closed)
               PROVE  LET field == stream[closed[i] + IdLen] IN
                      /\ field.kind = "ClusterSize" /\ field.at = closed[i] + IdLen
                      /\ Whole(stream, field)
                      /\ closed[i] + HeaderLen + field.size = Successor(i)
    BY DEF DeclaredSizesChain, Successor, Frontier
  <2> DEFINE o == closed[i]
             next == Successor(i)
  <2>1. PICK bs \in Seq(Blocks), m \in MetaSizes : SealedWith(stream, o, next, bs, m)
    BY DEF IInv, Chained, Sealed
  <2>2. /\ o \in Nat /\ LenOf(bs) \in Nat /\ m \in Nat /\ m > 0
        /\ IdLen = 4 /\ HeaderLen = 12
    BY TypeFacts, LenOfType, ConstantTypes DEF IInv
  <2> HIDE DEF o, next
  <2> DEFINE n == m + LenOf(bs)
             field == SizeField(o, n)
  <2>3. n \in Nat /\ next = o + HeaderLen + n /\ Headed(stream, o, n, m)
    BY <2>1, <2>2 DEF SealedWith
  <2> HIDE DEF n
  <2>4. /\ field.kind = "ClusterSize" /\ field.size = n /\ field.at = o + 4
        /\ Whole(stream, field) /\ stream[o + IdLen] = field
    BY <2>2, <2>3, SealedField, SizeFieldType DEF Headed
  <2>5. QED
    BY <2>2, <2>3, <2>4 DEF o, next
<1>2. QED
  BY <1>1, InvariantHolds, PTL

LEMMA SealedReads ==
    ASSUME NEW s \in [Positions -> Extents], NEW o \in Nat, NEW next \in Nat,
           next <= StreamMax, NEW bs \in Seq(Blocks), NEW m \in MetaSizes,
           SealedWith(s, o, next, bs, m)
    PROVE  BlocksOf(s, o) = bs
<1> DEFINE from == o + HeaderLen + m
           n == m + LenOf(bs)
<1>1. LenOf(bs) \in Nat /\ m \in Nat /\ m > 0 /\ HeaderLen = 12
  BY LenOfType, ConstantTypes
<1>2. /\ n \in Nat /\ from \in Nat /\ next = from + LenOf(bs)
      /\ o + HeaderLen + n = from + LenOf(bs)
      /\ Headed(s, o, n, m) /\ LaidOut(s, from, bs)
  BY <1>1 DEF SealedWith
<1>3. End(Plain("Meta", o + HeaderLen, m)) = from
  BY <1>1, HeaderTypes
<1>4. SizeField(o, n).size = n
  BY <1>2, SizeFieldType
<1> HIDE DEF n, from
<1>5. End(s[o + HeaderLen]) = from /\ s[o + IdLen].size = n
  BY <1>1, <1>2, <1>3, <1>4, SealedField
<1>6. BlocksOf(s, o) = BlocksIn(s, from, from + LenOf(bs))
  BY <1>2, <1>5 DEF BlocksOf
<1>7. QED
  BY <1>2, <1>6, ReadsBack

LEMMA FrontierBound ==
    ASSUME IInv
    PROVE  Frontier \in Nat /\ Frontier <= eof /\ eof <= StreamMax /\ eof \in Nat
<1>1. Frontier \in Nat /\ eof \in Nat /\ eof <= StreamMax /\ c.offset \in Nat
  BY TypeFacts DEF IInv
<1>2. CASE phase = "open"
  <2>1. PICK m \in MetaSizes :
          IF InMemory THEN eof = c.offset + HeaderLen + m
          ELSE c.start = c.offset + HeaderLen + m /\ c.end = eof
    BY <1>2 DEF IInv, OpenInPlace
  <2>2. m \in Nat /\ HeaderLen = 12
    BY ConstantTypes
  <2>3. c.offset <= eof
    <3>1. CASE InMemory
      BY <1>1, <2>1, <2>2, <3>1
    <3>2. CASE ~InMemory
      <4>1. PICK bs \in Seq(Blocks) : c.end = c.start + LenOf(bs)
        BY <3>2 DEF IInv, FileBlocks
      <4>2. LenOf(bs) \in Nat
        BY LenOfType
      <4>3. QED
        BY <1>1, <2>1, <2>2, <3>2, <4>1, <4>2
    <3>3. QED
      BY <3>1, <3>2
  <2>4. QED
    BY <1>1, <1>2, <2>3 DEF Frontier
<1>3. CASE phase # "open"
  BY <1>1, <1>3 DEF Frontier
<1>4. QED
  BY <1>2, <1>3

----------------------------------------------------------------------------
(* The log of clusters, as a reader finds it, and the cluster at hand.     *)

Contents == IF InMemory THEN c.blocks ELSE BlocksIn(stream, c.start, c.end)

Recovered == [i \in 1..Len(closed) |-> BlocksOf(stream, closed[i])]

(* Nothing closed reads differently after a step that leaves what lies     *)
(* before the frontier alone.                                              *)
LEMMA ReadsTheSame ==
    ASSUME "open" \notin MetaPhases, IInv, stream' \in [Positions -> Extents],
           \A p \in Nat : p < Frontier => stream'[p] = stream[p],
           NEW i \in 1..Len(closed)
    PROVE  BlocksOf(stream', closed[i]) = BlocksOf(stream, closed[i])
<1> DEFINE o == closed[i]
           next == Successor(i)
<1>1. /\ Frontier \in Nat /\ Frontier <= StreamMax /\ StreamMax \in Nat
      /\ o \in Nat /\ stream \in [Positions -> Extents]
  BY FrontierBound, TypeFacts, ConstantTypes DEF IInv
<1>2. Sealed(stream, o, next) /\ next <= Frontier
  BY DEF IInv, Chained
<1>3. next \in Nat
  <2>1. Len(closed) \in Nat /\ \A j \in 1..Len(closed) : closed[j] \in Nat
    BY TypeFacts DEF IInv
  <2>2. i < Len(closed) => i + 1 \in 1..Len(closed)
    BY <2>1
  <2>3. QED
    BY <1>1, <2>1, <2>2 DEF Successor
<1> HIDE DEF o, next
<1>4. PICK bs \in Seq(Blocks), m \in MetaSizes : SealedWith(stream, o, next, bs, m)
  BY <1>2 DEF Sealed
<1>5. next <= StreamMax /\ \A p \in Nat : p < next => stream'[p] = stream[p]
  BY <1>1, <1>2, <1>3
<1>6. SealedWith(stream', o, next, bs, m)
  <2>1. LenOf(bs) \in Nat /\ m \in Nat /\ HeaderLen = 12
    BY LenOfType, ConstantTypes
  <2> DEFINE from == o + HeaderLen + m
  <2>2. from \in Nat /\ next = from + LenOf(bs) /\ o <= from
    BY <1>1, <1>4, <2>1 DEF SealedWith
  <2>3. Headed(stream, o, m + LenOf(bs), m) /\ LaidOut(stream, from, bs)
    BY <1>4 DEF SealedWith
  <2>4. \A p \in Nat : p < from + LenOf(bs) => stream'[p] = stream[p]
    BY <1>5, <2>2
  <2>5. \A p \in Nat : p < from => stream'[p] = stream[p]
    BY <2>1, <2>2, <2>4
  <2>6. Headed(stream', o, m + LenOf(bs), m)
    BY <1>1, <2>1, <2>3, <2>5, HeadedStays, SMTT(30)
  <2>7. LaidOut(stream', from, bs)
    <3> HIDE DEF from
    <3>1. QED
      BY <2>2, <2>3, <2>4, LaidOutStays
  <2>8. QED
    BY <1>4, <2>6, <2>7 DEF SealedWith
<1>7. BlocksOf(stream, o) = bs /\ BlocksOf(stream', o) = bs
  BY <1>1, <1>3, <1>4, <1>5, <1>6, SealedReads
<1>8. QED
  BY <1>7 DEF o

LEMMA RecoveredStays ==
    ASSUME "open" \notin MetaPhases, IInv, stream' \in [Positions -> Extents],
           closed' = closed, \A p \in Nat : p < Frontier => stream'[p] = stream[p]
    PROVE  Recovered' = Recovered
<1>1. \A i \in 1..Len(closed) : BlocksOf(stream', closed[i]) = BlocksOf(stream, closed[i])
  BY ReadsTheSame
<1>2. QED
  BY <1>1 DEF Recovered

(* A reader finds in a file cluster the blocks that were laid out.         *)
LEMMA FileContents ==
    ASSUME NEW s \in [Positions -> Extents], NEW from \in Nat, NEW to \in Nat,
           NEW bs \in Seq(Blocks), LaidOut(s, from, bs), to = from + LenOf(bs),
           to <= StreamMax
    PROVE  BlocksIn(s, from, to) = bs
BY ReadsBack

(* The steps that the log does not see.                                    *)
LEMMA UnseenSteps ==
    ASSUME "open" \notin MetaPhases, IInv,
           UNCHANGED <<stream, phase, closed>>, c'.flavour = c.flavour,
           c'.blocks = c.blocks, c'.start = c.start, c'.end = c.end
    PROVE  Contents' = Contents /\ Recovered' = Recovered
BY DEF Contents, Recovered, InMemory

(* With an open cluster as write() leaves it a reader finds no block in it, *)
(* or those a memory cluster holds already.                                *)
LEMMA WriteOpens ==
    ASSUME "open" \notin MetaPhases, IInv, IInv', Write
    PROVE  /\ Contents' \in {Contents, <<>>} /\ Recovered' = Recovered
           /\ phase # "open" /\ phase' = "open"
<1>1. /\ phase # "open" /\ phase' = "open" /\ closed' = closed
      /\ c'.flavour = c.flavour /\ c'.blocks = c.blocks
      /\ ~InMemory => c'.start = c'.end
  BY DEF Write, InMemory, IInv, TypeOK
<1>2. stream' \in [Positions -> Extents] /\ c'.end \in Nat
  BY DEF IInv, TypeOK
<1>3. \A p \in Nat : p < Frontier => stream'[p] = stream[p]
  <2> DEFINE o == wpos
             m == c.meta
  <2>1. /\ o \in Nat /\ m \in Nat /\ stream \in [Positions -> Extents]
        /\ HeaderLen = 12 /\ BodySize \in Nat
    BY TypeFacts, ConstantTypes, BodySizeType DEF IInv
  <2>2. /\ End(Plain("Meta", o + HeaderLen, m)) <= StreamMax
        /\ stream' = Put(Put(Put(stream, Plain("ClusterID", o, IdLen)),
                             SizeField(o, BodySize)), Plain("Meta", o + HeaderLen, m))
    BY DEF Write
  <2>3. o + HeaderLen + m <= StreamMax
    BY <2>1, <2>2, HeaderTypes
  <2>4. \A p \in Nat : p < o => stream'[p] = stream[p]
    <3> HIDE DEF o, m
    <3>1. QED
      BY <2>1, <2>2, <2>3, HeaderWritten
  <2>5. Frontier = o
    BY <1>1 DEF Frontier, IInv, WhereItIs, Write
  <2>6. QED
    BY <2>4, <2>5
<1>4. Recovered' = Recovered
  BY <1>1, <1>2, <1>3, RecoveredStays
<1>5. InMemory' = InMemory
  BY <1>1 DEF InMemory
<1>6. CASE InMemory
  BY <1>1, <1>4, <1>5, <1>6 DEF Contents
<1>7. CASE ~InMemory
  <2>1. BlocksIn(stream', c'.end, c'.end) = <<>>
    <3> DEFINE to == c'.end
    <3>1. to \in Nat
      BY <1>2
    <3> HIDE DEF to
    <3>2. ~(to < to)
      BY <3>1
    <3>3. BlocksIn(stream', to, to) = <<>>
      BY <1>2, <3>1, <3>2, WalkStep
    <3>4. QED
      BY <3>3 DEF to
  <2>2. Contents' = <<>>
    BY <1>1, <1>5, <1>7, <2>1 DEF Contents
  <2>3. QED
    BY <1>1, <1>4, <2>2
<1>8. QED
  BY <1>6, <1>7

LEMMA PushAccepts ==
    ASSUME "open" \notin MetaPhases, "closed" \notin PushPhases, IInv, IInv',
           NEW b \in Blocks, PushInMemory(b) \/ PushInFile(b)
    PROVE  /\ Contents' = Append(Contents, b) /\ Recovered' = Recovered
           /\ phase # "closed" /\ phase' = phase
<1>1. CASE PushInMemory(b)
  <2>1. /\ InMemory /\ phase # "closed" /\ UNCHANGED <<stream, phase, closed>>
        /\ c'.flavour = c.flavour /\ c'.blocks = Append(c.blocks, b)
    BY <1>1 DEF PushInMemory, streamVars, IInv, TypeOK
  <2>2. QED
    BY <2>1 DEF Contents, Recovered, InMemory
<1>2. CASE PushInFile(b)
  <2>1. /\ ~InMemory /\ phase # "closed" /\ UNCHANGED <<phase, closed>>
        /\ c'.flavour = c.flavour /\ InMemory' = InMemory
    BY <1>2 DEF PushInFile, IInv, TypeOK, InMemory
  <2>2. PICK bs \in Seq(Blocks) :
          /\ LaidOut(stream, c.start, bs) /\ c.end = c.start + LenOf(bs)
          /\ LaidOut(stream', c.start, Append(bs, b))
          /\ c'.start = c.start /\ c'.end = c.start + LenOf(Append(bs, b))
          /\ c'.end <= StreamMax
    BY <1>2, PushInFileFacts
  <2>3. /\ c.start \in Nat /\ c.end \in Nat /\ c'.end \in Nat /\ c.end <= StreamMax
        /\ stream \in [Positions -> Extents] /\ stream' \in [Positions -> Extents]
        /\ eof \in Nat /\ StreamMax \in Nat /\ Append(bs, b) \in Seq(Blocks)
    <3>1. c.end <= eof
      BY <2>1 DEF IInv, FileBlocks
    <3>2. eof \in Nat /\ eof <= StreamMax /\ StreamMax \in Nat /\ c.end \in Nat
      BY TypeFacts, ConstantTypes DEF IInv
    <3>3. c.end <= StreamMax
      BY <3>1, <3>2
    <3>4. QED
      BY <3>2, <3>3, SumsAppend DEF IInv, TypeOK
  <2>4. BlocksIn(stream, c.start, c.end) = bs
    BY <2>2, <2>3, FileContents
  <2>5. BlocksIn(stream', c.start, c'.end) = Append(bs, b)
    BY <2>2, <2>3, FileContents
  <2>6. Contents = bs /\ Contents' = Append(bs, b)
    BY <2>1, <2>2, <2>4, <2>5 DEF Contents
  <2>7. \A p \in Nat : p < Frontier => stream'[p] = stream[p]
    <3> DEFINE e == Plain(b, c.end, BlockLen[b])
    <3>1. stream' = Put(stream, e) /\ End(e) <= StreamMax
      BY <1>2 DEF PushInFile, BlockPos
    <3>2. e.at = c.end
      BY DEF Plain, Extent
    <3> HIDE DEF e
    <3>3. Frontier <= c.end /\ Frontier \in Nat
      <4>1. phase = "open"
        BY <1>2 DEF PushInFile, IInv, WhereItIs
      <4>2. PICK m \in MetaSizes : c.start = c.offset + HeaderLen + m
        BY <2>1, <4>1 DEF IInv, OpenInPlace
      <4>3. m \in Nat /\ HeaderLen = 12 /\ LenOf(bs) \in Nat /\ c.offset \in Nat
        BY ConstantTypes, LenOfType, TypeFacts DEF IInv
      <4>4. Frontier = c.offset
        BY <4>1 DEF Frontier
      <4>5. QED
        BY <2>2, <2>3, <4>2, <4>3, <4>4
    <3>4. \A p \in Nat : p < c.end => p \in Positions
      BY <2>3 DEF Positions
    <3>5. QED
      BY <2>3, <3>1, <3>2, <3>3, <3>4, PutAt
  <2>8. Recovered' = Recovered
    BY <2>1, <2>3, <2>7, RecoveredStays
  <2>9. QED
    BY <2>1, <2>6, <2>8
<1>3. QED
  BY <1>1, <1>2

LEMMA FinaliseCloses ==
    ASSUME "open" \notin MetaPhases, IInv, IInv', Finalise
    PROVE  /\ Contents' = Contents /\ Recovered' = Append(Recovered, Contents)
           /\ phase = "open" /\ phase' = "closed"
<1> DEFINE o == c.offset
           n == Len(closed)
<1>1. PICK bs \in Seq(Blocks), m \in MetaSizes : Final(bs, m)
  BY FinaliseFacts
<1> DEFINE from == o + HeaderLen + m
<1>2. /\ phase = "open" /\ phase' = "closed" /\ closed' = Append(closed, o)
      /\ c'.flavour = c.flavour /\ c'.blocks = c.blocks
      /\ c'.start = c.start /\ c'.end = c.end
  BY DEF Finalise, IInv, TypeOK
<1>3. /\ Headed(stream', o, m + LenOf(bs), m)
      /\ LaidOut(stream', from, bs)
      /\ eof' = from + LenOf(bs) /\ eof' <= StreamMax
      /\ \A p \in Nat : p < o => stream'[p] = stream[p]
      /\ IF InMemory THEN bs = c.blocks
         ELSE LaidOut(stream, c.start, bs) /\ c.start = from /\ c.end = from + LenOf(bs)
  BY <1>1 DEF Final
<1>4. /\ o \in Nat /\ m \in Nat /\ LenOf(bs) \in Nat /\ HeaderLen = 12
      /\ stream \in [Positions -> Extents] /\ stream' \in [Positions -> Extents]
      /\ n \in Nat /\ eof' \in Nat /\ closed \in Seq(Nat)
  <2>1. /\ o \in Nat /\ m \in Nat /\ LenOf(bs) \in Nat /\ HeaderLen = 12
        /\ n \in Nat /\ StreamMax \in Nat
    BY TypeFacts, ConstantTypes, LenOfType DEF IInv
  <2>2. /\ stream \in [Positions -> Extents] /\ stream' \in [Positions -> Extents]
        /\ eof' \in 0..StreamMax /\ closed \in Seq(Nat)
    BY DEF IInv, TypeOK
  <2>3. QED
    BY <2>1, <2>2
<1>5. from \in Nat
  BY <1>4
<1>6. BlocksOf(stream', o) = bs
  <2>1. SealedWith(stream', o, eof', bs, m)
    BY <1>3 DEF SealedWith
  <2>2. QED
    BY <1>3, <1>4, <2>1, SealedReads
<1> HIDE DEF from
<1>7. InMemory' = InMemory
  BY <1>2 DEF InMemory
<1>8. Contents = bs /\ Contents' = bs
  <2>1. CASE InMemory
    BY <1>2, <1>3, <1>7, <2>1 DEF Contents
  <2>2. CASE ~InMemory
    <3>1. c.start = from /\ c.end = from + LenOf(bs) /\ LaidOut(stream, from, bs)
      BY <1>3, <2>2
    <3>2. from + LenOf(bs) <= StreamMax
      BY <1>3
    <3>3. BlocksIn(stream, from, from + LenOf(bs)) = bs
      BY <1>4, <1>5, <3>1, <3>2, ReadsBack
    <3>4. BlocksIn(stream', from, from + LenOf(bs)) = bs
      BY <1>3, <1>4, <1>5, <3>2, ReadsBack
    <3>5. QED
      BY <1>2, <1>7, <2>2, <3>1, <3>3, <3>4 DEF Contents
  <2>3. QED
    BY <2>1, <2>2
<1>9. \A i \in 1..n : BlocksOf(stream', closed[i]) = BlocksOf(stream, closed[i])
  <2>1. Frontier = o
    BY <1>2 DEF Frontier
  <2>2. QED
    BY <1>3, <1>4, <2>1, ReadsTheSame
<1>10. Recovered' = Append(Recovered, bs)
  <2>1. Len(closed') = n + 1 /\ closed'[n + 1] = o /\ \A i \in 1..n : closed'[i] = closed[i]
    BY <1>2, <1>4
  <2>2. /\ Recovered' = [i \in 1..(n + 1) |-> BlocksOf(stream', closed'[i])]
        /\ Recovered = [i \in 1..n |-> BlocksOf(stream, closed[i])]
    BY <2>1 DEF Recovered
  <2>3. /\ \A i \in 1..n : BlocksOf(stream', closed'[i]) = BlocksOf(stream, closed[i])
        /\ BlocksOf(stream', closed'[n + 1]) = bs
    BY <1>6, <1>9, <2>1
  <2> DEFINE R == Recovered
             T == Recovered'
  <2>4. Len(R) = n /\ \A i \in 1..n : R[i] = BlocksOf(stream, closed[i])
    BY <1>4, <2>2
  <2>5. Append(R, bs) = [i \in 1..(n + 1) |-> IF i <= n THEN R[i] ELSE bs]
    <3> DEFINE S == {R[i] : i \in 1..n} \cup {bs}
               A == [i \in 1..(n + 1) |-> IF i <= n THEN R[i] ELSE bs]
    <3>1. R \in [1..n -> S] /\ bs \in S
      BY <2>2
    <3> HIDE DEF R, S, n
    <3>2. R \in Seq(S) /\ Len(R) = n
      BY <1>4, <3>1
    <3>3. A \in [1..(n + 1) -> S]
      BY <1>4, <3>1
    <3>4. A \in Seq(S) /\ Len(A) = n + 1
      <4>1. n + 1 \in Nat
        BY <1>4
      <4> HIDE DEF A
      <4>2. QED
        BY <3>3, <4>1
    <3> DEFINE B == Append(R, bs)
    <3>5. /\ B \in Seq(S) /\ Len(B) = Len(R) + 1
          /\ \A i \in 1..Len(R) : B[i] = R[i]
          /\ B[Len(R) + 1] = bs
      BY <3>1, <3>2, AppendProperties
    <3> HIDE DEF B
    <3>6. /\ B \in Seq(S) /\ Len(B) = n + 1
          /\ \A i \in 1..n : B[i] = R[i]
          /\ B[n + 1] = bs
      BY <3>2, <3>5
    <3> HIDE DEF B
    <3>7. ASSUME NEW i \in 1..(n + 1)
          PROVE  B[i] = IF i <= n THEN R[i] ELSE bs
      <4>1. i \in 1..n \/ i = n + 1
        BY <1>4
      <4>2. CASE i \in 1..n
        BY <1>4, <3>6, <4>2
      <4>3. CASE i = n + 1
        BY <1>4, <3>6, <4>3
      <4>4. QED
        BY <4>1, <4>2, <4>3
    <3>8. \A i \in 1..(n + 1) : B[i] = A[i]
      BY <3>7
    <3> HIDE DEF A
    <3>9. B = A
      BY <3>4, <3>6, <3>8, SeqEqual
    <3>10. QED
      BY <3>9 DEF A, B
  <2>6. \A i \in 1..(n + 1) : i \in 1..n \/ i = n + 1
    BY <1>4
  <2>7. \A i \in 1..(n + 1) : BlocksOf(stream', closed'[i]) = IF i <= n THEN R[i] ELSE bs
    <3> SUFFICES ASSUME NEW i \in 1..(n + 1)
                 PROVE  BlocksOf(stream', closed'[i]) = IF i <= n THEN R[i] ELSE bs
      OBVIOUS
    <3> HIDE DEF R, n
    <3>1. CASE i \in 1..n
      BY <1>4, <2>3, <2>4, <3>1
    <3>2. CASE i = n + 1
      BY <1>4, <2>3, <3>2
    <3>3. QED
      BY <2>6, <3>1, <3>2
  <2>8. QED
    BY <2>2, <2>5, <2>7
<1>11. QED
  BY <1>2, <1>8, <1>10

LEMMA RenewEmpties ==
    ASSUME IInv, Renew
    PROVE  /\ Contents' = <<>> /\ Recovered' = Recovered
           /\ phase = "closed" /\ phase' = "new"
<1>1. /\ UNCHANGED <<stream, closed>> /\ phase = "closed" /\ phase' = "new"
      /\ c'.blocks = <<>> /\ c'.start = 0 /\ c'.end = 0
  BY DEF Renew, New, streamVars
<1>2. BlocksIn(stream, 0, 0) = <<>>
  <2>1. stream \in [Positions -> Extents] /\ 0 \in Nat /\ ~(0 < 0)
    BY DEF IInv, TypeOK
  <2>2. QED
    BY <2>1, WalkStep
<1>3. QED
  BY <1>1, <1>2 DEF Contents, Recovered

LEMMA LogInit ==
    ASSUME Init
    PROVE  Contents = <<>> /\ phase = "new" /\ Recovered = <<>>
<1>1. /\ phase = "new" /\ closed = <<>> /\ c.blocks = <<>> /\ c.start = 0 /\ c.end = 0
  BY DEF Init, New
<1>2. BlocksIn(stream, 0, 0) = <<>>
  <2>1. stream \in [Positions -> Extents] /\ 0 \in Nat /\ ~(0 < 0)
    BY InitKeeps DEF IInv, TypeOK
  <2>2. QED
    BY <2>1, WalkStep
<1>3. Recovered = <<>>
  <2>1. 1..Len(closed) = {}
    BY <1>1
  <2>2. QED
    BY <2>1 DEF Recovered
<1>4. QED
  BY <1>1, <1>2, <1>3 DEF Contents

LEMMA LogStep ==
    ASSUME "open" \notin MetaPhases, "closed" \notin PushPhases, IInv, IInv', [Next]_vars
    PROVE  [Log!Next]_(Log!vars)
<1> USE DEF Log!vars
<1>0. /\ (Contents = IF InMemory THEN c.blocks ELSE BlocksIn(stream, c.start, c.end))
      /\ Recovered = [i \in 1..Len(closed) |-> BlocksOf(stream, closed[i])]
  BY DEF Contents, Recovered
<1>1. CASE (\E n \in MetaSizes : SetMeta(n)) \/ PushRefused \/ FinaliseRefused
           \/ MoveAway \/ MoveBack \/ UNCHANGED vars
  <2>1. /\ UNCHANGED <<stream, phase, closed>> /\ c'.flavour = c.flavour
        /\ c'.blocks = c.blocks /\ c'.start = c.start /\ c'.end = c.end
    BY <1>1 DEF SetMeta, PushRefused, FinaliseRefused, MoveAway, MoveBack, vars,
                streamVars, IInv, TypeOK
  <2>2. UNCHANGED <<Contents, phase, Recovered>>
    BY <2>1, UnseenSteps
  <2>3. QED
    BY <2>2 DEF Contents, Recovered
<1>2. CASE Write
  <2>1. Log!Open
    BY <1>2, WriteOpens DEF Log!Open, Contents, Recovered
  <2>2. QED
    BY <2>1 DEF Log!Next
<1>3. ASSUME NEW b \in Blocks, PushInMemory(b) \/ PushInFile(b)
      PROVE  Log!Next
  <2>1. Log!Accept(b)
    BY <1>3, PushAccepts DEF Log!Accept, Contents, Recovered
  <2>2. QED
    BY <2>1 DEF Log!Next
<1>4. ASSUME NEW i \in 1..(Len(c.blocks) + 1), NEW j \in 1..(Len(c.blocks) + 1),
             i < j, Erase(i, j)
      PROVE  Log!Next
  <2>1. /\ InMemory /\ InMemory' /\ UNCHANGED <<stream, phase, closed>>
        /\ c'.blocks = SubSeq(c.blocks, 1, i - 1) \o SubSeq(c.blocks, j, Len(c.blocks))
    BY <1>4 DEF Erase, InMemory, streamVars, IInv, TypeOK
  <2>2. Log!Erase(i, j)
    BY <2>1 DEF Log!Erase
  <2>3. i <= j
    BY <1>4, TypeFacts DEF IInv
  <2>4. QED
    BY <2>1, <2>2, <2>3 DEF Log!Next
<1>5. CASE Finalise
  <2>1. Log!Close
    BY <1>5, FinaliseCloses DEF Log!Close, Contents, Recovered
  <2>2. QED
    BY <2>1 DEF Log!Next
<1>6. CASE Renew
  <2>1. Log!Renew
    BY <1>6, RenewEmpties DEF Log!Renew, Contents, Recovered
  <2>2. QED
    BY <2>1 DEF Log!Next
<1>7. QED
  BY <1>1, <1>2, <1>3, <1>4, <1>5, <1>6 DEF Next

(* Writing clusters implements the log that the interface promises         *)
(* (cluster.h), and the log is what a reader recovers from the bytes alone:*)
(* every block taken is in the stream exactly once, in order, when its     *)
(* cluster is final, and stays there.  The hypotheses are the client's     *)
(* part: metadata is set before the cluster is written                     *)
(* (memory_cluster.cpp:111 trusts it) and nothing is pushed into a cluster *)
(* that is final already.                                                  *)
THEOREM WritingImplementsLog ==
    ASSUME "open" \notin MetaPhases, "closed" \notin PushPhases
    PROVE  Spec => ImplementsLog
<1>1. Init => Log!Init
  BY LogInit DEF Log!Init, Contents, Recovered
<1>2. IInv /\ IInv' /\ [Next]_vars => [Log!Next]_(Log!vars)
  BY LogStep
<1>3. QED
  BY <1>1, <1>2, InvariantHolds, PTL DEF Spec, ImplementsLog, Log!Spec
=============================================================================
