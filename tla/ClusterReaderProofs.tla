------------------------ MODULE ClusterReaderProofs ------------------------
(***************************************************************************)
(* For streams of any elements, cut anywhere, and any number of iterators: *)
(* read() accepts the clusters it should, the size of what it has read     *)
(* leads behind it, both kinds of cluster come to the same blocks, and the *)
(* client finds the read position where it left it.  The argument: every   *)
(* loop stands behind an element, and what it has taken is what lies       *)
(* between that and where it began.                                        *)
(***************************************************************************)
EXTENDS ClusterReader, SequenceTheorems, FiniteSetTheorems, WellFoundedInduction, TLAPS

(* The least-number principle, for a set.                                  *)
LEMMA LeastOf ==
    ASSUME NEW T, T \subseteq Nat, T # {}
    PROVE  \E m \in T : \A n \in T : m <= n
<1>1. PICK m \in T : \A n \in T : ~(<<n, m>> \in OpToRel(<, Nat))
  BY NatLessThanWellFounded, WFMin
<1>2. \A n \in T : ~(n < m)
  BY <1>1 DEF OpToRel
<1>3. QED
  BY <1>2

----------------------------------------------------------------------------
(* The elements of the stream, one behind the other.                       *)

StreamOK ==
    /\ items \in Seq(Elements) /\ Len(items) \in Nat \ {0}
    /\ \A k \in 1..Len(items) :
          At(k) = IF k = 1 THEN 0 ELSE At(k - 1) + items[k - 1].len
    /\ end \in Int /\ end <= StreamEnd

LEMMA ItemTypes ==
    ASSUME StreamOK
    PROVE  /\ DOMAIN items = 1..Len(items) /\ Len(items) \in Nat /\ Len(items) > 0
           /\ end \in Int /\ end <= StreamEnd /\ StreamEnd = EndOf(Len(items))
           /\ \A k \in 1..Len(items) :
                 /\ items[k].kind \in STRING /\ items[k].own \in Nat
                 /\ items[k].declared \in Nat
                 /\ items[k].len \in Nat /\ items[k].len > 0
                 /\ At(k) \in Nat /\ EndOf(k) \in Nat /\ At(k) < EndOf(k)
                 /\ EndOf(k) = At(k) + items[k].len
                 /\ Stop(k) \in Nat /\ Stop(k) = EndOf(k) + items[k].declared
<1>1. DOMAIN items = 1..Len(items) /\ \A k \in 1..Len(items) : items[k] \in Elements
  BY DEF StreamOK
<1>2. ASSUME NEW k \in 1..Len(items)
      PROVE  /\ items[k].kind \in STRING /\ items[k].own \in Nat
             /\ items[k].declared \in Nat
             /\ items[k].len \in Nat /\ items[k].len > 0 /\ At(k) \in Nat
  BY <1>1 DEF Elements, At
<1>3. QED
  BY <1>1, <1>2 DEF StreamOK, StreamEnd, EndOf, Stop, BodyAt

LEMMA NextStarts ==
    ASSUME StreamOK, NEW k \in 1..Len(items), k + 1 \in 1..Len(items)
    PROVE  At(k + 1) = EndOf(k)
BY DEF StreamOK, EndOf

LEMMA Ordered ==
    ASSUME StreamOK, NEW i \in 1..Len(items), NEW j \in 1..Len(items), i < j
    PROVE  EndOf(i) <= At(j)
<1> DEFINE Early == {k \in (i + 1)..Len(items) : At(k) < EndOf(i)}
<1>1. Early = {}
  <2> SUFFICES ASSUME Early # {} PROVE FALSE
    OBVIOUS
  <2>1. PICK m \in Early : \A k \in Early : m <= k
    <3>1. Early \subseteq Nat
      BY ItemTypes
    <3>2. QED
      BY <3>1, LeastOf
  <2>2. m \in (i + 1)..Len(items) /\ At(m) < EndOf(i) /\ Len(items) \in Nat
    BY ItemTypes
  <2>3. m # i + 1
    BY <2>2, NextStarts, ItemTypes
  <2>4. m - 1 \in (i + 1)..Len(items) /\ m - 1 \in 1..Len(items) /\ (m - 1) + 1 = m
    BY <2>2, <2>3
  <2>5. At(m) = EndOf(m - 1)
    BY <2>2, <2>4, NextStarts
  <2>6. At(m - 1) < EndOf(m - 1) /\ At(m - 1) \in Nat /\ EndOf(m - 1) \in Nat /\ EndOf(i) \in Nat
    BY <2>4, ItemTypes
  <2>7. m - 1 \in Early
    BY <2>2, <2>4, <2>5, <2>6
  <2>8. QED
    BY <2>1, <2>2, <2>7
<1>2. j \in (i + 1)..Len(items)
  BY ItemTypes
<1>3. At(j) \in Nat /\ EndOf(i) \in Nat
  BY ItemTypes
<1>4. QED
  BY <1>1, <1>2, <1>3

LEMMA EndsOrdered ==
    ASSUME StreamOK, NEW i \in 1..Len(items), NEW j \in 1..Len(items), i <= j
    PROVE  At(i) <= At(j) /\ EndOf(i) <= EndOf(j)
<1>1. /\ At(i) \in Nat /\ At(j) \in Nat /\ EndOf(i) \in Nat /\ EndOf(j) \in Nat
      /\ At(i) < EndOf(i) /\ At(j) < EndOf(j)
  BY ItemTypes
<1>2. i < j => EndOf(i) <= At(j)
  BY Ordered
<1>3. i = j \/ i < j
  OBVIOUS
<1>4. QED
  BY <1>1, <1>2, <1>3

(* The element that starts at a position is the only one.                  *)
LEMMA OnlyOne ==
    ASSUME StreamOK, NEW i \in 1..Len(items), NEW j \in 1..Len(items), At(i) = At(j)
    PROVE  i = j
<1>1. i < j => FALSE
  BY Ordered, ItemTypes
<1>2. j < i => FALSE
  BY Ordered, ItemTypes
<1>3. QED
  BY <1>1, <1>2

LEMMA StartsThere ==
    ASSUME StreamOK, NEW k \in 1..Len(items)
    PROVE  /\ StartsAt(At(k)) = {k} /\ ItemAt(At(k)) = k
           /\ There(At(k)) <=> At(k) < end
<1>1. k \in StartsAt(At(k))
  BY ItemTypes DEF StartsAt
<1>2. \A j \in StartsAt(At(k)) : j = k
  BY OnlyOne, ItemTypes DEF StartsAt
<1>3. StartsAt(At(k)) = {k}
  BY <1>1, <1>2
<1>4. QED
  BY <1>3 DEF ItemAt, There

(* Behind an element is the next one, or the end of the stream.            *)
LEMMA BehindItem ==
    ASSUME StreamOK, NEW m \in 1..Len(items)
    PROVE  \/ /\ m + 1 \in 1..Len(items) /\ EndOf(m) = At(m + 1)
              /\ StartsAt(EndOf(m)) = {m + 1} /\ ItemAt(EndOf(m)) = m + 1
              /\ There(EndOf(m)) <=> EndOf(m) < end
           \/ m = Len(items) /\ EndOf(m) = StreamEnd /\ ~There(EndOf(m))
<1>1. CASE m = Len(items)
  <2>1. EndOf(m) = StreamEnd
    BY <1>1 DEF StreamEnd
  <2>2. ~(StreamEnd < end)
    BY ItemTypes
  <2>3. QED
    BY <1>1, <2>1, <2>2 DEF There
<1>2. CASE m # Len(items)
  <2>1. m + 1 \in 1..Len(items)
    <3>1. Len(items) \in Nat
      BY ItemTypes
    <3>2. QED
      BY <1>2, <3>1
  <2>2. EndOf(m) = At(m + 1)
    BY <2>1, NextStarts
  <2>3. QED
    BY <2>1, <2>2, StartsThere
<1>3. QED
  BY <1>1, <1>2

----------------------------------------------------------------------------
(* Sums of sizes.                                                          *)

(* The recursive definition has the one solution it should have.           *)
LEMMA SumsStep ==
    ASSUME NEW ns \in Seq(Nat)
    PROVE  /\ Sums(ns) \in [0..Len(ns) -> Nat] /\ Sums(ns)[0] = 0
           /\ \A i \in 1..Len(ns) : Sums(ns)[i] = Sums(ns)[i - 1] + ns[i]
<1> DEFINE Adds(f, n) == f[0] = 0 /\ \A i \in 1..n : f[i] = f[i - 1] + ns[i]
           Without == {n \in 0..Len(ns) : ~ \E f \in [0..n -> Nat] : Adds(f, n)}
<1>0. Len(ns) \in Nat /\ \A i \in 1..Len(ns) : ns[i] \in Nat
  OBVIOUS
<1>1. Without = {}
  <2> SUFFICES ASSUME Without # {} PROVE FALSE
    OBVIOUS
  <2>1. PICK m \in Without : \A n \in Without : m <= n
    <3>1. Without \subseteq Nat
      OBVIOUS
    <3>2. QED
      BY <3>1, LeastOf
  <2>2. m # 0
    <3>1. Adds([i \in 0..0 |-> 0], 0) /\ [i \in 0..0 |-> 0] \in [0..0 -> Nat]
      OBVIOUS
    <3>2. QED
      BY <3>1
  <2>3. m - 1 \in 0..Len(ns) /\ m - 1 \notin Without
    <3>1. m \in 0..Len(ns)
      OBVIOUS
    <3> HIDE DEF Without
    <3>2. QED
      BY <1>0, <2>1, <2>2, <3>1
  <2>4. PICK f \in [0..(m - 1) -> Nat] : Adds(f, m - 1)
    BY <2>3
  <2> DEFINE g == [i \in 0..m |-> IF i = m THEN f[m - 1] + ns[m] ELSE f[i]]
  <2>5. g \in [0..m -> Nat] /\ Adds(g, m)
    <3>1. m \in 1..Len(ns) /\ f[m - 1] \in Nat /\ ns[m] \in Nat
      BY <1>0, <2>1, <2>2, <2>3, <2>4
    <3>2. g \in [0..m -> Nat]
      BY <2>4, <3>1
    <3>3. \A i \in 0..(m - 1) : g[i] = f[i]
      BY <3>1
    <3>4. g[m] = g[m - 1] + ns[m]
      BY <3>1, <3>3
    <3>5. g[0] = 0
      BY <2>4, <3>1, <3>3
    <3> HIDE DEF g
    <3>6. \A i \in 1..m : i # m => g[i] = g[i - 1] + ns[i]
      <4> SUFFICES ASSUME NEW i \in 1..m, i # m PROVE g[i] = g[i - 1] + ns[i]
        OBVIOUS
      <4>1. i \in 1..(m - 1) /\ i \in 0..(m - 1) /\ i - 1 \in 0..(m - 1)
        BY <3>1
      <4>2. g[i] = f[i] /\ g[i - 1] = f[i - 1]
        BY <3>3, <4>1
      <4>3. f[i] = f[i - 1] + ns[i]
        BY <2>4, <4>1
      <4>4. QED
        BY <4>2, <4>3
    <3>7. QED
      BY <3>2, <3>4, <3>5, <3>6
  <2>6. QED
    BY <2>1, <2>5
<1>2. PICK f \in [0..Len(ns) -> Nat] : Adds(f, Len(ns))
  BY <1>1
<1>3. f = [i \in 0..Len(ns) |-> IF i = 0 THEN 0 ELSE f[i - 1] + ns[i]]
  BY <1>2
<1> DEFINE S == Sums(ns)
<1>4. S = [i \in 0..Len(ns) |-> IF i = 0 THEN 0 ELSE S[i - 1] + ns[i]]
  BY <1>3 DEF Sums
<1> HIDE DEF S
<1>5. \A i \in 0..Len(ns) : S[i] \in Nat
  <2> DEFINE Not == {n \in 0..Len(ns) : S[n] \notin Nat}
  <2> SUFFICES ASSUME Not # {} PROVE FALSE
    OBVIOUS
  <2>1. PICK m \in Not : \A n \in Not : m <= n
    <3>1. Not \subseteq Nat
      OBVIOUS
    <3>2. QED
      BY <3>1, LeastOf
  <2>2. m # 0
    BY <1>4
  <2>3. m \in 1..Len(ns) /\ m - 1 \in 0..Len(ns) /\ S[m - 1] \in Nat
    BY <2>1, <2>2
  <2>4. S[m] = S[m - 1] + ns[m]
    <3>1. m \in 0..Len(ns) /\ ~(m = 0)
      BY <2>1, <2>2
    <3>2. S[m] = IF m = 0 THEN 0 ELSE S[m - 1] + ns[m]
      BY <1>4, <3>1
    <3>3. QED
      BY <3>1, <3>2
  <2>5. QED
    BY <2>3, <2>4, <1>0
<1>6. S \in [0..Len(ns) -> Nat]
  BY <1>4, <1>5
<1>7. 0 \in 0..Len(ns) /\ \A i \in 1..Len(ns) : i \in 0..Len(ns) /\ i # 0
  OBVIOUS
<1>8. S[0] = 0 /\ \A i \in 1..Len(ns) : S[i] = S[i - 1] + ns[i]
  BY <1>4, <1>7
<1>9. QED
  BY <1>6, <1>8 DEF S

LEMMA SumsAgree ==
    ASSUME NEW ns \in Seq(Nat), NEW ms \in Seq(Nat), Len(ns) <= Len(ms),
           \A i \in 1..Len(ns) : ms[i] = ns[i]
    PROVE  Sums(ms)[Len(ns)] = Sums(ns)[Len(ns)]
<1> DEFINE Off == {n \in 0..Len(ns) : Sums(ms)[n] # Sums(ns)[n]}
<1>1. Off = {}
  <2> SUFFICES ASSUME Off # {} PROVE FALSE
    OBVIOUS
  <2>1. PICK m \in Off : \A n \in Off : m <= n
    <3>1. Off \subseteq Nat
      OBVIOUS
    <3>2. QED
      BY <3>1, LeastOf
  <2>2. m # 0
    BY <2>1, SumsStep
  <2>3. Len(ns) \in Nat /\ Len(ms) \in Nat
    OBVIOUS
  <2>4. m \in 1..Len(ns) /\ m \in 1..Len(ms) /\ m - 1 \in 0..Len(ns)
    BY <2>1, <2>2, <2>3
  <2>5. Sums(ms)[m - 1] = Sums(ns)[m - 1]
    BY <2>1, <2>4
  <2>6. Sums(ms)[m] = Sums(ms)[m - 1] + ms[m] /\ Sums(ns)[m] = Sums(ns)[m - 1] + ns[m]
    BY <2>4, SumsStep
  <2>7. QED
    BY <2>1, <2>4, <2>5, <2>6
<1>2. Len(ns) \in 0..Len(ns)
  OBVIOUS
<1>3. QED
  BY <1>1, <1>2

LEMMA OwnLenStep ==
    ASSUME StreamOK, NEW ks \in Seq(1..Len(items)), NEW k \in 1..Len(items)
    PROVE  OwnLen(ks) \in Nat /\ OwnLen(Append(ks, k)) = OwnLen(ks) + items[k].own
<1> DEFINE ns == [i \in DOMAIN ks |-> items[ks[i]].own]
           ls == Append(ks, k)
           ms == [i \in DOMAIN ls |-> items[ls[i]].own]
<1>1. /\ ls \in Seq(1..Len(items)) /\ Len(ls) = Len(ks) + 1 /\ Len(ks) \in Nat
      /\ \A i \in 1..Len(ks) : ls[i] = ks[i]
      /\ ls[Len(ks) + 1] = k
  OBVIOUS
<1> HIDE DEF ls
<1>2. ns \in Seq(Nat) /\ Len(ns) = Len(ks)
  <2>1. ns \in [1..Len(ks) -> Nat]
    <3>1. \A i \in 1..Len(ks) : items[ks[i]].own \in Nat
      <4>1. \A i \in 1..Len(ks) : ks[i] \in 1..Len(items)
        OBVIOUS
      <4>2. QED
        BY <4>1, ItemTypes
    <3>2. DOMAIN ks = 1..Len(ks)
      OBVIOUS
    <3>3. QED
      BY <3>1, <3>2
  <2>2. QED
    BY <1>1, <2>1
<1>3. ms \in Seq(Nat) /\ Len(ms) = Len(ks) + 1
  <2>1. ms \in [1..(Len(ks) + 1) -> Nat]
    <3>1. \A i \in 1..(Len(ks) + 1) : items[ls[i]].own \in Nat
      <4>1. \A i \in 1..(Len(ks) + 1) : ls[i] \in 1..Len(items)
        BY <1>1
      <4>2. QED
        BY <4>1, ItemTypes
    <3>2. DOMAIN ls = 1..(Len(ks) + 1)
      BY <1>1
    <3>3. QED
      BY <3>1, <3>2
  <2>2. Len(ks) + 1 \in Nat
    BY <1>1
  <2>3. QED
    BY <2>1, <2>2
<1>4. \A i \in 1..Len(ks) : ms[i] = ns[i]
  BY <1>1
<1>5. ms[Len(ks) + 1] = items[k].own
  BY <1>1
<1>6. OwnLen(ks) = Sums(ns)[Len(ks)] /\ OwnLen(ls) = Sums(ms)[Len(ks) + 1]
  BY <1>1 DEF OwnLen
<1> HIDE DEF ns, ms
<1>7. Sums(ns)[Len(ks)] \in Nat
  <2>1. Sums(ns) \in [0..Len(ks) -> Nat] /\ Len(ks) \in 0..Len(ks)
    BY <1>1, <1>2, SumsStep
  <2>2. QED
    BY <2>1
<1>8. Sums(ms)[Len(ks)] = Sums(ns)[Len(ks)]
  <2>1. Len(ns) <= Len(ms) /\ \A i \in 1..Len(ns) : ms[i] = ns[i]
    BY <1>1, <1>2, <1>3, <1>4
  <2>2. Sums(ms)[Len(ns)] = Sums(ns)[Len(ns)]
    BY <1>2, <1>3, <2>1, SumsAgree
  <2>3. QED
    BY <1>2, <2>2
<1>9. Len(ks) + 1 \in 1..Len(ms) /\ (Len(ks) + 1) - 1 = Len(ks)
  BY <1>1, <1>3
<1>10. Sums(ms)[Len(ks) + 1] = Sums(ms)[Len(ks)] + ms[Len(ks) + 1]
  BY <1>3, <1>9, SumsStep
<1>11. QED
  BY <1>5, <1>6, <1>7, <1>8, <1>10 DEF ls

LEMMA OwnLenEmpty == OwnLen(<<>>) = 0
<1> DEFINE ns == [i \in DOMAIN <<>> |-> items[<<>>[i]].own]
<1>1. ns \in Seq(Nat)
  OBVIOUS
<1>2. OwnLen(<<>>) = Sums(ns)[0]
  BY DEF OwnLen
<1> HIDE DEF ns
<1>3. QED
  BY <1>1, <1>2, SumsStep

----------------------------------------------------------------------------
(* The invariant.                                                          *)

Objects ==
    [flavour : {"memory", "file"}, offset : Nat, meta : [Meta -> Nat],
     blocks : Seq(1..Len(items)), opened : BOOLEAN, start : Nat, stop : Nat]

IteratorStates == [block : 0..Len(items), seen : Seq(1..Len(items)), begun : BOOLEAN]

TypeOK ==
    /\ StreamOK
    /\ rpos \in Nat /\ cpos \in Nat /\ saved \in Nat
    /\ obj \in Objects
    /\ its \in [Iterators -> IteratorStates]
    /\ phase \in {"idle", "meta", "blocks", "ready", "count", "astray"}
    /\ read \in Nat /\ have \in BOOLEAN /\ number \in Nat
    /\ result \in Answers \cup {"none", "exception", "counted", "loaded", "assertion", "astray"}
    /\ cluster \in 0..Len(items)
    /\ phase \in {"meta", "blocks", "ready", "count"} => cluster # 0
    /\ result \in Answers => cluster # 0

(* Behind the header of the cluster lies metadata, up to m.                *)
MetaUpTo(m) ==
    /\ m \in cluster..Len(items)
    /\ \A j \in (cluster + 1)..m :
          At(j) < Stop(cluster) /\ items[j].kind \in Meta /\ Whole(j)

Timed(m) == \E j \in (cluster + 1)..m : items[j].kind = "Timecode"

(* It is what the object has, if no child comes twice and none is wider    *)
(* than it would be if this library had written it.  The object has a      *)
(* timecode, two octets long, before it has been read.                     *)
HasMeta(meta, m) ==
    Canonical(cluster) =>
        /\ MetaLen(meta) = EndOf(m) - EndOf(cluster) + (IF Timed(m) THEN 0 ELSE 2)
        /\ \A kind \in Meta :
              (\A j \in (cluster + 1)..m : items[j].kind # kind) =>
                  meta[kind] = NoMeta[kind]

(* A block follows, or something that passes for one.                      *)
BlockBehind(m) ==
    /\ m + 1 \in 1..Len(items) /\ At(m + 1) < Stop(cluster) /\ At(m + 1) < end
    /\ items[m + 1].kind \in BlockIds

(* A memory cluster has the blocks behind m up to n.                       *)
HasBlocksTo(blocks, m, n) ==
    /\ n \in m..Len(items)
    /\ \A j \in (m + 1)..n :
          At(j) < Stop(cluster) /\ items[j].kind = "Block" /\ Whole(j)
    /\ Lists(blocks, (m + 1)..n)
    /\ Canonical(cluster) => OwnLen(blocks) = EndOf(n) - EndOf(m)

(* A file cluster has noted where the blocks behind m are.                 *)
HasExtent(o, m) ==
    o.opened /\ o.start = EndOf(m) /\ o.stop = Stop(cluster)

ReadingMeta ==
    phase = "meta" =>
        /\ items[cluster].kind = "Cluster" /\ obj.offset = At(cluster)
        /\ \E m \in 1..Len(items) :
              /\ MetaUpTo(m) /\ HasMeta(obj.meta, m) /\ have = Timed(m)
              /\ \/ rpos = EndOf(m) /\ read = EndOf(m) - EndOf(cluster)
                 \/ /\ read = Declared /\ ~InMemory
                    /\ BlockBehind(m) /\ HasExtent(obj, m)

ReadingBlocks ==
    phase = "blocks" =>
        /\ InMemory /\ obj.offset = At(cluster)
        /\ \E m, n \in 1..Len(items) :
              /\ MetaUpTo(m) /\ HasMeta(obj.meta, m) /\ have = Timed(m)
              /\ BlockBehind(m) /\ HasBlocksTo(obj.blocks, m, n)
              /\ rpos = EndOf(n) /\ read = EndOf(n) - EndOf(cluster)

(* count() stands behind n and has counted what lies between.              *)
Counting(m, n) ==
    /\ n \in m..Len(items) /\ \A j \in (m + 1)..n : At(j) < Stop(cluster)
    /\ rpos = EndOf(n) /\ read = EndOf(n) - EndOf(m) /\ number = n - m

HaveRead ==
    phase \in {"ready", "count"} /\ HasBlocks(cluster) =>
        /\ obj.offset = At(cluster)
        /\ \E m, n \in 1..Len(items) :
              /\ MetaUpTo(m) /\ HasMeta(obj.meta, m) /\ Timed(m) /\ BlockBehind(m)
              /\ InMemory => HasBlocksTo(obj.blocks, m, n) /\ EndOf(n) = Stop(cluster)
              /\ ~InMemory => HasExtent(obj, m)
              /\ phase = "count" => ~InMemory /\ Counting(m, n)

PositionOK == (Idle => rpos = cpos) /\ (phase = "count" => saved = cpos)

----------------------------------------------------------------------------
(* The stream stays as it is, and what is said of it and of the cluster    *)
(* stays true.                                                             *)
LEMMA Still ==
    ASSUME UNCHANGED <<items, end, cluster>>
    PROVE  /\ StreamOK' = StreamOK
           /\ \A k : /\ At(k)' = At(k) /\ EndOf(k)' = EndOf(k) /\ Stop(k)' = Stop(k)
                     /\ Whole(k)' = Whole(k)
           /\ \A p : /\ StartsAt(p)' = StartsAt(p) /\ There(p)' = There(p)
                     /\ ItemAt(p)' = ItemAt(p)
           /\ \A m : /\ MetaUpTo(m)' = MetaUpTo(m) /\ Timed(m)' = Timed(m)
                     /\ BlockBehind(m)' = BlockBehind(m)
           /\ \A o, m : HasExtent(o, m)' = HasExtent(o, m)
           /\ \A k : /\ Inside(k)' = Inside(k) /\ HasBlocks(k)' = HasBlocks(k)
                     /\ BlocksOf(k)' = BlocksOf(k) /\ BeforeBlocks(k)' = BeforeBlocks(k)
                     /\ Canonical(k)' = Canonical(k)
                     /\ MetaGood(k)' = MetaGood(k) /\ BlocksGood(k)' = BlocksGood(k)
                     /\ FirstBlockThere(k)' = FirstBlockThere(k)
                     /\ Good(k)' = Good(k)
           /\ \A meta, m : HasMeta(meta, m)' = HasMeta(meta, m)
           /\ \A ks : OwnLen(ks)' = OwnLen(ks)
           /\ \A blocks, m, n : HasBlocksTo(blocks, m, n)' = HasBlocksTo(blocks, m, n)
<1>1. /\ StreamOK' = StreamOK
      /\ \A k : At(k)' = At(k) /\ EndOf(k)' = EndOf(k)
  BY DEF StreamOK, At, EndOf, StreamEnd
<1>2. /\ \A k : Stop(k)' = Stop(k) /\ (Whole(k)' = Whole(k))
      /\ \A p : StartsAt(p)' = StartsAt(p)
  BY <1>1 DEF Stop, BodyAt, Whole, StartsAt
<1>3. /\ \A p : (There(p)' = There(p)) /\ ItemAt(p)' = ItemAt(p)
      /\ \A k : Inside(k)' = Inside(k)
  BY <1>1, <1>2 DEF There, ItemAt, Inside
<1>4. \A m : /\ MetaUpTo(m)' = MetaUpTo(m) /\ Timed(m)' = Timed(m)
             /\ BlockBehind(m)' = BlockBehind(m)
  BY <1>1, <1>2 DEF MetaUpTo, Timed, BlockBehind
<1>5. \A o, m : HasExtent(o, m)' = HasExtent(o, m)
  BY <1>1, <1>2 DEF HasExtent
<1>6. \A k : /\ HasBlocks(k)' = HasBlocks(k) /\ BlocksOf(k)' = BlocksOf(k)
             /\ BeforeBlocks(k)' = BeforeBlocks(k) /\ Canonical(k)' = Canonical(k)
  BY <1>3 DEF HasBlocks, BlocksOf, BeforeBlocks, Canonical
<1>7. \A k : /\ MetaGood(k)' = MetaGood(k) /\ BlocksGood(k)' = BlocksGood(k)
             /\ FirstBlockThere(k)' = FirstBlockThere(k) /\ Good(k)' = Good(k)
  BY <1>1, <1>2, <1>3, <1>6
     DEF MetaGood, BlocksGood, FirstBlockThere, Good, Fills, StreamEnd
<1>8. \A meta, m : HasMeta(meta, m)' = HasMeta(meta, m)
  BY <1>1, <1>4, <1>6 DEF HasMeta, MetaLen, NoMeta
<1>9. \A ks : OwnLen(ks)' = OwnLen(ks)
  BY DEF OwnLen
<1>10. \A blocks, m, n : HasBlocksTo(blocks, m, n)' = HasBlocksTo(blocks, m, n)
  BY <1>1, <1>2, <1>6, <1>9 DEF HasBlocksTo, Lists
<1>11. QED
  BY <1>1, <1>2, <1>3, <1>4, <1>5, <1>6, <1>7, <1>8, <1>9, <1>10

----------------------------------------------------------------------------
(* The client's position.                                                  *)

LEMMA PositionStarts == Init => PositionOK
BY DEF Init, PositionOK, Idle

LEMMA PositionKeeps ==
    ASSUME PositionOK, [Next]_vars
    PROVE  PositionOK'
<1>1. CASE ReadCluster \/ ReadMeta \/ MeetBlock \/ ReadBlock
  BY <1>1 DEF ReadCluster, ReadMeta, MeetBlock, ReadBlock, PositionOK, Idle, Taking
<1>2. CASE ReadFails \/ EndRead
  BY <1>2 DEF ReadFails, EndRead, Return, PositionOK, Idle
<1>3. CASE Seek \/ StartCount \/ CountBlock \/ CountAsserts
  BY <1>3 DEF Seek, StartCount, CountBlock, CountAsserts, Usable, PositionOK, Idle, Taking
<1>4. CASE EndCount
  BY <1>4 DEF EndCount, Return, Restored, PositionOK, Idle
<1>5. ASSUME NEW i \in Iterators, Begin(i) \/ Increment(i) \/ IncrementAstray(i)
      PROVE  PositionOK'
  BY <1>5 DEF Begin, Increment, IncrementAstray, Load, Usable, Restored, PositionOK, Idle
<1>6. CASE UNCHANGED vars
  BY <1>6 DEF vars, PositionOK, Idle
<1>7. QED
  BY <1>1, <1>2, <1>3, <1>4, <1>5, <1>6 DEF Next

(* PositionIsClients holds: whatever read(), count() and the iterators do  *)
(* in between, the client finds the stream where it left it.               *)
THEOREM PositionStays == Spec => []PositionIsClients
<1>1. PositionOK => PositionIsClients
  BY DEF PositionOK, PositionIsClients
<1>2. QED
  BY <1>1, PositionStarts, PositionKeeps, PTL DEF Spec

----------------------------------------------------------------------------
(* What lies inside a cluster.                                             *)

LEMMA Kinds == Meta \cap BlockIds = {} /\ "Block" \in BlockIds /\ "Timecode" \in Meta
BY DEF Meta, BlockIds

LEMMA InsideIs ==
    ASSUME StreamOK, cluster \in 1..Len(items), NEW m \in cluster..Len(items),
           \A j \in (cluster + 1)..m : At(j) < Stop(cluster)
    PROVE  /\ (cluster + 1)..m \subseteq Inside(cluster)
           /\ Stop(cluster) <= EndOf(m) =>
                 Inside(cluster) = (cluster + 1)..m /\ Stop(cluster) <= StreamEnd
           /\ EndOf(m) < Stop(cluster) =>
                 \/ m + 1 \in Inside(cluster)
                 \/ m = Len(items) /\ Inside(cluster) = (cluster + 1)..m
                    /\ StreamEnd < Stop(cluster)
<1>1. /\ DOMAIN items = 1..Len(items) /\ Len(items) \in Nat /\ Len(items) \in 1..Len(items)
      /\ m \in 1..Len(items) /\ m \in Nat /\ cluster \in Nat /\ cluster <= m
      /\ EndOf(m) \in Nat /\ Stop(cluster) \in Nat /\ StreamEnd = EndOf(Len(items))
  BY ItemTypes
<1>2. (cluster + 1)..m \subseteq Inside(cluster)
  BY <1>1 DEF Inside
<1>3. ASSUME NEW j \in Inside(cluster), ~(j \in (cluster + 1)..m)
      PROVE  j \in 1..Len(items) /\ m < j /\ EndOf(m) <= At(j) /\ At(j) < Stop(cluster)
  <2>1. j \in 1..Len(items) /\ cluster < j /\ At(j) < Stop(cluster)
    BY <1>1 DEF Inside
  <2>2. m < j
    BY <1>1, <1>3, <2>1
  <2>3. EndOf(m) <= At(j)
    BY <1>1, <2>1, <2>2, Ordered
  <2>4. QED
    BY <2>1, <2>2, <2>3
<1>4. ASSUME Stop(cluster) <= EndOf(m)
      PROVE  Inside(cluster) = (cluster + 1)..m /\ Stop(cluster) <= StreamEnd
  <2>1. \A j \in Inside(cluster) : j \in (cluster + 1)..m
    <3> SUFFICES ASSUME NEW j \in Inside(cluster), ~(j \in (cluster + 1)..m) PROVE FALSE
      OBVIOUS
    <3>1. j \in 1..Len(items) /\ EndOf(m) <= At(j) /\ At(j) < Stop(cluster)
      BY <1>3
    <3>2. At(j) \in Nat
      BY <3>1, ItemTypes
    <3>3. QED
      BY <1>1, <1>4, <3>1, <3>2
  <2>2. EndOf(m) <= StreamEnd /\ StreamEnd \in Nat
    BY <1>1, EndsOrdered, ItemTypes
  <2>3. Stop(cluster) <= StreamEnd
    BY <1>1, <1>4, <2>2
  <2>4. QED
    BY <1>2, <2>1, <2>3
<1>5. ASSUME EndOf(m) < Stop(cluster)
      PROVE  \/ m + 1 \in Inside(cluster)
             \/ m = Len(items) /\ Inside(cluster) = (cluster + 1)..m
                /\ StreamEnd < Stop(cluster)
  <2>1. CASE m = Len(items)
    <3>1. \A j \in Inside(cluster) : j \in (cluster + 1)..m
      BY <1>1, <1>3, <2>1
    <3>2. QED
      BY <1>1, <1>2, <1>5, <2>1, <3>1
  <2>2. CASE m # Len(items)
    <3>1. m + 1 \in 1..Len(items) /\ cluster < m + 1
      <4>1. Len(items) \in Nat /\ m \in 1..Len(items) /\ cluster \in Nat /\ cluster <= m
        BY <1>1
      <4>2. QED
        BY <4>1, <2>2
    <3>2. At(m + 1) = EndOf(m)
      BY <1>1, <3>1, NextStarts
    <3>3. QED
      BY <1>1, <1>5, <3>1, <3>2 DEF Inside
  <2>3. QED
    BY <2>1, <2>2
<1>6. QED
  BY <1>2, <1>4, <1>5

(* The metadata ends at the first block.                                   *)
LEMMA BeforeIs ==
    ASSUME StreamOK, cluster \in 1..Len(items), NEW m \in 1..Len(items), MetaUpTo(m)
    PROVE  /\ m + 1 \in Inside(cluster) /\ items[m + 1].kind \in BlockIds =>
                 BeforeBlocks(cluster) = (cluster + 1)..m /\ HasBlocks(cluster)
           /\ m + 1 \in Inside(cluster) /\ items[m + 1].kind \notin BlockIds =>
                 m + 1 \in BeforeBlocks(cluster)
           /\ Inside(cluster) = (cluster + 1)..m =>
                 BeforeBlocks(cluster) = Inside(cluster) /\ ~HasBlocks(cluster)
<1>1. /\ DOMAIN items = 1..Len(items) /\ Len(items) \in Nat /\ m \in Nat /\ cluster \in Nat
      /\ cluster <= m
      /\ \A j \in (cluster + 1)..m : items[j].kind \notin BlockIds
      /\ (cluster + 1)..m \subseteq Inside(cluster)
  <2>1. DOMAIN items = 1..Len(items) /\ Len(items) \in Nat
    BY ItemTypes
  <2>2. /\ m \in cluster..Len(items) /\ cluster \in Nat /\ m \in Nat /\ cluster <= m
        /\ \A j \in (cluster + 1)..m : At(j) < Stop(cluster) /\ items[j].kind \in Meta
    BY DEF MetaUpTo
  <2>3. (cluster + 1)..m \subseteq Inside(cluster)
    BY <2>2, InsideIs
  <2>4. QED
    BY <2>1, <2>2, <2>3, Kinds
<1>2. \A b \in Inside(cluster) : b \in Nat /\ cluster < b
  BY <1>1 DEF Inside
<1>3. \A b \in Inside(cluster) : items[b].kind \in BlockIds => m < b
  BY <1>1, <1>2
<1>4. ASSUME m + 1 \in Inside(cluster), items[m + 1].kind \in BlockIds
      PROVE  BeforeBlocks(cluster) = (cluster + 1)..m /\ HasBlocks(cluster)
  <2>1. ASSUME NEW j \in BeforeBlocks(cluster) PROVE j \in (cluster + 1)..m
    <3>1. j \in Inside(cluster) /\ j < m + 1
      BY <1>4 DEF BeforeBlocks
    <3>2. QED
      BY <1>1, <1>2, <3>1
  <2>2. ASSUME NEW j \in (cluster + 1)..m PROVE j \in BeforeBlocks(cluster)
    <3>1. \A b \in Inside(cluster) : items[b].kind \in BlockIds => j < b
      BY <1>1, <1>2, <1>3
    <3>2. QED
      BY <1>1, <3>1 DEF BeforeBlocks
  <2>3. QED
    BY <1>4, <2>1, <2>2 DEF HasBlocks
<1>5. ASSUME m + 1 \in Inside(cluster), items[m + 1].kind \notin BlockIds
      PROVE  m + 1 \in BeforeBlocks(cluster)
  <2>1. ASSUME NEW b \in Inside(cluster), items[b].kind \in BlockIds PROVE m + 1 < b
    <3>1. b \in Nat /\ m < b /\ b # m + 1
      BY <1>2, <1>3, <1>5, <2>1
    <3>2. QED
      BY <1>1, <3>1
  <2>2. QED
    BY <1>5, <2>1 DEF BeforeBlocks
<1>6. ASSUME Inside(cluster) = (cluster + 1)..m
      PROVE  BeforeBlocks(cluster) = Inside(cluster) /\ ~HasBlocks(cluster)
  BY <1>1, <1>6 DEF BeforeBlocks, HasBlocks
<1>7. QED
  BY <1>4, <1>5, <1>6

(* The last element inside ends where the cluster does, or beyond.         *)
LEMMA FillsIs ==
    ASSUME StreamOK, cluster \in 1..Len(items), NEW n \in cluster..Len(items),
           \A j \in (cluster + 1)..n : At(j) < Stop(cluster), Stop(cluster) <= EndOf(n)
    PROVE  Fills(cluster) <=> EndOf(n) = Stop(cluster)
<1>1. /\ Inside(cluster) = (cluster + 1)..n
      /\ n \in 1..Len(items) /\ n \in Nat /\ cluster \in Nat /\ cluster <= n
      /\ Stop(cluster) \in Nat /\ EndOf(n) \in Nat /\ EndOf(cluster) \in Nat
      /\ EndOf(cluster) <= Stop(cluster)
  <2>1. Inside(cluster) = (cluster + 1)..n
    BY InsideIs
  <2>2. n \in 1..Len(items) /\ n \in Nat /\ cluster \in Nat /\ cluster <= n
    BY ItemTypes
  <2>3. /\ Stop(cluster) \in Nat /\ EndOf(n) \in Nat /\ EndOf(cluster) \in Nat
        /\ items[cluster].declared \in Nat
        /\ Stop(cluster) = EndOf(cluster) + items[cluster].declared
    BY <2>2, ItemTypes
  <2>4. QED
    BY <2>1, <2>2, <2>3
<1>2. ASSUME Fills(cluster) PROVE EndOf(n) = Stop(cluster)
  <2>1. CASE n = cluster
    BY <1>1, <2>1
  <2>2. CASE n # cluster
    <3>1. n \in Inside(cluster)
      BY <1>1, <2>2
    <3>2. EndOf(n) <= Stop(cluster)
      BY <1>2, <3>1 DEF Fills
    <3>3. QED
      BY <1>1, <3>2
  <2>3. QED
    BY <2>1, <2>2
<1>3. ASSUME EndOf(n) = Stop(cluster), NEW j \in Inside(cluster)
      PROVE  EndOf(j) <= Stop(cluster)
  <2>1. j \in 1..Len(items) /\ j <= n
    BY <1>1
  <2>2. EndOf(j) <= EndOf(n)
    BY <1>1, <2>1, EndsOrdered
  <2>3. QED
    BY <1>3, <2>2
<1>4. QED
  BY <1>2, <1>3 DEF Fills

LEMMA MetaGoodIs ==
    ASSUME NEW m, MetaUpTo(m), BeforeBlocks(cluster) = (cluster + 1)..m
    PROVE  MetaGood(cluster) <=> Timed(m)
BY DEF MetaGood, Timed, MetaUpTo

(* A cluster that ended with its metadata.                                 *)
LEMMA BareVerdict ==
    ASSUME StreamOK, cluster \in 1..Len(items), NEW m \in 1..Len(items), MetaUpTo(m),
           Stop(cluster) <= EndOf(m)
    PROVE  /\ ~HasBlocks(cluster)
           /\ MetaGood(cluster) <=> Timed(m)
           /\ BlocksGood(cluster) <=> EndOf(m) = Stop(cluster)
<1>1. m \in cluster..Len(items) /\ \A j \in (cluster + 1)..m : At(j) < Stop(cluster)
  BY DEF MetaUpTo
<1>2. Inside(cluster) = (cluster + 1)..m /\ Stop(cluster) <= StreamEnd
  BY <1>1, InsideIs
<1>3. BeforeBlocks(cluster) = (cluster + 1)..m /\ ~HasBlocks(cluster)
  BY <1>2, BeforeIs
<1>4. MetaGood(cluster) <=> Timed(m)
  BY <1>3, MetaGoodIs
<1>5. Fills(cluster) <=> EndOf(m) = Stop(cluster)
  BY <1>1, FillsIs
<1>6. BlocksGood(cluster) <=> Fills(cluster)
  BY <1>2, <1>3 DEF BlocksGood
<1>7. QED
  BY <1>3, <1>4, <1>5, <1>6

(* One whose blocks were all read.                                         *)
LEMMA FullVerdict ==
    ASSUME StreamOK, cluster \in 1..Len(items),
           NEW m \in 1..Len(items), NEW n \in m..Len(items),
           MetaUpTo(m), BlockBehind(m), Stop(cluster) <= EndOf(n),
           \A j \in (m + 1)..n :
               At(j) < Stop(cluster) /\ items[j].kind = "Block" /\ Whole(j)
    PROVE  /\ Inside(cluster) = (cluster + 1)..n
           /\ MetaGood(cluster) <=> Timed(m)
           /\ BlocksGood(cluster) <=> EndOf(n) = Stop(cluster)
<1>1. /\ m \in Nat /\ n \in Nat /\ cluster \in Nat /\ cluster <= m /\ m <= n
      /\ n \in cluster..Len(items)
  BY ItemTypes DEF MetaUpTo
<1>2. \A j \in (cluster + 1)..n : At(j) < Stop(cluster)
  <2> SUFFICES ASSUME NEW j \in (cluster + 1)..n PROVE At(j) < Stop(cluster)
    OBVIOUS
  <2>1. j \in (cluster + 1)..m \/ j \in (m + 1)..n
    BY <1>1
  <2>2. QED
    BY <2>1 DEF MetaUpTo
<1>3. Inside(cluster) = (cluster + 1)..n /\ Stop(cluster) <= StreamEnd
  BY <1>1, <1>2, InsideIs
<1>4. m + 1 \in Inside(cluster) /\ items[m + 1].kind \in BlockIds
  BY <1>1, ItemTypes DEF BlockBehind, Inside
<1>5. BeforeBlocks(cluster) = (cluster + 1)..m
  BY <1>4, BeforeIs
<1>6. MetaGood(cluster) <=> Timed(m)
  BY <1>5, MetaGoodIs
<1>7. Fills(cluster) <=> EndOf(n) = Stop(cluster)
  BY <1>1, <1>2, FillsIs
<1>8. \A j \in Inside(cluster) \ BeforeBlocks(cluster) : j \in (m + 1)..n
  BY <1>1, <1>3, <1>5
<1>9. BlocksGood(cluster) <=> Fills(cluster)
  BY <1>3, <1>8 DEF BlocksGood
<1>10. QED
  BY <1>3, <1>6, <1>7, <1>9

(* One whose blocks were passed over.                                      *)
LEMMA PassedVerdict ==
    ASSUME StreamOK, cluster \in 1..Len(items), NEW m \in 1..Len(items),
           MetaUpTo(m), BlockBehind(m)
    PROVE  /\ HasBlocks(cluster)
           /\ MetaGood(cluster) <=> Timed(m)
           /\ FirstBlockThere(cluster)
           /\ BeforeBlocks(cluster) = (cluster + 1)..m /\ m + 1 \in Inside(cluster)
<1>1. m \in Nat /\ cluster \in Nat /\ cluster <= m
  BY ItemTypes DEF MetaUpTo
<1>2. m + 1 \in Inside(cluster) /\ items[m + 1].kind \in BlockIds /\ At(m + 1) < end
  BY <1>1, ItemTypes DEF BlockBehind, Inside
<1>3. BeforeBlocks(cluster) = (cluster + 1)..m /\ HasBlocks(cluster)
  BY <1>2, BeforeIs
<1>4. ASSUME NEW b \in Inside(cluster) \ BeforeBlocks(cluster),
             b - 1 \in BeforeBlocks(cluster) \cup {cluster}
      PROVE  At(b) < end
  <2>1. b \in Nat /\ cluster < b
    BY <1>1, ItemTypes DEF Inside
  <2>2. b = m + 1
    BY <1>1, <1>3, <1>4, <2>1
  <2>3. QED
    BY <1>2, <2>2
<1>5. FirstBlockThere(cluster)
  BY <1>4 DEF FirstBlockThere
<1>6. QED
  BY <1>2, <1>3, <1>5, MetaGoodIs

----------------------------------------------------------------------------
(* The verdict.                                                            *)

Accepted ==
    /\ MetaGood(cluster)
    /\ IF InMemory \/ ~HasBlocks(cluster) THEN BlocksGood(cluster)
       ELSE FirstBlockThere(cluster)

LEMMA ClusterTypes ==
    ASSUME TypeOK, cluster # 0
    PROVE  /\ StreamOK /\ cluster \in 1..Len(items) /\ read \in Nat /\ Declared \in Nat
           /\ EndOf(cluster) \in Nat /\ Stop(cluster) = EndOf(cluster) + Declared
BY ItemTypes DEF TypeOK, Declared

LEMMA EndVerdict ==
    ASSUME TypeOK, ReadingMeta, ReadingBlocks, phase \in {"meta", "blocks"},
           ~(read < Declared)
    PROVE  Accepted <=> (read = Declared /\ have)
<1>1. /\ StreamOK /\ cluster \in 1..Len(items) /\ read \in Nat /\ Declared \in Nat
      /\ EndOf(cluster) \in Nat /\ Stop(cluster) = EndOf(cluster) + Declared
  BY ClusterTypes DEF TypeOK
<1>2. ASSUME NEW n \in 1..Len(items), read = EndOf(n) - EndOf(cluster)
      PROVE  /\ Stop(cluster) <= EndOf(n)
             /\ EndOf(n) = Stop(cluster) <=> read = Declared
  <2>1. EndOf(n) \in Nat
    BY <1>1, ItemTypes
  <2>2. QED
    BY <1>1, <1>2, <2>1
<1>3. CASE phase = "meta"
  <2>1. PICK m \in 1..Len(items) :
          /\ MetaUpTo(m) /\ have = Timed(m)
          /\ \/ read = EndOf(m) - EndOf(cluster)
             \/ read = Declared /\ ~InMemory /\ BlockBehind(m)
    BY <1>3 DEF ReadingMeta
  <2>2. CASE read = EndOf(m) - EndOf(cluster)
    BY <1>1, <1>2, <2>1, <2>2, BareVerdict DEF Accepted
  <2>3. CASE read = Declared /\ ~InMemory /\ BlockBehind(m)
    BY <1>1, <2>1, <2>3, PassedVerdict DEF Accepted
  <2>4. QED
    BY <2>1, <2>2, <2>3
<1>4. CASE phase = "blocks"
  <2>1. PICK m \in 1..Len(items), n \in 1..Len(items) :
          /\ MetaUpTo(m) /\ have = Timed(m) /\ BlockBehind(m)
          /\ n \in m..Len(items)
          /\ \A j \in (m + 1)..n :
                At(j) < Stop(cluster) /\ items[j].kind = "Block" /\ Whole(j)
          /\ read = EndOf(n) - EndOf(cluster)
    BY <1>4 DEF ReadingBlocks, HasBlocksTo
  <2>2. InMemory
    BY <1>4 DEF ReadingBlocks
  <2>3. QED
    BY <1>1, <1>2, <2>1, <2>2, FullVerdict DEF Accepted
<1>5. QED
  BY <1>3, <1>4

(* Where a read fails there is something wrong, or nothing.                *)
LEMMA FailVerdict ==
    ASSUME TypeOK, ReadingMeta, ReadingBlocks,
           \/ /\ Taking("meta", Declared)
              /\ ~Knows(BlockIds) /\ (Knows(Meta) => ~Whole(Here))
           \/ /\ Taking("blocks", Declared)
              /\ Knows({"Block"}) => ~Whole(Here)
    PROVE  ~Accepted
<1>1. /\ StreamOK /\ cluster \in 1..Len(items) /\ read \in Nat /\ Declared \in Nat
      /\ EndOf(cluster) \in Nat /\ Stop(cluster) = EndOf(cluster) + Declared
      /\ read < Declared
  BY ClusterTypes DEF TypeOK, Taking
<1>2. ASSUME NEW n \in 1..Len(items), rpos = EndOf(n), read = EndOf(n) - EndOf(cluster)
      PROVE  /\ EndOf(n) < Stop(cluster)
             /\ \/ /\ n + 1 \in 1..Len(items) /\ rpos = At(n + 1)
                   /\ There(rpos) => Here = n + 1 /\ At(n + 1) < end
                   /\ ~There(rpos) => ~(At(n + 1) < end) /\ ~Whole(n + 1)
                \/ n = Len(items) /\ ~There(rpos)
  <2>1. EndOf(n) \in Nat
    BY <1>1, ItemTypes
  <2>2. EndOf(n) < Stop(cluster)
    BY <1>1, <1>2, <2>1
  <2>3. CASE n = Len(items) /\ ~There(EndOf(n))
    BY <1>2, <2>2, <2>3
  <2>4. CASE /\ n + 1 \in 1..Len(items) /\ EndOf(n) = At(n + 1) /\ ItemAt(EndOf(n)) = n + 1
             /\ There(EndOf(n)) <=> EndOf(n) < end
    <3>1. At(n + 1) < EndOf(n + 1) /\ At(n + 1) \in Nat /\ EndOf(n + 1) \in Nat /\ end \in Int
      BY <1>1, <2>4, ItemTypes
    <3>2. ~(At(n + 1) < end) => ~Whole(n + 1)
      BY <3>1 DEF Whole
    <3>3. There(rpos) <=> At(n + 1) < end
      BY <1>2, <2>4
    <3>4. Here = n + 1 /\ rpos = At(n + 1)
      BY <1>2, <2>4 DEF Here
    <3>5. QED
      BY <2>2, <2>4, <3>2, <3>3, <3>4
  <2>5. QED
    BY <1>1, <2>3, <2>4, BehindItem
<1>3. CASE phase = "meta"
  <2>1. PICK m \in 1..Len(items) :
          /\ MetaUpTo(m) /\ rpos = EndOf(m) /\ read = EndOf(m) - EndOf(cluster)
    BY <1>1, <1>3 DEF ReadingMeta
  <2>2. m \in cluster..Len(items) /\ \A j \in (cluster + 1)..m : At(j) < Stop(cluster)
    BY <2>1 DEF MetaUpTo
  <2>3. ~Knows(BlockIds) /\ (Knows(Meta) => ~Whole(Here))
    BY <1>3 DEF Taking
  <2>4. CASE m + 1 \in Inside(cluster)
    <3>1. /\ m + 1 \in 1..Len(items)
          /\ There(rpos) => Here = m + 1 /\ At(m + 1) < end
          /\ ~There(rpos) => ~(At(m + 1) < end) /\ ~Whole(m + 1)
      <4>1. m # Len(items)
        <5>1. m + 1 \in DOMAIN items
          BY <2>4 DEF Inside
        <5>2. DOMAIN items = 1..Len(items) /\ Len(items) \in Nat
          BY <1>1, ItemTypes
        <5> DEFINE last == Len(items)
        <5>3. m + 1 <= last /\ m \in Int /\ last \in Int
          BY <5>1, <5>2
        <5> HIDE DEF last
        <5>4. m # last
          BY <5>3
        <5>5. QED
          BY <5>4 DEF last
      <4>2. QED
        BY <1>2, <2>1, <4>1
    <3>2. CASE items[m + 1].kind \in BlockIds
      <4>1. ~There(rpos)
        BY <2>3, <3>1, <3>2 DEF Knows
      <4>2. BeforeBlocks(cluster) = (cluster + 1)..m /\ HasBlocks(cluster)
        BY <1>1, <2>1, <2>4, <3>2, BeforeIs
      <4>3. m + 1 \in Inside(cluster) \ BeforeBlocks(cluster)
        BY <1>1, <2>4, <4>2, ItemTypes
      <4>4. (m + 1) - 1 \in BeforeBlocks(cluster) \cup {cluster}
        BY <1>1, <2>2, <4>2, ItemTypes
      <4>5. ~BlocksGood(cluster)
        BY <3>1, <4>1, <4>3 DEF BlocksGood
      <4>6. ~FirstBlockThere(cluster)
        BY <3>1, <4>1, <4>3, <4>4 DEF FirstBlockThere
      <4>7. QED
        BY <4>5, <4>6 DEF Accepted
    <3>3. CASE items[m + 1].kind \notin BlockIds
      <4>1. m + 1 \in BeforeBlocks(cluster)
        BY <1>1, <2>1, <2>4, <3>3, BeforeIs
      <4>2. items[m + 1].kind \notin Meta \/ ~Whole(m + 1)
        BY <2>3, <3>1 DEF Knows
      <4>3. QED
        BY <4>1, <4>2 DEF Accepted, MetaGood
    <3>4. QED
      BY <3>2, <3>3
  <2>5. CASE Inside(cluster) = (cluster + 1)..m /\ StreamEnd < Stop(cluster)
    <3>1. ~HasBlocks(cluster)
      BY <1>1, <2>1, <2>5, BeforeIs
    <3>2. StreamEnd \in Nat /\ Stop(cluster) \in Nat
      BY <1>1, ItemTypes
    <3>3. ~BlocksGood(cluster)
      BY <2>5, <3>2 DEF BlocksGood
    <3>4. QED
      BY <3>1, <3>3 DEF Accepted
  <2>6. EndOf(m) < Stop(cluster)
    BY <1>2, <2>1
  <2>7. QED
    BY <1>1, <2>2, <2>4, <2>5, <2>6, InsideIs
<1>4. CASE phase = "blocks"
  <2>1. PICK m \in 1..Len(items), n \in 1..Len(items) :
          /\ MetaUpTo(m) /\ BlockBehind(m) /\ n \in m..Len(items)
          /\ \A j \in (m + 1)..n : At(j) < Stop(cluster)
          /\ rpos = EndOf(n) /\ read = EndOf(n) - EndOf(cluster)
    BY <1>4 DEF ReadingBlocks, HasBlocksTo
  <2>2. InMemory /\ (Knows({"Block"}) => ~Whole(Here))
    BY <1>4 DEF ReadingBlocks, Taking
  <2>3. /\ m \in Nat /\ n \in Nat /\ cluster \in Nat /\ cluster <= m /\ m <= n
        /\ n \in cluster..Len(items)
    BY <1>1, <2>1, ItemTypes DEF MetaUpTo
  <2>4. \A j \in (cluster + 1)..n : At(j) < Stop(cluster)
    <3> SUFFICES ASSUME NEW j \in (cluster + 1)..n PROVE At(j) < Stop(cluster)
      OBVIOUS
    <3>1. j \in (cluster + 1)..m \/ j \in (m + 1)..n
      BY <2>3
    <3>2. QED
      BY <2>1, <3>1 DEF MetaUpTo
  <2>5. BeforeBlocks(cluster) = (cluster + 1)..m
    BY <1>1, <2>1, PassedVerdict
  <2>6. CASE n + 1 \in Inside(cluster)
    <3>1. n # Len(items)
      <4>1. n + 1 \in DOMAIN items
        BY <2>6 DEF Inside
      <4>2. DOMAIN items = 1..Len(items) /\ Len(items) \in Nat
        BY <1>1, ItemTypes
      <4> DEFINE last == Len(items)
      <4>3. n + 1 <= last /\ n \in Int /\ last \in Int
        BY <4>1, <4>2
      <4> HIDE DEF last
      <4>4. n # last
        BY <4>3
      <4>5. QED
        BY <4>4 DEF last
    <3>2. items[n + 1].kind # "Block" \/ ~Whole(n + 1)
      BY <1>2, <2>1, <2>2, <3>1 DEF Knows
    <3>3. n + 1 \notin BeforeBlocks(cluster)
      BY <2>3, <2>5
    <3>4. ~BlocksGood(cluster)
      BY <2>6, <3>2, <3>3 DEF BlocksGood
    <3>5. QED
      BY <2>2, <3>4 DEF Accepted
  <2>7. CASE StreamEnd < Stop(cluster)
    <3>1. StreamEnd \in Nat /\ Stop(cluster) \in Nat
      BY <1>1, ItemTypes
    <3>2. ~BlocksGood(cluster)
      BY <2>7, <3>1 DEF BlocksGood
    <3>3. QED
      BY <2>2, <3>2 DEF Accepted
  <2>8. EndOf(n) < Stop(cluster)
    BY <1>2, <2>1
  <2>9. QED
    BY <1>1, <2>3, <2>4, <2>6, <2>7, <2>8, InsideIs
<1>5. QED
  BY <1>3, <1>4 DEF Taking

----------------------------------------------------------------------------
(* Types.                                                                  *)

ObjectTypeOK == obj \in Objects
IteratorTypeOK == its \in [Iterators -> IteratorStates]
RestTypeOK ==
    /\ rpos \in Nat /\ cpos \in Nat /\ saved \in Nat
    /\ phase \in {"idle", "meta", "blocks", "ready", "count", "astray"}
    /\ read \in Nat /\ have \in BOOLEAN /\ number \in Nat
    /\ result \in Answers \cup {"none", "exception", "counted", "loaded", "assertion", "astray"}
    /\ cluster \in 0..Len(items)
    /\ phase \in {"meta", "blocks", "ready", "count"} => cluster # 0
    /\ result \in Answers => cluster # 0

LEMMA TypeStarts == Init => TypeOK
<1> SUFFICES ASSUME Init PROVE TypeOK
  OBVIOUS
<1>1. /\ items \in Seq(Elements) /\ items # <<>>
      /\ \A k \in DOMAIN items :
            items[k].at = IF k = 1 THEN 0 ELSE items[k - 1].at + items[k - 1].len
  BY StreamsAssumption DEF Init
<1>2. Len(items) \in Nat \ {0} /\ DOMAIN items = 1..Len(items) /\ Len(items) \in 1..Len(items)
  BY <1>1
<1>3. StreamEnd \in Nat
  <2>1. items[Len(items)] \in Elements
    BY <1>1, <1>2
  <2>2. QED
    BY <2>1 DEF Elements, StreamEnd, EndOf, At
<1>4. end \in Int /\ end <= StreamEnd
  <2>1. PICK n \in Cuts : end = StreamEnd - n
    BY DEF Init
  <2>2. n \in Nat
    BY StreamsAssumption
  <2>3. QED
    BY <1>3, <2>1, <2>2
<1>5. StreamOK
  BY <1>1, <1>2, <1>4 DEF StreamOK, At
<1>6. obj \in Objects
  <2>1. PICK f \in {"memory", "file"} : obj = NewObject(f)
    BY StreamsAssumption DEF Init
  <2>2. NoMeta \in [Meta -> Nat] /\ <<>> \in Seq(1..Len(items))
    BY DEF NoMeta, Meta
  <2>3. QED
    BY <2>1, <2>2 DEF Objects, NewObject
<1>7. its \in [Iterators -> IteratorStates]
  BY <1>2 DEF Init, IteratorStates, NoBlock
<1>8. RestTypeOK
  <2>1. /\ rpos = 0 /\ cpos = 0 /\ saved = 0 /\ phase = "idle" /\ read = 0 /\ have = FALSE
        /\ result = "none" /\ number = 0 /\ cluster = 0
    BY DEF Init
  <2>2. 0 \in 0..Len(items) /\ 0 \in Nat
    BY <1>2
  <2>3. "none" \notin Answers
    BY DEF Answers
  <2>4. QED
    BY <2>1, <2>2, <2>3 DEF RestTypeOK
<1>9. QED
  BY <1>5, <1>6, <1>7, <1>8 DEF TypeOK, RestTypeOK

LEMMA StreamStill == [Next]_vars => UNCHANGED <<items, end>>
BY DEF Next, vars, ReadCluster, ReadMeta, MeetBlock, ReadBlock, ReadFails, EndRead, Seek,
       StartCount, CountBlock, EndCount, CountAsserts, Begin, Increment, IncrementAstray,
       Load, Return, stream

LEMMA HereTypes ==
    ASSUME StreamOK, NEW kinds, Knows(kinds)
    PROVE  /\ Here \in 1..Len(items) /\ At(Here) = rpos /\ rpos < end
           /\ items[Here].kind \in kinds
<1>1. StartsAt(rpos) # {} /\ rpos < end /\ items[Here].kind \in kinds
  BY DEF Knows, There
<1>2. Here \in StartsAt(rpos)
  BY <1>1 DEF Here, ItemAt
<1>3. QED
  BY <1>1, <1>2, ItemTypes DEF StartsAt

LEMMA MergedType ==
    ASSUME NEW old \in [Meta -> Nat], NEW e \in Elements, e.kind \in Meta
    PROVE  Merged(old, e) \in [Meta -> Nat]
BY DEF Merged, Elements, Meta

LEMMA ObjectTypeKeeps ==
    ASSUME TypeOK, [Next]_vars
    PROVE  ObjectTypeOK' /\ obj'.flavour = obj.flavour
<1>1. UNCHANGED <<items, end>> /\ StreamOK
  BY StreamStill DEF TypeOK
<1>2. CASE UNCHANGED obj
  BY <1>1, <1>2 DEF TypeOK, ObjectTypeOK, Objects
<1>3. CASE ReadCluster
  <2>1. PICK k \in 1..Len(items) : obj' = [obj EXCEPT !.offset = At(k), !.meta = NoMeta]
    BY <1>1, <1>3, ItemTypes DEF ReadCluster
  <2>2. At(k) \in Nat /\ NoMeta \in [Meta -> Nat]
    BY <1>1, ItemTypes DEF NoMeta, Meta
  <2>3. QED
    BY <1>1, <2>1, <2>2 DEF TypeOK, ObjectTypeOK, Objects
<1>4. CASE ReadMeta
  <2>1. Here \in 1..Len(items) /\ items[Here].kind \in Meta
    BY <1>1, <1>4, HereTypes DEF ReadMeta
  <2>2. items[Here] \in Elements /\ obj.meta \in [Meta -> Nat]
    BY <1>1, <2>1 DEF StreamOK, TypeOK, Objects
  <2>3. Merged(obj.meta, items[Here]) \in [Meta -> Nat]
    BY <2>1, <2>2, MergedType
  <2>4. obj' = [obj EXCEPT !.meta = Merged(obj.meta, items[Here])]
    BY <1>4 DEF ReadMeta
  <2>5. QED
    BY <1>1, <2>3, <2>4 DEF TypeOK, ObjectTypeOK, Objects
<1>5. CASE MeetBlock
  <2>1. CASE InMemory
    <3>1. obj' = [obj EXCEPT !.blocks = <<>>] /\ <<>> \in Seq(1..Len(items))
      BY <1>5, <2>1 DEF MeetBlock
    <3>2. QED
      BY <1>1, <3>1 DEF TypeOK, ObjectTypeOK, Objects
  <2>2. CASE ~InMemory
    <3>1. /\ rpos' = rpos + Declared - read
          /\ obj' = [obj EXCEPT !.opened = TRUE, !.start = rpos, !.stop = rpos']
          /\ read < Declared /\ cluster # 0
      BY <1>5, <2>2 DEF MeetBlock, Taking, TypeOK
    <3>2. Declared \in Nat /\ read \in Nat /\ rpos \in Nat
      BY <3>1, ClusterTypes DEF TypeOK
    <3>3. rpos' \in Nat
      BY <3>1, <3>2
    <3>4. QED
      BY <1>1, <3>1, <3>2, <3>3 DEF TypeOK, ObjectTypeOK, Objects
  <2>3. QED
    BY <2>1, <2>2
<1>6. CASE ReadBlock
  <2>1. Here \in 1..Len(items)
    BY <1>1, <1>6, HereTypes DEF ReadBlock
  <2>2. obj' = [obj EXCEPT !.blocks = Append(obj.blocks, Here)]
    BY <1>6 DEF ReadBlock
  <2>3. Append(obj.blocks, Here) \in Seq(1..Len(items))
    BY <2>1 DEF TypeOK, Objects
  <2>4. QED
    BY <1>1, <2>2, <2>3 DEF TypeOK, ObjectTypeOK, Objects
<1>7. QED
  BY <1>2, <1>3, <1>4, <1>5, <1>6
     DEF Next, vars, ReadFails, EndRead, Seek, StartCount, CountBlock, EndCount,
         CountAsserts, Begin, Increment, IncrementAstray, Load, Return

LEMMA IteratorTypeKeeps ==
    ASSUME TypeOK, [Next]_vars
    PROVE  IteratorTypeOK'
<1>1. UNCHANGED <<items, end>> /\ StreamOK /\ Len(items) \in Nat
  BY StreamStill, ItemTypes DEF TypeOK
<1>2. CASE UNCHANGED its
  BY <1>1, <1>2 DEF TypeOK, IteratorTypeOK, IteratorStates
<1>3. CASE ReadCluster
  <2>1. its' = [i \in Iterators |-> NoBlock]
    BY <1>3 DEF ReadCluster
  <2>2. NoBlock \in IteratorStates'
    BY <1>1 DEF NoBlock, IteratorStates
  <2>3. QED
    BY <2>1, <2>2 DEF IteratorTypeOK
<1>4. ASSUME NEW i \in Iterators, \E p : Load(i, p)
      PROVE  IteratorTypeOK'
  <2> PICK p : Load(i, p)
    BY <1>4
  <2>1. its \in [Iterators -> IteratorStates] /\ IteratorStates' = IteratorStates
    BY <1>1 DEF TypeOK, IteratorStates
  <2>2. CASE its' = [its EXCEPT ![i].block = 0, ![i].begun = TRUE]
    <3> DEFINE r == [its[i] EXCEPT !.block = 0, !.begun = TRUE]
    <3>1. its' = [its EXCEPT ![i] = r]
      BY <2>1, <2>2
    <3>2. r \in IteratorStates
      <4>1. its[i] \in IteratorStates /\ 0 \in 0..Len(items)
        BY <1>1, <2>1
      <4>2. QED
        BY <4>1 DEF IteratorStates
    <3> HIDE DEF r
    <3>3. QED
      BY <2>1, <3>1, <3>2 DEF IteratorTypeOK
  <2>3. CASE /\ There(p)
             /\ its' = [its EXCEPT ![i] =
                   [block |-> ItemAt(p), seen |-> Append(@.seen, ItemAt(p)), begun |-> TRUE]]
    <3>1. ItemAt(p) \in 1..Len(items)
      <4>1. ItemAt(p) \in StartsAt(p)
        BY <2>3 DEF There, ItemAt
      <4>2. QED
        BY <1>1, <4>1, ItemTypes DEF StartsAt
    <3>2. Append(its[i].seen, ItemAt(p)) \in Seq(1..Len(items))
      BY <2>1, <3>1 DEF IteratorStates
    <3>3. [block |-> ItemAt(p), seen |-> Append(its[i].seen, ItemAt(p)), begun |-> TRUE]
              \in IteratorStates
      BY <1>1, <3>1, <3>2 DEF IteratorStates
    <3>4. QED
      BY <2>1, <2>3, <3>3 DEF IteratorTypeOK
  <2>4. QED
    BY <1>2, <2>2, <2>3 DEF Load
<1>5. CASE \E i \in Iterators : Begin(i) \/ Increment(i) \/ IncrementAstray(i)
  <2>1. PICK i \in Iterators : Begin(i) \/ Increment(i) \/ IncrementAstray(i)
    BY <1>5
  <2>2. (\E p : Load(i, p)) \/ UNCHANGED its
    BY <2>1 DEF Begin, Increment, IncrementAstray
  <2>3. CASE UNCHANGED its
    BY <1>2, <2>3
  <2>4. QED
    BY <1>4, <2>2, <2>3
<1>6. CASE \/ ReadMeta \/ MeetBlock \/ ReadBlock \/ ReadFails \/ EndRead \/ Seek
           \/ StartCount \/ CountBlock \/ EndCount \/ CountAsserts \/ UNCHANGED vars
  BY <1>2, <1>6
     DEF vars, ReadMeta, MeetBlock, ReadBlock, ReadFails, EndRead, Seek, StartCount,
         CountBlock, EndCount, CountAsserts, Return
<1>7. QED
  BY <1>3, <1>5, <1>6 DEF Next

LEMMA RestTypeKeeps ==
    ASSUME TypeOK, [Next]_vars
    PROVE  RestTypeOK'
<1>1. UNCHANGED <<items, end>> /\ StreamOK /\ Len(items) \in Nat /\ Len(items)' = Len(items)
  BY StreamStill, ItemTypes DEF TypeOK
<1>2. RestTypeOK
  BY DEF TypeOK, RestTypeOK
<1>3. CASE ReadCluster
  <2>1. PICK k \in 1..Len(items) : cluster' = k /\ rpos' = EndOf(k)
    BY <1>1, <1>3, ItemTypes DEF ReadCluster
  <2>2. EndOf(k) \in Nat /\ k \in 0..Len(items) /\ k # 0
    BY <1>1, <2>1, ItemTypes
  <2>3. /\ phase' = "meta" /\ result' = "none" /\ number' = 0
        /\ UNCHANGED <<read, have, saved, cpos>>
    BY <1>3 DEF ReadCluster
  <2>4. QED
    BY <1>1, <1>2, <2>1, <2>2, <2>3 DEF RestTypeOK, Answers
<1>4. CASE ReadMeta \/ ReadBlock \/ CountBlock
  <2>1. \E kinds : Knows(kinds)
    BY <1>4 DEF ReadMeta, ReadBlock, CountBlock
  <2>2. /\ EndOf(Here) \in Nat /\ items[Here].len \in Nat
    BY <1>1, <2>1, HereTypes, ItemTypes
  <2>3. /\ rpos' = EndOf(Here) /\ read' = read + items[Here].len
        /\ UNCHANGED <<phase, result, cluster, saved, cpos>>
        /\ number' = number \/ number' = number + 1
        /\ have' \in BOOLEAN
    BY <1>2, <1>4 DEF ReadMeta, ReadBlock, CountBlock, Took, RestTypeOK
  <2>4. QED
    BY <1>1, <1>2, <2>2, <2>3 DEF RestTypeOK
<1>5. CASE MeetBlock
  <2>1. phase = "meta" /\ cluster # 0 /\ read < Declared
    BY <1>2, <1>5 DEF MeetBlock, Taking, RestTypeOK
  <2>2. Declared \in Nat
    BY <2>1, ClusterTypes
  <2>3. rpos' \in Nat /\ read' \in Nat
    <3>1. rpos \in Nat /\ read \in Nat
      BY <1>2 DEF RestTypeOK
    <3>2. CASE rpos' = rpos + Declared - read /\ read' = Declared
      BY <2>1, <2>2, <3>1, <3>2
    <3>3. CASE UNCHANGED <<rpos, read>>
      BY <3>1, <3>3
    <3>4. QED
      BY <1>5, <3>2, <3>3 DEF MeetBlock
  <2>4. /\ phase' \in {"meta", "blocks"} /\ UNCHANGED <<have, saved, result, number, cluster, cpos>>
    BY <1>5, <2>1 DEF MeetBlock
  <2>5. QED
    BY <1>1, <1>2, <2>1, <2>3, <2>4 DEF RestTypeOK
<1>6. ASSUME NEW state \in {"idle", "ready"}, NEW why, Return(state, why),
             \/ phase \in {"meta", "blocks"} /\ why \in Answers
             \/ why = "exception" /\ phase = "count"
      PROVE  RestTypeOK'
  <2>1. /\ phase' = state /\ result' = why /\ cpos' = rpos /\ number' = 0
        /\ read' = 0 /\ have' = FALSE /\ saved' = 0 /\ UNCHANGED <<rpos, cluster>>
    BY <1>6 DEF Return, Forget
  <2>2. cluster # 0
    BY <1>2, <1>6 DEF RestTypeOK
  <2>3. QED
    BY <1>1, <1>2, <1>6, <2>1, <2>2 DEF RestTypeOK
<1>7. CASE ReadFails
  BY <1>6, <1>7 DEF ReadFails, Taking, Answers
<1>8. CASE EndRead
  BY <1>6, <1>8 DEF EndRead, Answers
<1>9. CASE EndCount
  <2>1. CASE Return("ready", "exception")
    BY <1>6, <1>9, <2>1 DEF EndCount
  <2>2. CASE /\ phase' = "ready" /\ result' = "counted" /\ Forget /\ rpos' = saved
             /\ UNCHANGED <<number, cluster, cpos>>
    <3>1. cluster # 0
      BY <1>2, <1>9 DEF EndCount, RestTypeOK
    <3>2. QED
      BY <1>1, <1>2, <2>2, <3>1 DEF RestTypeOK, Forget, Answers
  <2>3. QED
    BY <1>9, <2>1, <2>2 DEF EndCount, Restored
<1>10. CASE Seek
  <2>1. PICK k \in 1..Len(items) : rpos' = At(k)
    BY <1>1, <1>10, ItemTypes DEF Seek
  <2>2. rpos' \in Nat
    BY <1>1, <2>1, ItemTypes
  <2>3. /\ cpos' = rpos' /\ result' = "none" /\ number' = 0
        /\ UNCHANGED <<phase, read, have, saved, cluster>>
    BY <1>10 DEF Seek
  <2>4. QED
    BY <1>1, <1>2, <2>2, <2>3 DEF RestTypeOK, Answers
<1>11. CASE StartCount
  <2>1. obj.start \in Nat
    BY DEF TypeOK, Objects
  <2>2. phase = "ready"
    BY <1>11 DEF StartCount, Usable
  <2>3. /\ phase' = "count" /\ saved' = rpos /\ rpos' = obj.start /\ number' = 0
        /\ result' = "none" /\ UNCHANGED <<read, have, cluster, cpos>>
    BY <1>11 DEF StartCount
  <2>4. QED
    BY <1>1, <1>2, <2>1, <2>2, <2>3 DEF RestTypeOK, Answers
<1>12. CASE CountAsserts
  BY <1>1, <1>2, <1>12 DEF CountAsserts, RestTypeOK, Answers
<1>13. ASSUME NEW i \in Iterators, Begin(i) \/ Increment(i) \/ IncrementAstray(i)
       PROVE  RestTypeOK'
  <2>1. CASE IncrementAstray(i)
    BY <1>1, <1>2, <2>1 DEF IncrementAstray, RestTypeOK, Answers
  <2>2. ASSUME NEW p \in Nat, Load(i, p)
        PROVE  RestTypeOK'
    <3>1. rpos' \in Nat /\ cpos' \in Nat
      BY <1>2, <2>2 DEF RestTypeOK, Load, Restored
    <3>2. /\ result' \in {"loaded", "exception"} /\ number' = 0
          /\ UNCHANGED <<phase, read, have, saved, cluster>>
      BY <2>2 DEF Load
    <3>3. QED
      BY <1>1, <1>2, <3>1, <3>2 DEF RestTypeOK, Answers
  <2>3. CASE Begin(i)
    BY <2>2, <2>3 DEF Begin, TypeOK, Objects
  <2>4. CASE Increment(i)
    <3>1. its[i].block \in 1..Len(items)
      BY <1>1, <2>4 DEF Increment, TypeOK, IteratorStates
    <3>2. BehindBlock(its[i].block) \in Nat
      BY <1>1, <3>1, ItemTypes, SMTT(30) DEF BehindBlock
    <3>3. QED
      BY <2>2, <2>4, <3>2 DEF Increment
  <2>5. QED
    BY <1>13, <2>1, <2>3, <2>4
<1>14. CASE UNCHANGED vars
  BY <1>1, <1>2, <1>14 DEF vars, RestTypeOK
<1>15. QED
  BY <1>3, <1>4, <1>5, <1>7, <1>8, <1>9, <1>10, <1>11, <1>12, <1>13, <1>14 DEF Next

LEMMA TypeKeeps == TypeOK /\ [Next]_vars => TypeOK'
<1> SUFFICES ASSUME TypeOK, [Next]_vars PROVE TypeOK'
  OBVIOUS
<1>1. StreamOK'
  BY StreamStill DEF TypeOK, StreamOK, StreamEnd, EndOf, At
<1>2. ObjectTypeOK' /\ IteratorTypeOK' /\ RestTypeOK'
  BY ObjectTypeKeeps, IteratorTypeKeeps, RestTypeKeeps
<1>3. QED
  BY <1>1, <1>2 DEF TypeOK, ObjectTypeOK, IteratorTypeOK, RestTypeOK

----------------------------------------------------------------------------
(* How far the running call has come.                                      *)

(* Between two calls their variables are as at the start.                  *)
Rested == Idle => read = 0 /\ have = FALSE

LEMMA RestedKeeps ==
    ASSUME Rested, [Next]_vars
    PROVE  Rested'
<1>1. CASE ReadCluster \/ ReadMeta \/ MeetBlock \/ ReadBlock \/ StartCount \/ CountBlock
  BY <1>1 DEF ReadCluster, ReadMeta, MeetBlock, ReadBlock, StartCount, CountBlock, Rested,
              Idle, Taking
<1>2. CASE ReadFails \/ EndRead \/ EndCount
  BY <1>2 DEF ReadFails, EndRead, EndCount, Return, Forget, Rested, Idle
<1>3. CASE Seek \/ CountAsserts \/ UNCHANGED vars
  BY <1>3 DEF Seek, CountAsserts, vars, Rested, Idle
<1>4. ASSUME NEW i \in Iterators, Begin(i) \/ Increment(i) \/ IncrementAstray(i)
      PROVE  Rested'
  BY <1>4 DEF Begin, Increment, IncrementAstray, Load, Usable, Rested, Idle
<1>5. QED
  BY <1>1, <1>2, <1>3, <1>4 DEF Next

LEMMA MergedLen ==
    ASSUME NEW old \in [Meta -> Nat], NEW e \in Elements, e.kind \in Meta,
           old[e.kind] = NoMeta[e.kind]
    PROVE  /\ Merged(old, e)[e.kind] = e.own
           /\ \A kind \in Meta \ {e.kind} : Merged(old, e)[kind] = old[kind]
           /\ MetaLen(Merged(old, e))
                 = MetaLen(old) + e.own - (IF e.kind = "Timecode" THEN 2 ELSE 0)
           /\ MetaLen(old) \in Nat
<1>1. e.own \in Nat
  BY DEF Elements
<1>2. Merged(old, e) = [old EXCEPT ![e.kind] = e.own]
  <2>1. ~(e.kind = "SilentTracks" /\ old[e.kind] > 0)
    BY DEF NoMeta, Meta
  <2>2. Merged(old, e) = [old EXCEPT ![e.kind] =
            IF e.kind = "SilentTracks" /\ old[e.kind] > 0 /\ e.own > 0
            THEN old[e.kind] + e.own - 2 ELSE e.own]
    BY DEF Merged
  <2>3. QED
    BY <2>1, <2>2
<1>3. /\ old["Timecode"] \in Nat /\ old["SilentTracks"] \in Nat
      /\ old["Position"] \in Nat /\ old["PrevSize"] \in Nat
  BY DEF Meta
<1>4. old[e.kind] = IF e.kind = "Timecode" THEN 2 ELSE 0
  BY DEF NoMeta, Meta
<1>5. \A kind \in Meta : Merged(old, e)[kind] = IF kind = e.kind THEN e.own ELSE old[kind]
  BY <1>2
<1>6. MetaLen(Merged(old, e)) = MetaLen(old) + e.own - (IF e.kind = "Timecode" THEN 2 ELSE 0)
  <2> DEFINE new == Merged(old, e)
  <2>1. /\ new["Timecode"] = IF e.kind = "Timecode" THEN e.own ELSE old["Timecode"]
        /\ new["SilentTracks"] = IF e.kind = "SilentTracks" THEN e.own ELSE old["SilentTracks"]
        /\ new["Position"] = IF e.kind = "Position" THEN e.own ELSE old["Position"]
        /\ new["PrevSize"] = IF e.kind = "PrevSize" THEN e.own ELSE old["PrevSize"]
    BY <1>5 DEF Meta
  <2> HIDE DEF new
  <2>2. MetaLen(new) = MetaLen(old) + e.own - (IF e.kind = "Timecode" THEN 2 ELSE 0)
    <3>1. CASE e.kind = "Timecode"
      BY <1>1, <1>3, <1>4, <2>1, <3>1 DEF MetaLen
    <3>2. CASE e.kind = "SilentTracks"
      BY <1>1, <1>3, <1>4, <2>1, <3>2 DEF MetaLen
    <3>3. CASE e.kind = "Position"
      BY <1>1, <1>3, <1>4, <2>1, <3>3 DEF MetaLen
    <3>4. CASE e.kind = "PrevSize"
      BY <1>1, <1>3, <1>4, <2>1, <3>4 DEF MetaLen
    <3>5. QED
      BY <3>1, <3>2, <3>3, <3>4 DEF Meta
  <2>3. QED
    BY <2>2 DEF new
<1>7. MetaLen(old) \in Nat
  BY <1>3 DEF MetaLen
<1>8. QED
  BY <1>5, <1>6, <1>7

(* Another child of the metadata.                                          *)
LEMMA MetaGrows ==
    ASSUME StreamOK, cluster \in 1..Len(items), NEW m \in 1..Len(items),
           m + 1 \in 1..Len(items), MetaUpTo(m), At(m + 1) < Stop(cluster),
           items[m + 1].kind \in Meta, Whole(m + 1),
           NEW meta \in [Meta -> Nat], HasMeta(meta, m)
    PROVE  /\ MetaUpTo(m + 1) /\ HasMeta(Merged(meta, items[m + 1]), m + 1)
           /\ Timed(m + 1) <=> Timed(m) \/ items[m + 1].kind = "Timecode"
<1> DEFINE e == items[m + 1]
<1>1. /\ cluster \in Nat /\ m \in Nat /\ cluster <= m
      /\ \A j \in (cluster + 1)..(m + 1) : j \in (cluster + 1)..m \/ j = m + 1
      /\ (cluster + 1)..m \subseteq (cluster + 1)..(m + 1)
      /\ m + 1 \in (cluster + 1)..(m + 1)
  BY ItemTypes DEF MetaUpTo
<1>2. MetaUpTo(m + 1)
  <2>1. m + 1 \in cluster..Len(items)
    BY <1>1
  <2>2. QED
    BY <1>1, <2>1 DEF MetaUpTo
<1>3. Timed(m + 1) <=> Timed(m) \/ e.kind = "Timecode"
  BY <1>1 DEF Timed
<1>4. ASSUME Canonical(cluster)
      PROVE  /\ MetaLen(Merged(meta, e))
                   = EndOf(m + 1) - EndOf(cluster) + (IF Timed(m + 1) THEN 0 ELSE 2)
             /\ \A kind \in Meta :
                   (\A j \in (cluster + 1)..(m + 1) : items[j].kind # kind) =>
                       Merged(meta, e)[kind] = NoMeta[kind]
  <2>1. /\ MetaLen(meta) = EndOf(m) - EndOf(cluster) + (IF Timed(m) THEN 0 ELSE 2)
        /\ \A kind \in Meta :
              (\A j \in (cluster + 1)..m : items[j].kind # kind) => meta[kind] = NoMeta[kind]
    BY <1>4 DEF HasMeta
  <2>2. (cluster + 1)..(m + 1) \subseteq Inside(cluster)
    <3>1. /\ m + 1 \in cluster..Len(items)
          /\ \A j \in (cluster + 1)..(m + 1) : At(j) < Stop(cluster)
      BY <1>2 DEF MetaUpTo
    <3>2. QED
      BY <3>1, InsideIs
  <2>3. e.own = e.len
    BY <1>1, <1>4, <2>2 DEF Canonical
  <2>4. \A j \in (cluster + 1)..m : items[j].kind # e.kind
    <3> SUFFICES ASSUME NEW j \in (cluster + 1)..m, items[j].kind = e.kind PROVE FALSE
      OBVIOUS
    <3>1. j \in Inside(cluster) /\ m + 1 \in Inside(cluster)
      BY <1>1, <2>2
    <3>2. j = m + 1
      BY <1>4, <3>1 DEF Canonical
    <3>3. QED
      BY <1>1, <3>2
  <2>5. meta[e.kind] = NoMeta[e.kind]
    BY <2>1, <2>4
  <2>6. e \in Elements
    BY DEF StreamOK
  <2>7. /\ \A kind \in Meta \ {e.kind} : Merged(meta, e)[kind] = meta[kind]
        /\ MetaLen(Merged(meta, e)) = MetaLen(meta) + e.own - (IF e.kind = "Timecode" THEN 2 ELSE 0)
        /\ MetaLen(meta) \in Nat
    BY <2>5, <2>6, MergedLen
  <2>8. /\ EndOf(m + 1) = EndOf(m) + e.len /\ EndOf(m) \in Nat /\ EndOf(cluster) \in Nat
        /\ e.len \in Nat
    BY NextStarts, ItemTypes
  <2>9. e.kind = "Timecode" => ~Timed(m)
    BY <2>4 DEF Timed
  <2> HIDE DEF e
  <2>10. MetaLen(Merged(meta, e))
            = EndOf(m + 1) - EndOf(cluster) + (IF Timed(m + 1) THEN 0 ELSE 2)
    <3>1. CASE e.kind = "Timecode"
      BY <1>3, <2>1, <2>3, <2>7, <2>8, <2>9, <3>1
    <3>2. CASE e.kind # "Timecode"
      BY <1>3, <2>1, <2>3, <2>7, <2>8, <3>2, SMTT(30)
    <3>3. QED
      BY <3>1, <3>2
  <2>11. ASSUME NEW kind \in Meta, \A j \in (cluster + 1)..(m + 1) : items[j].kind # kind
         PROVE  Merged(meta, e)[kind] = NoMeta[kind]
    <3>1. kind # e.kind
      BY <1>1, <2>11 DEF e
    <3>2. \A j \in (cluster + 1)..m : items[j].kind # kind
      BY <1>1, <2>11
    <3>3. QED
      BY <2>1, <2>7, <3>1, <3>2
  <2>12. QED
    BY <2>10, <2>11
<1>5. HasMeta(Merged(meta, e), m + 1)
  BY <1>4 DEF HasMeta
<1>6. QED
  BY <1>2, <1>3, <1>5

LEMMA ListsMore ==
    ASSUME NEW ks \in Seq(Nat), NEW k \in Nat, NEW S, Lists(ks, S), \A n \in S : n < k
    PROVE  Lists(Append(ks, k), S \cup {k})
<1> DEFINE ls == Append(ks, k)
<1>1. /\ ls \in Seq(Nat) /\ Len(ls) = Len(ks) + 1 /\ Len(ks) \in Nat
      /\ \A i \in 1..Len(ks) : ls[i] = ks[i] /\ ks[i] \in S
      /\ ls[Len(ks) + 1] = k
      /\ \A i, j \in 1..Len(ks) : i < j => ks[i] < ks[j]
      /\ S = {ks[i] : i \in 1..Len(ks)}
  BY DEF Lists, ToSet
<1> HIDE DEF ls
<1>2. DOMAIN ls = 1..(Len(ks) + 1)
  BY <1>1
<1>3. \A i \in 1..(Len(ks) + 1) : i \in 1..Len(ks) \/ i = Len(ks) + 1
  BY <1>1
<1>4. ToSet(ls) = S \cup {k}
  <2>1. ASSUME NEW x \in ToSet(ls) PROVE x \in S \cup {k}
    <3>1. PICK i \in 1..(Len(ks) + 1) : x = ls[i]
      BY <1>2 DEF ToSet
    <3>2. QED
      BY <1>1, <1>3, <3>1
  <2>2. ASSUME NEW x \in S \cup {k} PROVE x \in ToSet(ls)
    <3>1. CASE x = k
      <4>1. Len(ks) + 1 \in DOMAIN ls
        BY <1>1, <1>2
      <4>2. QED
        BY <1>1, <3>1, <4>1 DEF ToSet
    <3>2. CASE x \in S
      <4>1. PICK i \in 1..Len(ks) : x = ks[i]
        BY <1>1, <3>2
      <4>2. i \in DOMAIN ls /\ x = ls[i]
        BY <1>1, <1>2, <4>1
      <4>3. QED
        BY <4>2 DEF ToSet
    <3>3. QED
      BY <3>1, <3>2
  <2>3. QED
    BY <2>1, <2>2
<1>5. ASSUME NEW i \in DOMAIN ls, NEW j \in DOMAIN ls, i < j
      PROVE  ls[i] < ls[j]
  <2>1. i \in 1..Len(ks)
    BY <1>1, <1>2, <1>5
  <2>2. CASE j \in 1..Len(ks)
    BY <1>1, <1>5, <2>1, <2>2
  <2>3. CASE j = Len(ks) + 1
    BY <1>1, <2>1, <2>3
  <2>4. QED
    BY <1>2, <1>3, <2>2, <2>3
<1>6. QED
  BY <1>4, <1>5 DEF ls, Lists

ReadInv == Rested /\ ReadingMeta /\ ReadingBlocks /\ HaveRead

LEMMA ReadClusterKeeps ==
    ASSUME TypeOK, ReadInv, ReadCluster
    PROVE  ReadInv'
<1>1. PICK k \in 1..Len(items) :
        /\ items[k].kind = "Cluster" /\ cluster' = k /\ rpos' = EndOf(k)
        /\ obj' = [obj EXCEPT !.offset = At(k), !.meta = NoMeta]
  BY ItemTypes DEF ReadCluster, TypeOK
<1>2. /\ phase' = "meta" /\ UNCHANGED <<items, end, read, have>>
      /\ read = 0 /\ have = FALSE
  BY DEF ReadCluster, stream, ReadInv, Rested
<1>3. StreamOK /\ EndOf(k) \in Nat /\ k \in Nat /\ Len(items) \in Nat
  <2>1. StreamOK
    BY DEF TypeOK
  <2>2. Len(items) \in Nat /\ EndOf(k) \in Nat
    BY <2>1, ItemTypes
  <2>3. QED
    BY <2>1, <2>2
<1>4. EndOf(k)' = EndOf(k) /\ EndOf(cluster)' = EndOf(k) /\ At(cluster)' = At(k)
  BY <1>1, <1>2 DEF EndOf, At
<1>5. (cluster' + 1)..k = {}
  BY <1>1, <1>3
<1>6. MetaUpTo(k)'
  BY <1>1, <1>2, <1>3, <1>5 DEF MetaUpTo
<1>7. Timed(k)' = FALSE
  BY <1>5 DEF Timed
<1>8. HasMeta(NoMeta, k)'
  <2>1. MetaLen(NoMeta) = 2
    BY DEF MetaLen, NoMeta
  <2>2. MetaLen(NoMeta)' = MetaLen(NoMeta) /\ NoMeta' = NoMeta
    BY DEF MetaLen, NoMeta
  <2>3. QED
    BY <1>3, <1>4, <1>7, <2>1, <2>2 DEF HasMeta
<1>9. obj'.meta = NoMeta /\ obj'.offset = At(k)
  BY <1>1 DEF TypeOK, Objects
<1>10. HasMeta(obj.meta, k)'
  BY <1>8, <1>9 DEF NoMeta
<1>11. rpos' = EndOf(k)' /\ read' = EndOf(k)' - EndOf(cluster)'
  BY <1>1, <1>2, <1>3, <1>4
<1>12. ReadingMeta'
  <2>1. items'[cluster'].kind = "Cluster" /\ obj'.offset = At(cluster)' /\ k \in 1..Len(items')
    BY <1>1, <1>2, <1>4, <1>9
  <2>2. have' = Timed(k)'
    BY <1>2, <1>7
  <2>3. QED
    BY <1>6, <1>10, <1>11, <2>1, <2>2 DEF ReadingMeta
<1>13. QED
  BY <1>2, <1>12 DEF ReadInv, ReadingBlocks, HaveRead, Rested, Idle

(* Where the element the call meets is.                                    *)
LEMMA MeetsNext ==
    ASSUME StreamOK, NEW n \in 1..Len(items), rpos = EndOf(n), NEW kinds, Knows(kinds)
    PROVE  /\ Here = n + 1 /\ n + 1 \in 1..Len(items) /\ At(n + 1) = rpos /\ rpos < end
           /\ items[n + 1].kind \in kinds /\ EndOf(n + 1) = EndOf(n) + items[n + 1].len
<1>1. Here \in 1..Len(items) /\ At(Here) = rpos /\ rpos < end /\ items[Here].kind \in kinds
  BY HereTypes
<1>2. There(EndOf(n))
  BY DEF Knows
<1>3. n + 1 \in 1..Len(items) /\ EndOf(n) = At(n + 1)
  BY <1>2, BehindItem
<1>4. Here = n + 1
  BY <1>1, <1>3, OnlyOne
<1>5. EndOf(n + 1) = At(n + 1) + items[n + 1].len
  BY <1>3, ItemTypes
<1>6. QED
  BY <1>1, <1>3, <1>4, <1>5

LEMMA ReadMetaKeeps ==
    ASSUME TypeOK, ReadInv, ReadMeta
    PROVE  ReadInv'
<1>1. /\ phase = "meta" /\ phase' = "meta" /\ read < Declared
      /\ UNCHANGED <<items, end, cluster>> /\ StreamOK /\ cluster # 0
  BY DEF ReadMeta, Taking, stream, TypeOK
<1>2. /\ cluster \in 1..Len(items) /\ Declared \in Nat /\ read \in Nat
      /\ EndOf(cluster) \in Nat /\ Stop(cluster) = EndOf(cluster) + Declared
  BY <1>1, ClusterTypes
<1>3. PICK m \in 1..Len(items) :
        /\ MetaUpTo(m) /\ HasMeta(obj.meta, m) /\ have = Timed(m)
        /\ rpos = EndOf(m) /\ read = EndOf(m) - EndOf(cluster)
  BY <1>1, <1>2 DEF ReadInv, ReadingMeta
<1>4. Knows(Meta) /\ Whole(Here)
  BY DEF ReadMeta
<1>5. /\ Here = m + 1 /\ m + 1 \in 1..Len(items) /\ At(m + 1) = EndOf(m)
      /\ items[m + 1].kind \in Meta /\ EndOf(m + 1) = EndOf(m) + items[m + 1].len
      /\ Whole(m + 1)
  BY <1>1, <1>3, <1>4, MeetsNext
<1>6. EndOf(m) \in Nat /\ items[m + 1].len \in Nat
  BY <1>1, <1>5, ItemTypes
<1>7. At(m + 1) < Stop(cluster)
  BY <1>1, <1>2, <1>3, <1>5, <1>6
<1>8. obj.meta \in [Meta -> Nat] /\ obj \in Objects
  BY DEF TypeOK, Objects
<1>9. /\ MetaUpTo(m + 1) /\ HasMeta(Merged(obj.meta, items[m + 1]), m + 1)
      /\ Timed(m + 1) <=> Timed(m) \/ items[m + 1].kind = "Timecode"
  BY <1>1, <1>2, <1>3, <1>5, <1>7, <1>8, MetaGrows
<1>10. /\ rpos' = EndOf(m + 1) /\ read' = EndOf(m + 1) - EndOf(cluster)
       /\ have' = (have \/ items[m + 1].kind = "Timecode")
  BY <1>2, <1>3, <1>5, <1>6 DEF ReadMeta, Took
<1>11. obj'.meta = Merged(obj.meta, items[m + 1]) /\ obj'.offset = obj.offset
  BY <1>5, <1>8 DEF ReadMeta, Objects
<1>12. /\ MetaUpTo(m + 1)' /\ HasMeta(obj.meta, m + 1)' /\ have' = Timed(m + 1)'
       /\ rpos' = EndOf(m + 1)' /\ read' = EndOf(m + 1)' - EndOf(cluster)'
       /\ At(cluster)' = At(cluster)
  <2>1. MetaUpTo(m + 1)' /\ HasMeta(obj.meta, m + 1)'
    BY <1>1, <1>9, <1>11, Still
  <2>2. Timed(m + 1) \in BOOLEAN /\ have' \in BOOLEAN
    BY <1>3, <1>10 DEF Timed
  <2>3. have' = Timed(m + 1)
    BY <1>3, <1>9, <1>10, <2>2
  <2>4. have' = Timed(m + 1)'
    BY <1>1, <2>3, Still
  <2>5. EndOf(m + 1)' = EndOf(m + 1) /\ EndOf(cluster)' = EndOf(cluster) /\ At(cluster)' = At(cluster)
    BY <1>1, Still
  <2>6. QED
    BY <1>10, <2>1, <2>4, <2>5
<1>13. ReadingMeta'
  <2>1. items'[cluster'].kind = "Cluster" /\ obj'.offset = At(cluster)'
    BY <1>1, <1>11, <1>12 DEF ReadInv, ReadingMeta
  <2>2. m + 1 \in 1..Len(items')
    BY <1>1, <1>5
  <2>3. QED
    BY <1>12, <2>1, <2>2 DEF ReadingMeta
<1>14. QED
  BY <1>1, <1>13 DEF ReadInv, ReadingBlocks, HaveRead, Rested, Idle

LEMMA MeetBlockKeeps ==
    ASSUME TypeOK, ReadInv, MeetBlock
    PROVE  ReadInv'
<1>1. /\ phase = "meta" /\ read < Declared
      /\ UNCHANGED <<items, end, cluster, have>> /\ StreamOK /\ cluster # 0
  BY DEF MeetBlock, Taking, stream, TypeOK
<1>2. /\ cluster \in 1..Len(items) /\ Declared \in Nat /\ read \in Nat
      /\ EndOf(cluster) \in Nat /\ Stop(cluster) = EndOf(cluster) + Declared
  BY <1>1, ClusterTypes
<1>3. PICK m \in 1..Len(items) :
        /\ MetaUpTo(m) /\ HasMeta(obj.meta, m) /\ have = Timed(m)
        /\ rpos = EndOf(m) /\ read = EndOf(m) - EndOf(cluster)
  BY <1>1, <1>2 DEF ReadInv, ReadingMeta
<1>4. Knows(BlockIds) /\ obj \in Objects
  BY DEF MeetBlock, TypeOK
<1>5. /\ m + 1 \in 1..Len(items) /\ At(m + 1) = EndOf(m) /\ rpos < end
      /\ items[m + 1].kind \in BlockIds
  BY <1>1, <1>3, <1>4, MeetsNext
<1>6. EndOf(m) \in Nat /\ m \in Nat /\ Len(items) \in Nat
  BY <1>1, ItemTypes
<1>7. BlockBehind(m)
  BY <1>1, <1>2, <1>3, <1>5, <1>6 DEF BlockBehind
<1>8. /\ MetaUpTo(m)' /\ have' = Timed(m)' /\ BlockBehind(m)' /\ EndOf(m)' = EndOf(m)
      /\ EndOf(cluster)' = EndOf(cluster) /\ At(cluster)' = At(cluster)
      /\ m \in 1..Len(items')
  BY <1>1, <1>3, <1>7, Still
<1>9. CASE InMemory
  <2>1. /\ phase' = "blocks" /\ obj' = [obj EXCEPT !.blocks = <<>>]
        /\ UNCHANGED <<rpos, read>>
    BY <1>9 DEF MeetBlock
  <2>2. /\ obj'.blocks = <<>> /\ obj'.meta = obj.meta /\ obj'.offset = obj.offset
        /\ obj'.flavour = obj.flavour
    BY <1>4, <2>1 DEF Objects
  <2>3. HasBlocksTo(<<>>, m, m)
    <3>1. (m + 1)..m = {} /\ m \in m..Len(items)
      BY <1>6
    <3>2. Lists(<<>>, {})
      BY DEF Lists, ToSet
    <3>3. QED
      BY <1>6, <3>1, <3>2, OwnLenEmpty DEF HasBlocksTo
  <2>4. HasBlocksTo(obj.blocks, m, m)' /\ HasMeta(obj.meta, m)'
    BY <1>1, <1>3, <2>2, <2>3, Still
  <2>5. InMemory' /\ obj'.offset = At(cluster)'
    BY <1>1, <1>8, <1>9, <2>2 DEF InMemory, ReadInv, ReadingMeta
  <2>6. rpos' = EndOf(m)' /\ read' = EndOf(m)' - EndOf(cluster)'
    BY <1>3, <1>8, <2>1
  <2>7. ReadingBlocks'
    BY <1>8, <2>4, <2>5, <2>6 DEF ReadingBlocks
  <2>8. QED
    BY <2>1, <2>7 DEF ReadInv, ReadingMeta, HaveRead, Rested, Idle
<1>10. CASE ~InMemory
  <2>1. /\ phase' = "meta" /\ rpos' = rpos + Declared - read /\ read' = Declared
        /\ obj' = [obj EXCEPT !.opened = TRUE, !.start = rpos, !.stop = rpos']
    BY <1>1, <1>10 DEF MeetBlock
  <2>2. /\ obj'.opened = TRUE /\ obj'.start = rpos /\ obj'.stop = rpos'
        /\ obj'.meta = obj.meta /\ obj'.offset = obj.offset /\ obj'.flavour = obj.flavour
    BY <1>4, <2>1 DEF Objects
  <2>3. rpos' = Stop(cluster)
    BY <1>2, <1>3, <1>6, <2>1
  <2>4. HasExtent(obj', m)
    BY <1>3, <2>2, <2>3 DEF HasExtent
  <2>5. HasExtent(obj, m)' /\ HasMeta(obj.meta, m)'
    BY <1>1, <1>3, <2>2, <2>4, Still
  <2>6. ~InMemory' /\ obj'.offset = At(cluster)' /\ items'[cluster'].kind = "Cluster"
    BY <1>1, <1>8, <1>10, <2>2 DEF InMemory, ReadInv, ReadingMeta
  <2>7. read' = Declared'
    BY <1>1, <2>1 DEF Declared
  <2>8. ReadingMeta'
    BY <1>8, <2>5, <2>6, <2>7 DEF ReadingMeta
  <2>9. QED
    BY <2>1, <2>8 DEF ReadInv, ReadingBlocks, HaveRead, Rested, Idle
<1>11. QED
  BY <1>9, <1>10

(* Another block in memory.                                                *)
LEMMA BlocksGrow ==
    ASSUME StreamOK, cluster \in 1..Len(items), NEW m \in 1..Len(items), MetaUpTo(m),
           NEW n \in 1..Len(items), n + 1 \in 1..Len(items),
           NEW blocks \in Seq(1..Len(items)), HasBlocksTo(blocks, m, n),
           At(n + 1) < Stop(cluster), items[n + 1].kind = "Block", Whole(n + 1)
    PROVE  HasBlocksTo(Append(blocks, n + 1), m, n + 1)
<1>1. /\ m \in Nat /\ n \in Nat /\ m <= n /\ Len(items) \in Nat /\ n + 1 <= Len(items)
      /\ cluster \in Nat /\ cluster <= m
  BY ItemTypes DEF HasBlocksTo, MetaUpTo
<1>2. n + 1 \in m..Len(items) /\ (m + 1)..(n + 1) = (m + 1)..n \cup {n + 1}
  BY <1>1
<1>3. \A j \in (m + 1)..(n + 1) :
          At(j) < Stop(cluster) /\ items[j].kind = "Block" /\ Whole(j)
  BY <1>2 DEF HasBlocksTo
<1>4. Lists(Append(blocks, n + 1), (m + 1)..(n + 1))
  <2>1. blocks \in Seq(Nat)
    <3>1. 1..Len(items) \subseteq Nat
      BY <1>1
    <3>2. Len(blocks) \in Nat /\ blocks \in [1..Len(blocks) -> Nat]
      BY <3>1
    <3>3. QED
      BY <3>2
  <2>2. \A k \in (m + 1)..n : k < n + 1
    BY <1>1
  <2>3. Lists(blocks, (m + 1)..n) /\ n + 1 \in Nat
    BY <1>1 DEF HasBlocksTo
  <2>4. QED
    BY <1>2, <2>1, <2>2, <2>3, ListsMore
<1>5. ASSUME Canonical(cluster)
      PROVE  OwnLen(Append(blocks, n + 1)) = EndOf(n + 1) - EndOf(m)
  <2>1. OwnLen(blocks) = EndOf(n) - EndOf(m)
    BY <1>5 DEF HasBlocksTo
  <2>2. OwnLen(Append(blocks, n + 1)) = OwnLen(blocks) + items[n + 1].own
    BY OwnLenStep
  <2>3. n + 1 \in Inside(cluster)
    BY <1>1, ItemTypes DEF Inside
  <2>4. items[n + 1].own = items[n + 1].len
    BY <1>5, <2>3 DEF Canonical
  <2>5. /\ EndOf(n + 1) = EndOf(n) + items[n + 1].len
        /\ EndOf(m) \in Nat /\ EndOf(n) \in Nat /\ items[n + 1].len \in Nat
    BY NextStarts, ItemTypes
  <2>6. QED
    BY <2>1, <2>2, <2>4, <2>5
<1>6. QED
  BY <1>2, <1>3, <1>4, <1>5 DEF HasBlocksTo

LEMMA ReadBlockKeeps ==
    ASSUME TypeOK, ReadInv, ReadBlock
    PROVE  ReadInv'
<1>1. /\ phase = "blocks" /\ phase' = "blocks" /\ read < Declared
      /\ UNCHANGED <<items, end, cluster, have>> /\ StreamOK /\ cluster # 0
  BY DEF ReadBlock, Taking, stream, TypeOK
<1>2. /\ cluster \in 1..Len(items) /\ Declared \in Nat /\ read \in Nat
      /\ EndOf(cluster) \in Nat /\ Stop(cluster) = EndOf(cluster) + Declared
  BY <1>1, ClusterTypes
<1>3. PICK m \in 1..Len(items), n \in 1..Len(items) :
        /\ MetaUpTo(m) /\ HasMeta(obj.meta, m) /\ have = Timed(m)
        /\ BlockBehind(m) /\ HasBlocksTo(obj.blocks, m, n)
        /\ rpos = EndOf(n) /\ read = EndOf(n) - EndOf(cluster)
  BY <1>1 DEF ReadInv, ReadingBlocks
<1>4. Knows({"Block"}) /\ Whole(Here) /\ obj \in Objects
  BY DEF ReadBlock, TypeOK
<1>5. /\ Here = n + 1 /\ n + 1 \in 1..Len(items) /\ At(n + 1) = EndOf(n)
      /\ items[n + 1].kind = "Block" /\ EndOf(n + 1) = EndOf(n) + items[n + 1].len
      /\ Whole(n + 1)
  BY <1>1, <1>3, <1>4, MeetsNext
<1>6. EndOf(n) \in Nat /\ items[n + 1].len \in Nat
  BY <1>1, <1>5, ItemTypes
<1>7. At(n + 1) < Stop(cluster)
  BY <1>1, <1>2, <1>3, <1>5, <1>6
<1>8. /\ obj'.blocks = Append(obj.blocks, n + 1) /\ obj.blocks \in Seq(1..Len(items))
      /\ obj'.meta = obj.meta /\ obj'.offset = obj.offset /\ obj'.flavour = obj.flavour
  BY <1>4, <1>5 DEF ReadBlock, Objects
<1>9. HasBlocksTo(obj'.blocks, m, n + 1)
  BY <1>1, <1>2, <1>3, <1>5, <1>7, <1>8, BlocksGrow
<1>10. rpos' = EndOf(n + 1) /\ read' = EndOf(n + 1) - EndOf(cluster)
  BY <1>2, <1>3, <1>5, <1>6 DEF ReadBlock, Took
<1>11. /\ MetaUpTo(m)' /\ HasMeta(obj.meta, m)' /\ have' = Timed(m)' /\ BlockBehind(m)'
       /\ HasBlocksTo(obj.blocks, m, n + 1)'
  BY <1>1, <1>3, <1>8, <1>9, Still
<1>12. rpos' = EndOf(n + 1)' /\ read' = EndOf(n + 1)' - EndOf(cluster)'
  BY <1>1, <1>10, Still
<1>13. InMemory' /\ obj'.offset = At(cluster)'
  BY <1>1, <1>8, Still DEF InMemory, ReadInv, ReadingBlocks
<1>14. m \in 1..Len(items)' /\ n + 1 \in 1..Len(items)'
  BY <1>1, <1>5
<1>15. ReadingBlocks'
  BY <1>11, <1>12, <1>13, <1>14 DEF ReadingBlocks
<1>16. QED
  BY <1>1, <1>15 DEF ReadInv, ReadingMeta, HaveRead, Rested, Idle

LEMMA ReadFailsKeeps == ReadFails => ReadInv'
BY DEF ReadFails, Return, Forget, ReadInv, Rested, ReadingMeta, ReadingBlocks, HaveRead, Idle

LEMMA EndReadKeeps ==
    ASSUME TypeOK, ReadInv, EndRead
    PROVE  ReadInv'
<1>1. CASE \E why : Return("idle", why)
  BY <1>1 DEF Return, Forget, ReadInv, Rested, ReadingMeta, ReadingBlocks, HaveRead, Idle
<1>2. CASE Return("ready", "ok") /\ read = Declared /\ have
  <2>1. /\ phase' = "ready" /\ read' = 0 /\ have' = FALSE /\ phase \in {"meta", "blocks"}
        /\ UNCHANGED <<items, end, cluster, obj>> /\ StreamOK /\ cluster # 0
    BY <1>2 DEF EndRead, Return, Forget, stream, TypeOK
  <2>2. /\ cluster \in 1..Len(items) /\ Declared \in Nat
        /\ EndOf(cluster) \in Nat /\ Stop(cluster) = EndOf(cluster) + Declared
    BY <2>1, ClusterTypes
  <2>3. ASSUME HasBlocks(cluster)
        PROVE  /\ obj.offset = At(cluster)
               /\ \E m, n \in 1..Len(items) :
                     /\ MetaUpTo(m) /\ HasMeta(obj.meta, m) /\ Timed(m) /\ BlockBehind(m)
                     /\ InMemory => HasBlocksTo(obj.blocks, m, n) /\ EndOf(n) = Stop(cluster)
                     /\ ~InMemory => HasExtent(obj, m)
    <3>1. CASE phase = "meta"
      <4>1. PICK m \in 1..Len(items) :
              /\ MetaUpTo(m) /\ HasMeta(obj.meta, m) /\ have = Timed(m)
              /\ \/ read = EndOf(m) - EndOf(cluster)
                 \/ ~InMemory /\ BlockBehind(m) /\ HasExtent(obj, m)
        BY <3>1 DEF ReadInv, ReadingMeta
      <4>2. ~(read = EndOf(m) - EndOf(cluster))
        <5> SUFFICES ASSUME read = EndOf(m) - EndOf(cluster) PROVE FALSE
          OBVIOUS
        <5>1. EndOf(m) \in Nat
          BY <2>1, ItemTypes
        <5>2. Stop(cluster) <= EndOf(m)
          BY <1>2, <2>2, <5>1
        <5>3. QED
          BY <2>1, <2>2, <2>3, <4>1, <5>2, BareVerdict
      <4>3. obj.offset = At(cluster)
        BY <3>1 DEF ReadInv, ReadingMeta
      <4>4. QED
        BY <1>2, <4>1, <4>2, <4>3
    <3>2. CASE phase = "blocks"
      <4>1. PICK m \in 1..Len(items), n \in 1..Len(items) :
              /\ MetaUpTo(m) /\ HasMeta(obj.meta, m) /\ have = Timed(m)
              /\ BlockBehind(m) /\ HasBlocksTo(obj.blocks, m, n)
              /\ read = EndOf(n) - EndOf(cluster)
        BY <3>2 DEF ReadInv, ReadingBlocks
      <4>2. EndOf(n) \in Nat
        BY <2>1, ItemTypes
      <4>3. EndOf(n) = Stop(cluster)
        BY <1>2, <2>2, <4>1, <4>2
      <4>4. InMemory /\ obj.offset = At(cluster)
        BY <3>2 DEF ReadInv, ReadingBlocks
      <4>5. QED
        BY <1>2, <4>1, <4>3, <4>4
    <3>3. QED
      BY <2>1, <3>1, <3>2
  <2>4. HaveRead'
    <3> SUFFICES ASSUME HasBlocks(cluster)'
                 PROVE  /\ obj'.offset = At(cluster)'
                        /\ \E m, n \in 1..Len(items') :
                              /\ MetaUpTo(m)' /\ HasMeta(obj.meta, m)' /\ Timed(m)'
                              /\ BlockBehind(m)'
                              /\ InMemory' => HasBlocksTo(obj.blocks, m, n)'
                                                 /\ EndOf(n)' = Stop(cluster)'
                              /\ ~InMemory' => HasExtent(obj, m)'
      BY <2>1 DEF HaveRead
    <3>1. HasBlocks(cluster)
      BY <2>1, Still
    <3>2. InMemory' = InMemory
      BY <2>1 DEF InMemory
    <3>3. QED
      BY <2>1, <2>3, <3>1, <3>2, Still
  <2>5. QED
    BY <2>1, <2>4 DEF ReadInv, Rested, ReadingMeta, ReadingBlocks
<1>3. QED
  BY <1>1, <1>2 DEF EndRead, Exact

(* Between the calls nothing of it changes.                                *)
LEMMA QuietKeeps ==
    ASSUME TypeOK, ReadInv, Idle, UNCHANGED <<items, end, cluster, obj, phase, read, have>>
    PROVE  ReadInv'
<1>1. Rested' /\ phase' # "meta" /\ phase' # "blocks" /\ phase' # "count"
  BY DEF ReadInv, Rested, Idle
<1>2. HaveRead'
  <2> SUFFICES ASSUME phase = "ready", HasBlocks(cluster)'
               PROVE  /\ obj'.offset = At(cluster)'
                      /\ \E m, n \in 1..Len(items') :
                            /\ MetaUpTo(m)' /\ HasMeta(obj.meta, m)' /\ Timed(m)'
                            /\ BlockBehind(m)'
                            /\ InMemory' => HasBlocksTo(obj.blocks, m, n)'
                                               /\ EndOf(n)' = Stop(cluster)'
                            /\ ~InMemory' => HasExtent(obj, m)'
    BY <1>1 DEF HaveRead
  <2>1. HasBlocks(cluster) /\ InMemory' = InMemory
    BY Still DEF InMemory
  <2>2. /\ obj.offset = At(cluster)
        /\ \E m, n \in 1..Len(items) :
              /\ MetaUpTo(m) /\ HasMeta(obj.meta, m) /\ Timed(m) /\ BlockBehind(m)
              /\ InMemory => HasBlocksTo(obj.blocks, m, n) /\ EndOf(n) = Stop(cluster)
              /\ ~InMemory => HasExtent(obj, m)
    BY <2>1 DEF ReadInv, HaveRead
  <2>3. QED
    BY <2>1, <2>2, Still
<1>3. QED
  BY <1>1, <1>2 DEF ReadInv, ReadingMeta, ReadingBlocks

(* What count() knows of the cluster.                                      *)
LEMMA CountsWhat ==
    ASSUME TypeOK, ReadInv, phase \in {"ready", "count"}, ~InMemory, HasBlocks(cluster)
    PROVE  \E m, n \in 1..Len(items) :
              /\ MetaUpTo(m) /\ HasMeta(obj.meta, m) /\ Timed(m) /\ BlockBehind(m)
              /\ HasExtent(obj, m) /\ obj.start = EndOf(m) /\ Length = Stop(cluster) - EndOf(m)
              /\ phase = "count" => Counting(m, n)
BY DEF ReadInv, HaveRead, HasExtent, Length

(* It goes on.                                                             *)
LEMMA CountKeeps ==
    ASSUME TypeOK, ReadInv, UNCHANGED <<items, end, cluster, obj, have>>, ~InMemory,
           phase \in {"ready", "count"}, phase' \in {"ready", "count"},
           phase' = "ready" => read' = 0 /\ have' = FALSE,
           \A m, n \in 1..Len(items) :
               (/\ HasBlocks(cluster)
                /\ MetaUpTo(m) /\ HasExtent(obj, m) /\ BlockBehind(m) /\ phase' = "count"
                /\ phase = "count" => Counting(m, n)) =>
                    \E k \in 1..Len(items) : Counting(m, k)'
    PROVE  ReadInv'
<1>1. Rested' /\ phase' # "meta" /\ phase' # "blocks" /\ InMemory' = InMemory
  BY DEF Rested, Idle, InMemory
<1>2. HaveRead'
  <2> SUFFICES ASSUME HasBlocks(cluster)'
               PROVE  /\ obj'.offset = At(cluster)'
                      /\ \E m, k \in 1..Len(items') :
                            /\ MetaUpTo(m)' /\ HasMeta(obj.meta, m)' /\ Timed(m)'
                            /\ BlockBehind(m)' /\ HasExtent(obj, m)'
                            /\ phase' = "count" => Counting(m, k)'
    BY <1>1 DEF HaveRead
  <2>1. HasBlocks(cluster)
    BY Still
  <2>2. obj.offset = At(cluster) /\ At(cluster)' = At(cluster)
    BY <2>1, Still DEF ReadInv, HaveRead
  <2>3. PICK m \in 1..Len(items), n \in 1..Len(items) :
          /\ MetaUpTo(m) /\ HasMeta(obj.meta, m) /\ Timed(m) /\ BlockBehind(m)
          /\ HasExtent(obj, m)
          /\ phase = "count" => Counting(m, n)
    BY <2>1, CountsWhat
  <2>4. /\ MetaUpTo(m)' /\ HasMeta(obj.meta, m)' /\ Timed(m)' /\ BlockBehind(m)'
        /\ HasExtent(obj, m)'
    BY <2>3, Still
  <2>5. PICK k \in 1..Len(items) : phase' = "count" => Counting(m, k)'
    BY <2>1, <2>3
  <2>6. QED
    BY <2>2, <2>4, <2>5
<1>3. QED
  BY <1>1, <1>2 DEF ReadInv, ReadingMeta, ReadingBlocks

LEMMA StartCountKeeps ==
    ASSUME TypeOK, ReadInv, StartCount
    PROVE  ReadInv'
<1>1. /\ phase = "ready" /\ phase' = "count" /\ ~InMemory /\ rpos' = obj.start
      /\ number' = 0 /\ read' = 0
      /\ UNCHANGED <<items, end, cluster, obj, have>> /\ StreamOK
  BY DEF StartCount, Usable, stream, ReadInv, Rested, Idle, TypeOK
<1>2. ASSUME NEW m \in 1..Len(items), MetaUpTo(m), HasExtent(obj, m)
      PROVE  Counting(m, m)'
  <2>1. m \in Nat /\ Len(items) \in Nat /\ EndOf(m) \in Nat
    BY <1>1, ItemTypes
  <2>2. rpos' = EndOf(m)' /\ EndOf(m)' = EndOf(m)
    BY <1>1, <1>2, Still DEF HasExtent
  <2>3. m \in m..Len(items') /\ (m + 1)..m = {} /\ number' = m - m
        /\ read' = EndOf(m)' - EndOf(m)'
    BY <1>1, <2>1, <2>2
  <2>4. QED
    BY <2>2, <2>3 DEF Counting
<1>3. QED
  BY <1>1, <1>2, CountKeeps

LEMMA CountBlockKeeps ==
    ASSUME TypeOK, ReadInv, CountBlock
    PROVE  ReadInv'
<1>1. /\ phase = "count" /\ phase' = "count" /\ read < Length
      /\ UNCHANGED <<items, end, cluster, obj, have>> /\ StreamOK
      /\ cluster # 0 /\ read \in Nat
  BY DEF CountBlock, Taking, stream, TypeOK
<1>2. CASE HasBlocks(cluster)
  <2>1. ~InMemory
    BY <1>1, <1>2 DEF ReadInv, HaveRead
  <2>2. ASSUME NEW m \in 1..Len(items), NEW n \in 1..Len(items),
               HasExtent(obj, m), Counting(m, n)
        PROVE  \E k \in 1..Len(items) : Counting(m, k)'
    <3>1. /\ rpos = EndOf(n) /\ read = EndOf(n) - EndOf(m) /\ number = n - m
          /\ n \in m..Len(items) /\ \A j \in (m + 1)..n : At(j) < Stop(cluster)
      BY <2>2 DEF Counting
    <3>2. Knows(BlockIds)
      BY DEF CountBlock
    <3>3. /\ Here = n + 1 /\ n + 1 \in 1..Len(items) /\ At(n + 1) = EndOf(n)
          /\ EndOf(n + 1) = EndOf(n) + items[n + 1].len
      BY <1>1, <3>1, <3>2, MeetsNext
    <3>4. /\ rpos' = EndOf(n + 1) /\ read' = read + items[n + 1].len
          /\ number' = number + 1
      BY <3>3 DEF CountBlock, Took
    <3>5. /\ EndOf(n) \in Nat /\ EndOf(m) \in Nat /\ items[n + 1].len \in Nat
          /\ Stop(cluster) \in Nat /\ m \in Nat /\ n \in Nat /\ Len(items) \in Nat
      <4>1. cluster \in 1..Len(items)
        BY <1>1, ClusterTypes
      <4>2. /\ EndOf(n) \in Nat /\ EndOf(m) \in Nat /\ Stop(cluster) \in Nat
            /\ Len(items) \in Nat
        BY <1>1, <4>1, ItemTypes
      <4>3. items[n + 1].len \in Nat
        BY <1>1, <3>3, ItemTypes
      <4>4. QED
        BY <4>2, <4>3
    <3>6. Length = Stop(cluster) - EndOf(m)
      BY <2>2 DEF HasExtent, Length
    <3>7. At(n + 1) < Stop(cluster)
      BY <1>1, <3>1, <3>3, <3>5, <3>6
    <3>8. /\ n + 1 \in m..Len(items)
          /\ \A j \in (m + 1)..(n + 1) : j \in (m + 1)..n \/ j = n + 1
      BY <3>1, <3>3, <3>5
    <3>9. \A j \in (m + 1)..(n + 1) : At(j) < Stop(cluster)
      BY <3>1, <3>7, <3>8
    <3>10. read' = EndOf(n + 1) - EndOf(m) /\ number' = (n + 1) - m
      BY <3>1, <3>3, <3>4, <3>5
    <3>11. Counting(m, n + 1)'
      <4>1. /\ n + 1 \in m..Len(items')
            /\ \A j \in (m + 1)..(n + 1) : At(j)' < Stop(cluster)'
        BY <1>1, <3>8, <3>9, Still
      <4>2. /\ rpos' = EndOf(n + 1)' /\ read' = EndOf(n + 1)' - EndOf(m)'
            /\ number' = (n + 1) - m
        BY <1>1, <3>4, <3>10, Still
      <4>3. QED
        BY <4>1, <4>2 DEF Counting
    <3>12. QED
      BY <3>3, <3>11
  <2>3. QED
    BY <1>1, <2>1, <2>2, CountKeeps
<1>3. CASE ~HasBlocks(cluster)
  <2>1. ~HasBlocks(cluster)'
    BY <1>1, <1>3, Still
  <2>2. QED
    BY <1>1, <2>1 DEF ReadInv, Rested, ReadingMeta, ReadingBlocks, HaveRead, Idle
<1>4. QED
  BY <1>2, <1>3

LEMMA EndCountKeeps ==
    ASSUME TypeOK, ReadInv, EndCount
    PROVE  ReadInv'
<1>1. /\ phase = "count" /\ phase' = "ready" /\ read' = 0 /\ have' = FALSE
      /\ UNCHANGED <<items, end, cluster, obj>>
  BY DEF EndCount, Return, Forget, stream
<1>2. CASE HasBlocks(cluster)
  <2>1. ~InMemory
    BY <1>1, <1>2 DEF ReadInv, HaveRead
  <2>2. HaveRead'
    <3>1. PICK m \in 1..Len(items) :
            /\ MetaUpTo(m) /\ HasMeta(obj.meta, m) /\ Timed(m) /\ BlockBehind(m)
            /\ HasExtent(obj, m)
      BY <1>1, <1>2, <2>1, CountsWhat
    <3>2. /\ MetaUpTo(m)' /\ HasMeta(obj.meta, m)' /\ Timed(m)' /\ BlockBehind(m)'
          /\ HasExtent(obj, m)' /\ m \in 1..Len(items')
      BY <1>1, <3>1, Still
    <3>3. obj'.offset = At(cluster)'
      BY <1>1, <1>2, Still DEF ReadInv, HaveRead
    <3>4. ~InMemory'
      BY <1>1, <2>1 DEF InMemory
    <3>5. QED
      BY <1>1, <3>2, <3>3, <3>4 DEF HaveRead
  <2>3. QED
    BY <1>1, <2>2 DEF ReadInv, Rested, ReadingMeta, ReadingBlocks
<1>3. CASE ~HasBlocks(cluster)
  <2>1. ~HasBlocks(cluster)'
    BY <1>1, <1>3, Still
  <2>2. QED
    BY <1>1, <2>1 DEF ReadInv, Rested, ReadingMeta, ReadingBlocks, HaveRead, Idle
<1>4. QED
  BY <1>2, <1>3

LEMMA StandsStill ==
    ASSUME TypeOK, ReadInv, UNCHANGED vars
    PROVE  ReadInv'
<1>1. UNCHANGED <<items, end, cluster, obj, phase, read, have, rpos, number>>
  BY DEF vars
<1>2. /\ Rested' = Rested /\ InMemory' = InMemory /\ Declared' = Declared
      /\ At(cluster)' = At(cluster)
      /\ \A m, n : Counting(m, n)' = Counting(m, n)
  BY <1>1, Still DEF Rested, Idle, InMemory, Declared, Counting
<1>3. ReadingMeta'
  BY <1>1, <1>2, Still DEF ReadInv, ReadingMeta
<1>4. ReadingBlocks'
  BY <1>1, <1>2, Still DEF ReadInv, ReadingBlocks
<1>5. HaveRead'
  BY <1>1, <1>2, Still DEF ReadInv, HaveRead
<1>6. QED
  BY <1>2, <1>3, <1>4, <1>5 DEF ReadInv

LEMMA ReadStarts == Init => ReadInv
BY DEF Init, ReadInv, Rested, ReadingMeta, ReadingBlocks, HaveRead

LEMMA ReadKeeps ==
    ASSUME TypeOK, ReadInv, [Next]_vars
    PROVE  ReadInv'
<1>1. CASE Seek
  <2>1. Idle /\ UNCHANGED <<items, end, cluster, obj, phase, read, have>>
    BY <1>1 DEF Seek, stream
  <2>2. QED
    BY <2>1, QuietKeeps
<1>2. CASE CountAsserts
  BY <1>2 DEF CountAsserts, ReadInv, Rested, ReadingMeta, ReadingBlocks, HaveRead, Idle
<1>3. ASSUME NEW i \in Iterators, Begin(i) \/ Increment(i) \/ IncrementAstray(i)
      PROVE  ReadInv'
  <2>1. CASE IncrementAstray(i)
    BY <2>1 DEF IncrementAstray, ReadInv, Rested, ReadingMeta, ReadingBlocks, HaveRead, Idle
  <2>2. CASE Begin(i) \/ Increment(i)
    <3>1. Idle /\ UNCHANGED <<items, end, cluster, obj, phase, read, have>>
      BY <2>2 DEF Begin, Increment, Load, Usable, Idle, stream
    <3>2. QED
      BY <3>1, QuietKeeps
  <2>3. QED
    BY <1>3, <2>1, <2>2
<1>4. QED
  BY <1>1, <1>2, <1>3, ReadClusterKeeps, ReadMetaKeeps, MeetBlockKeeps, ReadBlockKeeps,
     ReadFailsKeeps, EndReadKeeps, StartCountKeeps, CountBlockKeeps, EndCountKeeps,
     StandsStill
     DEF Next

----------------------------------------------------------------------------
(* The verdict stands.                                                     *)

LEMMA VerdictIs == VerdictJustified <=> (Idle /\ result \in Answers => (result = "ok" <=> Accepted))
BY DEF VerdictJustified, Accepted

LEMMA AcceptedStays ==
    ASSUME UNCHANGED <<items, end, cluster, obj>>
    PROVE  Accepted' <=> Accepted
<1>1. InMemory' = InMemory
  BY DEF InMemory
<1>2. QED
  BY <1>1, Still DEF Accepted

LEMMA VerdictKeeps ==
    ASSUME TypeOK, ReadInv, VerdictJustified, [Next]_vars
    PROVE  VerdictJustified'
<1> SUFFICES ASSUME Idle', result' \in Answers
             PROVE  result' = "ok" <=> Accepted'
  BY DEF VerdictJustified, Accepted
<1>1. CASE ReadFails
  <2>1. ~Accepted
    BY <1>1, FailVerdict DEF ReadFails, ReadInv
  <2>2. result' = "unreadable" /\ UNCHANGED <<items, end, cluster, obj>>
    BY <1>1 DEF ReadFails, Return, stream
  <2>3. QED
    BY <2>1, <2>2, AcceptedStays
<1>2. CASE EndRead
  <2>1. Accepted <=> (read = Declared /\ have)
    BY <1>2, EndVerdict DEF EndRead, ReadInv
  <2>2. result' = "ok" <=> (read = Declared /\ have)
    BY <1>2 DEF EndRead, Return, Exact
  <2>3. UNCHANGED <<items, end, cluster, obj>>
    BY <1>2 DEF EndRead, Return, stream
  <2>4. QED
    BY <2>1, <2>2, <2>3, AcceptedStays
<1>3. CASE UNCHANGED vars
  <2>1. UNCHANGED <<items, end, cluster, obj, phase, result>>
    BY <1>3 DEF vars
  <2>2. Idle /\ result \in Answers
    BY <2>1 DEF Idle, Answers
  <2>3. QED
    BY <2>1, <2>2, VerdictIs, AcceptedStays
<1>4. ~(ReadCluster \/ ReadMeta \/ MeetBlock \/ ReadBlock \/ Seek \/ StartCount
        \/ CountBlock \/ EndCount \/ CountAsserts)
  BY DEF ReadCluster, ReadMeta, MeetBlock, ReadBlock, Seek, StartCount, CountBlock,
         EndCount, CountAsserts, Return, Taking, Idle, Answers
<1>5. ASSUME NEW i \in Iterators PROVE ~(Begin(i) \/ Increment(i) \/ IncrementAstray(i))
  BY DEF Begin, Increment, IncrementAstray, Load, Idle, Answers
<1>6. QED
  BY <1>1, <1>2, <1>3, <1>4, <1>5 DEF Next

(* VerdictJustified holds, of any stream cut anywhere: ClusterImpl::read() *)
(* accepts a cluster when the metadata is there with a timecode and the    *)
(* blocks, or what takes their place, fill the declared size; and of a     *)
(* file cluster, all of that but what the blocks are.                      *)
THEOREM VerdictsAreJustified == Spec => []VerdictJustified
<1> DEFINE Inv == TypeOK /\ ReadInv /\ VerdictJustified
<1>1. Init => Inv
  <2>1. Init => VerdictJustified
    BY DEF Init, VerdictJustified, Answers
  <2>2. QED
    BY <2>1, TypeStarts, ReadStarts
<1>2. Inv /\ [Next]_vars => Inv'
  BY TypeKeeps, ReadKeeps, VerdictKeeps
<1>3. Inv => VerdictJustified
  OBVIOUS
<1>4. QED
  BY <1>1, <1>2, <1>3, PTL DEF Spec

----------------------------------------------------------------------------
(* What a cluster takes up.                                                *)

(* Only a cluster that has been read lets its read() return.               *)
OkReady == phase = "idle" => result # "ok"

LEMMA OkReadyKeeps ==
    ASSUME OkReady, [Next]_vars
    PROVE  OkReady'
<1>1. CASE ReadCluster \/ ReadMeta \/ MeetBlock \/ ReadBlock \/ StartCount \/ CountBlock
  BY <1>1 DEF ReadCluster, ReadMeta, MeetBlock, ReadBlock, StartCount, CountBlock, OkReady,
              Taking
<1>2. CASE ReadFails \/ EndRead \/ EndCount
  BY <1>2 DEF ReadFails, EndRead, EndCount, Return, OkReady
<1>3. CASE Seek \/ CountAsserts \/ UNCHANGED vars
  BY <1>3 DEF Seek, CountAsserts, vars, OkReady
<1>4. ASSUME NEW i \in Iterators, Begin(i) \/ Increment(i) \/ IncrementAstray(i)
      PROVE  OkReady'
  BY <1>4 DEF Begin, Increment, IncrementAstray, Load, Usable, OkReady
<1>5. QED
  BY <1>1, <1>2, <1>3, <1>4 DEF Next

LEMMA ReadLeadsBehind ==
    ASSUME TypeOK, ReadInv, OkReady
    PROVE  Footprint
<1> SUFFICES ASSUME Idle, result = "ok", Canonical(cluster), HasBlocks(cluster)
             PROVE  obj.offset + ObjectSize = Stop(cluster)
  BY DEF Footprint
<1>1. phase = "ready" /\ StreamOK /\ cluster # 0
  BY DEF OkReady, Idle, TypeOK
<1>2. cluster \in 1..Len(items)
  BY <1>1, ClusterTypes
<1>3. PICK m \in 1..Len(items), n \in 1..Len(items) :
        /\ MetaUpTo(m) /\ HasMeta(obj.meta, m) /\ Timed(m)
        /\ InMemory => HasBlocksTo(obj.blocks, m, n) /\ EndOf(n) = Stop(cluster)
        /\ ~InMemory => HasExtent(obj, m)
  BY <1>1 DEF ReadInv, HaveRead
<1>4. obj.offset = At(cluster)
  BY <1>1 DEF ReadInv, HaveRead
<1>5. MetaLen(obj.meta) = EndOf(m) - EndOf(cluster)
  <2>1. MetaLen(obj.meta) = EndOf(m) - EndOf(cluster) + 0
    BY <1>3 DEF HasMeta
  <2>2. EndOf(m) \in Nat /\ EndOf(cluster) \in Nat
    BY <1>1, <1>2, ItemTypes
  <2>3. QED
    BY <2>1, <2>2
<1>6. /\ EndOf(m) \in Nat /\ EndOf(cluster) \in Nat /\ At(cluster) \in Nat
      /\ Stop(cluster) \in Nat /\ EndOf(cluster) = At(cluster) + 12
  <2>1. items[cluster].len = 12
    BY DEF Canonical, HeaderLen
  <2>2. QED
    BY <1>1, <1>2, <2>1, ItemTypes
<1>7. CASE InMemory
  <2>1. OwnLen(obj.blocks) = Stop(cluster) - EndOf(m)
    BY <1>3, <1>7 DEF HasBlocksTo
  <2>2. ObjectSize = 12 + MetaLen(obj.meta) + OwnLen(obj.blocks)
    BY <1>7 DEF ObjectSize, HeaderLen
  <2>3. QED
    BY <1>4, <1>5, <1>6, <2>1, <2>2, SMTT(30)
<1>8. CASE ~InMemory
  <2>1. obj.stop = Stop(cluster) /\ obj.start = EndOf(m)
    BY <1>3, <1>8 DEF HasExtent
  <2>2. ObjectSize = 12 + MetaLen(obj.meta) + (obj.stop - obj.start)
    BY <1>8 DEF ObjectSize, HeaderLen
  <2>3. QED
    BY <1>4, <1>5, <1>6, <2>1, <2>2, SMTT(30)
<1>9. QED
  BY <1>7, <1>8

(* Footprint holds, of clusters of any number of elements of any length:   *)
(* offset() and size() add up to the place behind the cluster.             *)
THEOREM SizeLeadsBehind == Spec => []Footprint
<1> DEFINE Inv == TypeOK /\ ReadInv /\ OkReady
<1>1. Init => Inv
  <2>1. Init => OkReady
    BY DEF Init, OkReady
  <2>2. QED
    BY <2>1, TypeStarts, ReadStarts
<1>2. Inv /\ [Next]_vars => Inv'
  BY TypeKeeps, ReadKeeps, OkReadyKeeps
<1>3. Inv => Footprint
  BY ReadLeadsBehind
<1>4. QED
  BY <1>1, <1>2, <1>3, PTL DEF Spec

----------------------------------------------------------------------------
(* The blocks, for whoever comes to them.                                  *)

LEMMA BlocksAre ==
    ASSUME StreamOK, cluster \in 1..Len(items), NEW m \in 1..Len(items), MetaUpTo(m),
           BlockBehind(m), Good(cluster)
    PROVE  /\ BlocksOf(cluster) = {j \in Inside(cluster) : m < j}
           /\ \A j \in BlocksOf(cluster) : Whole(j) /\ items[j].kind = "Block"
           /\ BlocksOf(cluster) \subseteq 1..Len(items)
<1>1. /\ m \in Nat /\ cluster \in Nat /\ Inside(cluster) \subseteq 1..Len(items)
      /\ \A j \in Inside(cluster) : cluster < j
      /\ 1..Len(items) \subseteq Nat
  BY ItemTypes DEF Inside
<1>2. BeforeBlocks(cluster) = (cluster + 1)..m
  BY PassedVerdict
<1>3. ASSUME NEW j \in Inside(cluster), m < j
      PROVE  items[j].kind = "Block" /\ Whole(j)
  <2>1. j \in Inside(cluster) \ BeforeBlocks(cluster)
    BY <1>1, <1>2, <1>3
  <2>2. QED
    BY <2>1 DEF Good, BlocksGood
<1>4. ASSUME NEW j \in Inside(cluster), items[j].kind = "Block"
      PROVE  m < j
  <2> SUFFICES ASSUME ~(m < j) PROVE FALSE
    OBVIOUS
  <2>1. j \in (cluster + 1)..m
    BY <1>1
  <2>2. items[j].kind \in Meta
    BY <2>1 DEF MetaUpTo
  <2>3. QED
    BY <1>4, <2>2, Kinds
<1>5. BlocksOf(cluster) = {j \in Inside(cluster) : m < j}
  BY <1>3, <1>4 DEF BlocksOf
<1>6. QED
  BY <1>1, <1>3, <1>5

(* Behind a block is the next one, or the end of the cluster.              *)
LEMMA Onward ==
    ASSUME StreamOK, cluster \in 1..Len(items), NEW m \in 1..Len(items), MetaUpTo(m),
           BlockBehind(m), Good(cluster), NEW b \in {m} \cup BlocksOf(cluster)
    PROVE  /\ b \in m..Len(items)
           /\ \/ /\ EndOf(b) = Stop(cluster) /\ b # m
                 /\ Inside(cluster) = (cluster + 1)..b
                 /\ \A x \in BlocksOf(cluster) : x <= b
              \/ /\ EndOf(b) < Stop(cluster)
                 /\ b + 1 \in BlocksOf(cluster) /\ b + 1 \in 1..Len(items)
                 /\ There(EndOf(b)) /\ ItemAt(EndOf(b)) = b + 1 /\ StartsAt(EndOf(b)) # {}
                 /\ items[b + 1].kind = "Block" /\ Whole(b + 1)
<1>1. /\ m \in Nat /\ cluster \in Nat /\ cluster <= m /\ Len(items) \in Nat
      /\ BlocksOf(cluster) = {j \in Inside(cluster) : m < j}
      /\ \A j \in BlocksOf(cluster) : Whole(j) /\ items[j].kind = "Block"
      /\ BlocksOf(cluster) \subseteq 1..Len(items)
  <2>1. m \in Nat /\ cluster \in Nat /\ cluster <= m /\ Len(items) \in Nat
    BY ItemTypes DEF MetaUpTo
  <2>2. QED
    BY <2>1, BlocksAre
<1>2. b \in 1..Len(items) /\ b \in m..Len(items) /\ b \in cluster..Len(items) /\ b \in Nat
  BY <1>1
<1>3. EndOf(b) \in Nat /\ Stop(cluster) \in Nat /\ EndOf(m) \in Nat /\ end \in Int
  BY <1>2, ItemTypes
<1>4. \A j \in (cluster + 1)..b : At(j) < Stop(cluster)
  <2>1. CASE b = m
    BY <2>1 DEF MetaUpTo
  <2>2. CASE b \in BlocksOf(cluster)
    <3> SUFFICES ASSUME NEW j \in (cluster + 1)..b PROVE At(j) < Stop(cluster)
      OBVIOUS
    <3>1. j \in 1..Len(items) /\ j <= b
      BY <1>1, <1>2
    <3>2. At(j) <= At(b) /\ At(j) \in Nat /\ At(b) \in Nat
      BY <1>2, <3>1, EndsOrdered, ItemTypes
    <3>3. At(b) < Stop(cluster)
      BY <2>2 DEF BlocksOf, Inside
    <3>4. QED
      BY <1>3, <3>2, <3>3
  <2>3. QED
    BY <2>1, <2>2
<1>5. /\ EndOf(b) <= Stop(cluster)
      /\ b = m => EndOf(b) < Stop(cluster)
  <2>1. EndOf(m) < Stop(cluster)
    BY NextStarts DEF BlockBehind
  <2>2. b \in BlocksOf(cluster) => EndOf(b) <= Stop(cluster)
    BY <1>1 DEF Good, BlocksGood, Fills
  <2>3. QED
    BY <1>3, <2>1, <2>2
<1>6. CASE EndOf(b) = Stop(cluster)
  <2>1. Inside(cluster) = (cluster + 1)..b
    <3>1. Stop(cluster) <= EndOf(b)
      BY <1>3, <1>6
    <3>2. QED
      BY <1>2, <1>4, <3>1, InsideIs
  <2>2. \A x \in BlocksOf(cluster) : x <= b
    BY <1>1, <1>2, <2>1
  <2>3. b # m
    BY <1>3, <1>5, <1>6
  <2>4. QED
    BY <1>2, <1>6, <2>1, <2>2, <2>3
<1>7. CASE EndOf(b) < Stop(cluster)
  <2>1. StreamEnd \in Nat /\ Stop(cluster) <= StreamEnd
    BY ItemTypes DEF Good, BlocksGood
  <2>2. b + 1 \in Inside(cluster)
    BY <1>2, <1>3, <1>4, <1>7, <2>1, InsideIs
  <2>3. b + 1 \in BlocksOf(cluster)
    BY <1>1, <1>2, <2>2
  <2>4. b + 1 \in 1..Len(items) /\ Whole(b + 1) /\ items[b + 1].kind = "Block"
    BY <1>1, <2>3
  <2>5. EndOf(b) = At(b + 1)
    BY <1>2, <2>4, NextStarts
  <2>6. At(b + 1) < end
    <3>1. At(b + 1) < EndOf(b + 1) /\ At(b + 1) \in Nat /\ EndOf(b + 1) \in Nat
      BY <2>4, ItemTypes
    <3>2. EndOf(b + 1) <= end
      BY <2>4 DEF Whole
    <3>3. QED
      BY <1>3, <3>1, <3>2
  <2>7. /\ There(EndOf(b)) /\ ItemAt(EndOf(b)) = b + 1 /\ StartsAt(EndOf(b)) # {}
    BY <2>4, <2>5, <2>6, StartsThere
  <2>8. QED
    BY <1>2, <1>7, <2>3, <2>4, <2>7
<1>8. QED
  BY <1>3, <1>5, <1>6, <1>7

(* In memory.                                                              *)
LEMMA MemoryHasThem ==
    ASSUME TypeOK, ReadInv, OkReady, Idle, InMemory, result = "ok",
           Good(cluster), HasBlocks(cluster)
    PROVE  Lists(obj.blocks, BlocksOf(cluster))
<1>1. phase = "ready" /\ StreamOK /\ cluster # 0
  BY DEF OkReady, Idle, TypeOK
<1>2. cluster \in 1..Len(items)
  BY <1>1, ClusterTypes
<1>3. PICK m \in 1..Len(items), n \in 1..Len(items) :
        /\ MetaUpTo(m) /\ BlockBehind(m)
        /\ HasBlocksTo(obj.blocks, m, n) /\ EndOf(n) = Stop(cluster)
  BY <1>1 DEF ReadInv, HaveRead
<1>4. n \in m..Len(items) /\ Stop(cluster) <= EndOf(n) /\ m \in Nat /\ n \in Nat
      /\ cluster \in Nat /\ cluster <= m
  BY <1>1, <1>2, <1>3, ItemTypes DEF HasBlocksTo, MetaUpTo
<1>5. Inside(cluster) = (cluster + 1)..n
  BY <1>1, <1>2, <1>3, <1>4, FullVerdict DEF HasBlocksTo
<1>6. BlocksOf(cluster) = {j \in Inside(cluster) : m < j}
  BY <1>1, <1>2, <1>3, BlocksAre
<1>7. BlocksOf(cluster) = (m + 1)..n
  BY <1>4, <1>5, <1>6
<1>8. QED
  BY <1>3, <1>7 DEF HasBlocksTo

Countable == cluster # 0 /\ Good(cluster) /\ HasBlocks(cluster)
Counted == Countable /\ Idle /\ result = "counted" => number = Cardinality(BlocksOf(cluster))

(* count() comes to the end, having met every block.                       *)
LEMMA CountsThem ==
    ASSUME TypeOK, ReadInv, EndCount, Countable
    PROVE  result' = "counted" /\ number' = Cardinality(BlocksOf(cluster))
<1>1. phase = "count" /\ StreamOK /\ cluster \in 1..Len(items)
  BY ClusterTypes DEF EndCount, TypeOK, Countable
<1>2. PICK m \in 1..Len(items), n \in 1..Len(items) :
        /\ MetaUpTo(m) /\ BlockBehind(m) /\ HasExtent(obj, m) /\ Counting(m, n)
  BY <1>1 DEF ReadInv, HaveRead, Countable
<1>3. /\ rpos = EndOf(n) /\ read = EndOf(n) - EndOf(m) /\ number = n - m
      /\ n \in m..Len(items) /\ \A j \in (m + 1)..n : At(j) < Stop(cluster)
      /\ Length = Stop(cluster) - EndOf(m)
  BY <1>2 DEF Counting, HasExtent, Length
<1>4. /\ EndOf(n) \in Nat /\ EndOf(m) \in Nat /\ Stop(cluster) \in Nat
      /\ m \in Nat /\ n \in Nat /\ cluster \in Nat /\ cluster <= m /\ m <= n
  <2>1. EndOf(n) \in Nat /\ EndOf(m) \in Nat /\ Stop(cluster) \in Nat
    BY <1>1, ItemTypes
  <2>2. m \in Nat /\ n \in Nat /\ cluster \in Nat
    BY <1>1
  <2>3. cluster <= m /\ m <= n
    BY <1>2, <1>3, <2>2 DEF MetaUpTo
  <2>4. QED
    BY <2>1, <2>2, <2>3
<1>5. BlocksOf(cluster) = {j \in Inside(cluster) : m < j} /\ Good(cluster)
  BY <1>1, <1>2, BlocksAre DEF Countable
<1>6. n \in {m} \cup BlocksOf(cluster)
  <2>1. CASE n = m
    BY <2>1
  <2>2. CASE n # m
    <3>1. n \in (m + 1)..n /\ m < n /\ cluster < n
      BY <1>4, <2>2
    <3>2. n \in Inside(cluster)
      BY <1>1, <1>3, <3>1, ItemTypes DEF Inside
    <3>3. QED
      BY <1>5, <3>1, <3>2
  <2>3. QED
    BY <2>1, <2>2
<1>7. CASE EndOf(n) = Stop(cluster) /\ Inside(cluster) = (cluster + 1)..n
  <2>1. ~(read < Length) /\ read = Length
    BY <1>3, <1>4, <1>7
  <2>2. result' = "counted" /\ number' = number
    BY <2>1 DEF EndCount, Exact
  <2>3. BlocksOf(cluster) = (m + 1)..n
    BY <1>4, <1>5, <1>7
  <2>4. Cardinality((m + 1)..n) = n - m
    <3>1. m + 1 \in Int /\ n \in Int
      BY <1>4
    <3>2. Cardinality((m + 1)..n) = IF m + 1 > n THEN 0 ELSE n - (m + 1) + 1
      BY <3>1, FS_Interval
    <3>3. QED
      BY <1>4, <3>2
  <2>5. QED
    BY <1>3, <2>2, <2>3, <2>4
<1>8. CASE /\ EndOf(n) < Stop(cluster) /\ There(EndOf(n)) /\ ItemAt(EndOf(n)) = n + 1
           /\ items[n + 1].kind = "Block"
  <2>1. Knows(BlockIds)
    BY <1>3, <1>8, Kinds DEF Knows, Here
  <2>2. read < Length
    BY <1>3, <1>4, <1>8
  <2>3. QED
    BY <2>1, <2>2 DEF EndCount
<1>9. QED
  BY <1>1, <1>2, <1>5, <1>6, <1>7, <1>8, Onward

LEMMA CountedKeeps ==
    ASSUME TypeOK, ReadInv, Counted, [Next]_vars
    PROVE  Counted'
<1> SUFFICES ASSUME Countable', Idle', result' = "counted"
             PROVE  number' = Cardinality(BlocksOf(cluster)')
  BY DEF Counted
<1>1. CASE EndCount
  <2>1. UNCHANGED <<items, end, cluster>>
    BY <1>1 DEF EndCount, Return, stream
  <2>2. Countable
    BY <2>1, Still DEF Countable
  <2>3. QED
    BY <1>1, <2>1, <2>2, CountsThem, Still
<1>2. CASE UNCHANGED vars
  <2>1. UNCHANGED <<items, end, cluster, phase, result, number>>
    BY <1>2 DEF vars
  <2>2. Countable /\ Idle /\ result = "counted"
    BY <2>1, Still DEF Countable, Idle
  <2>3. QED
    BY <2>1, <2>2, Still DEF Counted
<1>3. ~(ReadCluster \/ ReadMeta \/ MeetBlock \/ ReadBlock \/ ReadFails \/ EndRead
        \/ Seek \/ StartCount \/ CountBlock \/ CountAsserts)
  BY DEF ReadCluster, ReadMeta, MeetBlock, ReadBlock, ReadFails, EndRead, Seek, StartCount,
         CountBlock, CountAsserts, Return, Taking, Idle
<1>4. ASSUME NEW i \in Iterators PROVE ~(Begin(i) \/ Increment(i) \/ IncrementAstray(i))
  BY DEF Begin, Increment, IncrementAstray, Load, Idle
<1>5. QED
  BY <1>1, <1>2, <1>3, <1>4 DEF Next

----------------------------------------------------------------------------
(* The iterators.                                                          *)

Walkable == Countable /\ ~InMemory /\ Canonical(cluster)
UpTo(k) == {b \in BlocksOf(cluster) : k # 0 => b <= k}

IteratorOK(it) ==
    /\ it.block # 0 => it.begun /\ it.block \in BlocksOf(cluster)
    /\ it.begun => Lists(it.seen, UpTo(it.block))
    /\ ~it.begun => it.seen = <<>>

Walked ==
    Walkable =>
        /\ phase # "astray" /\ result # "exception"
        /\ \A i \in Iterators : IteratorOK(its[i])

(* An iterator that goes on from where the blocks begin, or from behind    *)
(* the block it is at, comes to the next one, or to the end.               *)
LEMMA LoadsNext ==
    ASSUME TypeOK, Walkable, NEW m \in 1..Len(items), MetaUpTo(m), BlockBehind(m),
           HasExtent(obj, m), NEW i \in Iterators, IteratorOK(its[i]),
           NEW b \in {m} \cup BlocksOf(cluster),
           b = m => ~its[i].begun, b # m => its[i].block = b,
           Load(i, EndOf(b))
    PROVE  /\ phase' = phase /\ result' = "loaded"
           /\ \E it \in IteratorStates :
                 its' = [its EXCEPT ![i] = it] /\ IteratorOK(it)
<1>1. StreamOK /\ cluster \in 1..Len(items) /\ Good(cluster) /\ obj.stop = Stop(cluster)
  BY ClusterTypes DEF TypeOK, Walkable, Countable, HasExtent
<1>2. /\ its \in [Iterators -> IteratorStates] /\ its[i] \in IteratorStates
      /\ its[i].seen \in Seq(1..Len(items))
  BY DEF TypeOK, IteratorStates
<1>3. /\ BlocksOf(cluster) = {j \in Inside(cluster) : m < j}
      /\ BlocksOf(cluster) \subseteq 1..Len(items)
  BY <1>1, BlocksAre
<1>4. b \in 1..Len(items) /\ b \in Nat /\ m \in Nat /\ Len(items) \in Nat /\ 0 \in 0..Len(items)
  BY <1>1, <1>3, ItemTypes
<1>5. EndOf(b) \in Nat /\ Stop(cluster) \in Nat
  BY <1>1, <1>4, ItemTypes
<1>6. CASE /\ EndOf(b) = Stop(cluster) /\ b # m
           /\ \A x \in BlocksOf(cluster) : x <= b
  <2> DEFINE it == [its[i] EXCEPT !.block = 0, !.begun = TRUE]
  <2>1. /\ its' = [its EXCEPT ![i].block = 0, ![i].begun = TRUE]
        /\ phase' = phase /\ result' = "loaded"
    BY <1>1, <1>6 DEF Load
  <2>2. its' = [its EXCEPT ![i] = it]
    BY <1>2, <2>1
  <2>3. it \in IteratorStates /\ it.block = 0 /\ it.begun = TRUE /\ it.seen = its[i].seen
    BY <1>2, <1>4 DEF IteratorStates
  <2>4. its[i].block = b /\ b # 0 /\ its[i].begun
    BY <1>4, <1>6 DEF IteratorOK
  <2>5. Lists(its[i].seen, UpTo(b))
    BY <2>4 DEF IteratorOK
  <2>6. UpTo(b) = BlocksOf(cluster) /\ UpTo(0) = BlocksOf(cluster)
    BY <1>6 DEF UpTo
  <2> HIDE DEF it
  <2>7. IteratorOK(it)
    BY <2>3, <2>5, <2>6 DEF IteratorOK
  <2>8. QED
    BY <2>1, <2>2, <2>3, <2>7
<1>7. CASE /\ EndOf(b) < Stop(cluster)
           /\ b + 1 \in BlocksOf(cluster) /\ b + 1 \in 1..Len(items)
           /\ There(EndOf(b)) /\ ItemAt(EndOf(b)) = b + 1
           /\ items[b + 1].kind = "Block" /\ Whole(b + 1)
  <2> DEFINE it == [block |-> b + 1, seen |-> Append(its[i].seen, b + 1), begun |-> TRUE]
  <2>1. /\ its' = [its EXCEPT ![i] =
              [block |-> b + 1, seen |-> Append(@.seen, b + 1), begun |-> TRUE]]
        /\ phase' = phase /\ result' = "loaded"
    <3>1. EndOf(b) # obj.stop
      BY <1>1, <1>5, <1>7
    <3>2. QED
      BY <1>7, <3>1 DEF Load
  <2>2. its' = [its EXCEPT ![i] = it]
    BY <1>2, <2>1
  <2>3. /\ it \in IteratorStates /\ it.block = b + 1 /\ it.begun = TRUE
        /\ it.seen = Append(its[i].seen, b + 1)
    <3>1. Append(its[i].seen, b + 1) \in Seq(1..Len(items)) /\ b + 1 \in 0..Len(items)
      BY <1>2, <1>4, <1>7
    <3>2. QED
      BY <3>1 DEF IteratorStates
  <2> DEFINE S == {x \in BlocksOf(cluster) : x <= b}
  <2>4. Lists(its[i].seen, S)
    <3>1. CASE b = m
      <4>1. its[i].seen = <<>>
        BY <3>1 DEF IteratorOK
      <4>2. S = {}
        BY <1>3, <1>4, <3>1
      <4>3. QED
        BY <4>1, <4>2 DEF Lists, ToSet
    <3>2. CASE b # m
      <4>1. its[i].block = b /\ b # 0 /\ its[i].begun
        BY <1>4, <3>2 DEF IteratorOK
      <4>2. Lists(its[i].seen, UpTo(b)) /\ UpTo(b) = S
        BY <4>1 DEF IteratorOK, UpTo
      <4>3. QED
        BY <4>2
    <3>3. QED
      BY <3>1, <3>2
  <2>5. UpTo(b + 1) = S \cup {b + 1}
    <3>1. UpTo(b + 1) = {x \in BlocksOf(cluster) : x <= b + 1}
      BY <1>4 DEF UpTo
    <3>2. \A x \in BlocksOf(cluster) : x \in Nat
      BY <1>3, <1>4
    <3>3. QED
      BY <1>4, <1>7, <3>1, <3>2
  <2>6. Lists(Append(its[i].seen, b + 1), UpTo(b + 1))
    <3>1. its[i].seen \in Seq(Nat)
      <4>1. 1..Len(items) \subseteq Nat
        BY <1>4
      <4>2. Len(its[i].seen) \in Nat /\ its[i].seen \in [1..Len(its[i].seen) -> Nat]
        BY <1>2, <4>1
      <4>3. QED
        BY <4>2
    <3>2. \A x \in S : x < b + 1
      BY <1>3, <1>4
    <3> HIDE DEF S
    <3>3. QED
      BY <1>4, <2>4, <2>5, <3>1, <3>2, ListsMore
  <2> HIDE DEF it
  <2>7. IteratorOK(it)
    BY <1>4, <1>7, <2>3, <2>6 DEF IteratorOK
  <2>8. QED
    BY <2>1, <2>2, <2>3, <2>7
<1>8. QED
  BY <1>1, <1>6, <1>7, Onward

(* An iterator only ever goes on from there.                               *)
LEMMA GoesOnFrom ==
    ASSUME TypeOK, ReadInv, Walked, Walkable, Usable
    PROVE  \E m \in 1..Len(items) :
              /\ MetaUpTo(m) /\ BlockBehind(m) /\ HasExtent(obj, m) /\ obj.start = EndOf(m)
              /\ BlocksOf(cluster) = {j \in Inside(cluster) : m < j}
              /\ \A i \in Iterators : its[i].block # 0 =>
                    /\ its[i].block \in BlocksOf(cluster) /\ its[i].block # m
                    /\ BehindBlock(its[i].block) = EndOf(its[i].block)
<1>1. StreamOK /\ cluster \in 1..Len(items) /\ Good(cluster) /\ HasBlocks(cluster)
  BY ClusterTypes DEF TypeOK, Walkable, Countable
<1>2. PICK m \in 1..Len(items) : MetaUpTo(m) /\ BlockBehind(m) /\ HasExtent(obj, m)
  BY <1>1, CountsWhat DEF Usable
<1>3. BlocksOf(cluster) = {j \in Inside(cluster) : m < j}
  BY <1>1, <1>2, BlocksAre
<1>4. ASSUME NEW i \in Iterators, its[i].block # 0
      PROVE  /\ its[i].block \in BlocksOf(cluster) /\ its[i].block # m
             /\ BehindBlock(its[i].block) = EndOf(its[i].block)
  <2>1. its[i].block \in BlocksOf(cluster)
    BY <1>4 DEF Walked, IteratorOK
  <2>2. its[i].block # m
    BY <1>3, <2>1
  <2>3. items[its[i].block].own = items[its[i].block].len
    BY <1>3, <2>1 DEF Walkable, Canonical
  <2>4. QED
    BY <2>1, <2>2, <2>3 DEF BehindBlock, EndOf
<1>5. QED
  BY <1>2, <1>3, <1>4 DEF HasExtent

(* What is said of the iterators stays true while they are not moved.      *)
LEMMA IteratorsStay ==
    ASSUME UNCHANGED <<items, end, cluster>>, obj'.flavour = obj.flavour
    PROVE  /\ Walkable' <=> Walkable
           /\ \A it : IteratorOK(it)' <=> IteratorOK(it)
<1>1. Walkable' <=> Walkable
  BY Still DEF Walkable, Countable, InMemory
<1>2. \A k : UpTo(k)' = UpTo(k)
  BY Still DEF UpTo
<1>3. \A it : IteratorOK(it)' <=> IteratorOK(it)
  BY <1>2, Still DEF IteratorOK, Lists
<1>4. QED
  BY <1>1, <1>3

LEMMA WalkedKeeps ==
    ASSUME TypeOK, ReadInv, Walked, [Next]_vars
    PROVE  Walked'
<1> SUFFICES ASSUME Walkable'
             PROVE  /\ phase' # "astray" /\ result' # "exception"
                    /\ \A i \in Iterators : IteratorOK(its[i])'
  BY DEF Walked
<1>1. CASE ReadCluster
  <2>1. phase' = "meta" /\ result' = "none" /\ its' = [i \in Iterators |-> NoBlock]
    BY <1>1 DEF ReadCluster
  <2>2. \A i \in Iterators : its'[i] = NoBlock
    BY <2>1
  <2>3. QED
    BY <2>1, <2>2 DEF IteratorOK, NoBlock
<1>2. ASSUME UNCHANGED cluster
      PROVE  /\ Walkable /\ phase # "astray" /\ result # "exception"
             /\ \A i \in Iterators : IteratorOK(its[i])
             /\ \A it : IteratorOK(it)' <=> IteratorOK(it)
  <2>1. UNCHANGED <<items, end, cluster>> /\ obj'.flavour = obj.flavour
    BY <1>2, StreamStill, ObjectTypeKeeps
  <2>2. Walkable
    BY <2>1, IteratorsStay
  <2>3. QED
    BY <2>1, <2>2, IteratorsStay DEF Walked
<1>3. ASSUME UNCHANGED <<cluster, its>>, phase' # "astray", result' # "exception"
      PROVE  /\ phase' # "astray" /\ result' # "exception"
             /\ \A i \in Iterators : IteratorOK(its[i])'
  BY <1>2, <1>3
<1>4. CASE ReadMeta \/ MeetBlock \/ ReadBlock \/ ReadFails \/ EndRead \/ Seek \/ StartCount
           \/ CountBlock \/ UNCHANGED vars
  <2>1. UNCHANGED <<cluster, its>>
    BY <1>4 DEF ReadMeta, MeetBlock, ReadBlock, ReadFails, EndRead, Return, Seek, StartCount,
                CountBlock, vars
  <2>2. phase # "astray" /\ result # "exception"
    BY <1>2, <2>1
  <2>3. phase' # "astray" /\ result' # "exception"
    BY <1>4, <2>2
       DEF ReadMeta, MeetBlock, ReadBlock, ReadFails, EndRead, Return, Seek, StartCount,
           CountBlock, vars, Taking
  <2>4. QED
    BY <1>3, <2>1, <2>3
<1>5. CASE EndCount
  <2>1. UNCHANGED <<cluster, its>> /\ phase' = "ready"
    BY <1>5 DEF EndCount, Return
  <2>2. result' = "counted"
    BY <1>2, <1>5, <2>1, CountsThem DEF Walkable
  <2>3. QED
    BY <1>3, <2>1, <2>2
<1>6. ~CountAsserts
  <2> SUFFICES ASSUME CountAsserts PROVE FALSE
    OBVIOUS
  <2>1. Usable /\ ~obj.opened /\ UNCHANGED cluster
    BY DEF CountAsserts
  <2>2. \E m \in 1..Len(items) : HasExtent(obj, m)
    BY <1>2, <2>1, CountsWhat DEF Usable, Walkable, Countable
  <2>3. QED
    BY <2>1, <2>2 DEF HasExtent
<1>7. ASSUME NEW i \in Iterators, Begin(i) \/ Increment(i) \/ IncrementAstray(i)
      PROVE  /\ phase' # "astray" /\ result' # "exception"
             /\ \A j \in Iterators : IteratorOK(its[j])'
  <2>1. UNCHANGED cluster /\ Usable
    BY <1>7 DEF Begin, Increment, IncrementAstray, Load
  <2>2. /\ Walkable /\ phase # "astray" /\ \A j \in Iterators : IteratorOK(its[j])
        /\ \A it : IteratorOK(it)' <=> IteratorOK(it)
    BY <1>2, <2>1
  <2>3. PICK m \in 1..Len(items) :
          /\ MetaUpTo(m) /\ BlockBehind(m) /\ HasExtent(obj, m) /\ obj.start = EndOf(m)
          /\ \A j \in Iterators : its[j].block # 0 =>
                /\ its[j].block \in BlocksOf(cluster) /\ its[j].block # m
                /\ BehindBlock(its[j].block) = EndOf(its[j].block)
    BY <2>1, <2>2, GoesOnFrom
  <2>4. ASSUME NEW it \in IteratorStates, its' = [its EXCEPT ![i] = it], IteratorOK(it)
        PROVE  \A j \in Iterators : IteratorOK(its[j])'
    <3>1. \A j \in Iterators : its'[j] = IF j = i THEN it ELSE its[j]
      BY <2>4 DEF TypeOK
    <3>2. \A j \in Iterators : IteratorOK(its'[j])
      BY <2>2, <2>4, <3>1
    <3>3. \A j \in Iterators : IteratorOK(its[j])' <=> IteratorOK(its'[j])
      <4>1. UNCHANGED <<items, end, cluster>> /\ obj'.flavour = obj.flavour
        BY <2>1, StreamStill, ObjectTypeKeeps
      <4>2. \A k : UpTo(k)' = UpTo(k)
        BY <4>1, Still DEF UpTo
      <4>3. QED
        BY <4>1, <4>2, Still DEF IteratorOK, Lists
    <3>4. QED
      BY <3>2, <3>3
  <2>5. CASE Begin(i)
    <3>1. Load(i, EndOf(m)) /\ ~its[i].begun /\ m \in {m} \cup BlocksOf(cluster)
      BY <2>3, <2>5 DEF Begin
    <3>2. /\ phase' = phase /\ result' = "loaded"
          /\ \E it \in IteratorStates : its' = [its EXCEPT ![i] = it] /\ IteratorOK(it)
      BY <2>2, <2>3, <3>1, LoadsNext
    <3>3. QED
      BY <2>2, <2>4, <3>2
  <2>6. CASE Increment(i)
    <3>1. /\ its[i].block \in {m} \cup BlocksOf(cluster) /\ its[i].block # m
          /\ Load(i, EndOf(its[i].block))
      BY <2>3, <2>6 DEF Increment
    <3>2. /\ phase' = phase /\ result' = "loaded"
          /\ \E it \in IteratorStates : its' = [its EXCEPT ![i] = it] /\ IteratorOK(it)
      BY <2>2, <2>3, <3>1, LoadsNext
    <3>3. QED
      BY <2>2, <2>4, <3>2
  <2>7. ~IncrementAstray(i)
    <3> SUFFICES ASSUME IncrementAstray(i) PROVE FALSE
      OBVIOUS
    <3> DEFINE b == its[i].block
    <3>1. b \in BlocksOf(cluster) /\ BehindBlock(b) = EndOf(b)
      BY <2>3 DEF IncrementAstray
    <3>2. obj.stop = Stop(cluster)
      BY <2>3 DEF HasExtent
    <3>3. EndOf(b) # Stop(cluster) /\ StartsAt(EndOf(b)) = {}
      BY <3>1, <3>2 DEF IncrementAstray
    <3>4. StreamOK /\ cluster \in 1..Len(items) /\ Good(cluster)
      BY <2>2, ClusterTypes DEF TypeOK, Walkable, Countable
    <3> HIDE DEF b
    <3>5. QED
      BY <2>3, <3>1, <3>3, <3>4, Onward
  <2>8. QED
    BY <1>7, <2>5, <2>6, <2>7
<1>8. QED
  BY <1>1, <1>4, <1>5, <1>6, <1>7 DEF Next

(* SameBlocks holds, of clusters of any number of blocks and of any number *)
(* of iterators: the memory cluster, count() and every iterator come to    *)
(* the blocks that are in the stream, each once and in their order, and    *)
(* nothing the client does in between leads them astray.                   *)
THEOREM BlocksAreSame == Spec => []SameBlocks
<1> DEFINE Inv == TypeOK /\ ReadInv /\ OkReady /\ Counted /\ Walked
<1>1. Init => Inv
  <2>1. Init => OkReady /\ Counted /\ Walked
    BY DEF Init, OkReady, Counted, Walked, Walkable, Countable
  <2>2. QED
    BY <2>1, TypeStarts, ReadStarts
<1>2. Inv /\ [Next]_vars => Inv'
  BY TypeKeeps, ReadKeeps, OkReadyKeeps, CountedKeeps, WalkedKeeps
<1>3. Inv => SameBlocks
  <2> SUFFICES ASSUME Inv, Countable
               PROVE  /\ Idle /\ InMemory /\ result = "ok" => Lists(obj.blocks, BlocksOf(cluster))
                      /\ Idle /\ result = "counted" => number = Cardinality(BlocksOf(cluster))
                      /\ ~InMemory /\ Canonical(cluster) =>
                            /\ phase # "astray" /\ result # "exception"
                            /\ \A i \in Iterators :
                                  its[i].begun => Lists(its[i].seen, UpTo(its[i].block))
    BY DEF SameBlocks, Countable, UpTo
  <2>1. Idle /\ InMemory /\ result = "ok" => Lists(obj.blocks, BlocksOf(cluster))
    BY MemoryHasThem DEF Countable
  <2>2. QED
    BY <2>1 DEF Counted, Walked, Walkable, IteratorOK
<1>4. QED
  BY <1>1, <1>2, <1>3, PTL DEF Spec

=============================================================================
