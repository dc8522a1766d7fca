------------------------ MODULE SegmentReaderProofs ------------------------
(***************************************************************************)
(* For segments of any number of elements, in any order, of any size, with *)
(* any size declared and any names in their SeekHeads: read_body() throws  *)
(* and returns what it should, its index leads to what it names, and the   *)
(* iteration leaves no block out.  The argument: the search stands behind  *)
(* an element, and flags and index tell of the elements before it.         *)
(***************************************************************************)
EXTENDS SegmentReader, WellFoundedInduction, TLAPS

(* The least-number principle, for a set.                                  *)
LEMMA LeastOf ==
    ASSUME NEW T, T \subseteq Nat, T # {}
    PROVE  \E m \in T : \A n \in T : m <= n
<1>1. PICK m \in T : \A n \in T : ~(<<n, m>> \in OpToRel(<, Nat))
  BY NatLessThanWellFounded, WFMin
<1>2. \A n \in T : ~(n < m)
  BY <1>1 DEF OpToRel
<1>3. QED
  BY <1>2

----------------------------------------------------------------------------
(* The places of the elements.                                             *)

(* The recursive definition has the one solution it should have.           *)
LEMMA EndsStep ==
    ASSUME NEW es \in Seq(Elements)
    PROVE  /\ Ends(es) \in [0..Len(es) -> Nat] /\ Ends(es)[0] = 0
           /\ \A i \in 1..Len(es) : Ends(es)[i] = Ends(es)[i - 1] + es[i].len
<1> DEFINE Adds(f, n) == f[0] = 0 /\ \A i \in 1..n : f[i] = f[i - 1] + es[i].len
           Without == {n \in 0..Len(es) : ~ \E f \in [0..n -> Nat] : Adds(f, n)}
<1>0. Len(es) \in Nat /\ \A i \in 1..Len(es) : es[i].len \in Nat
  <2>1. \A i \in 1..Len(es) : es[i] \in Elements
    OBVIOUS
  <2>2. QED
    BY <2>1 DEF Elements
<1>1. Without = {}
  <2> SUFFICES ASSUME Without # {} PROVE FALSE
    OBVIOUS
  <2>1. PICK m \in Without : \A n \in Without : m <= n
    <3>1. Without \subseteq Nat
      OBVIOUS
    <3>2. QED
      BY <3>1, LeastOf
  <2>2. m # 0
    <3>1. Adds([i \in 0..0 |-> 0], 0) /\ [i \in 0..0 |-> 0] \in [0..0 -> Nat]
      OBVIOUS
    <3>2. QED
      BY <3>1
  <2>3. m - 1 \in 0..Len(es) /\ m - 1 \notin Without
    <3>1. m \in 0..Len(es)
      OBVIOUS
    <3> HIDE DEF Without
    <3>2. QED
      BY <1>0, <2>1, <2>2, <3>1
  <2>4. PICK f \in [0..(m - 1) -> Nat] : Adds(f, m - 1)
    BY <2>3
  <2> DEFINE g == [i \in 0..m |-> IF i = m THEN f[m - 1] + es[m].len ELSE f[i]]
  <2>5. g \in [0..m -> Nat] /\ Adds(g, m)
    <3>1. m \in 1..Len(es) /\ f[m - 1] \in Nat /\ es[m].len \in Nat
      BY <1>0, <2>1, <2>2, <2>3, <2>4
    <3>2. g \in [0..m -> Nat]
      BY <2>4, <3>1
    <3>3. \A i \in 0..(m - 1) : g[i] = f[i]
      BY <3>1
    <3>4. g[m] = g[m - 1] + es[m].len
      BY <3>1, <3>3
    <3>5. g[0] = 0
      BY <2>4, <3>1, <3>3
    <3> HIDE DEF g
    <3>6. \A i \in 1..m : i # m => g[i] = g[i - 1] + es[i].len
      <4> SUFFICES ASSUME NEW i \in 1..m, i # m PROVE g[i] = g[i - 1] + es[i].len
        OBVIOUS
      <4>1. i \in 1..(m - 1) /\ i \in 0..(m - 1) /\ i - 1 \in 0..(m - 1)
        BY <3>1
      <4>2. g[i] = f[i] /\ g[i - 1] = f[i - 1]
        BY <3>3, <4>1
      <4>3. f[i] = f[i - 1] + es[i].len
        BY <2>4, <4>1
      <4>4. QED
        BY <4>2, <4>3
    <3>7. QED
      BY <3>2, <3>4, <3>5, <3>6
  <2>6. QED
    BY <2>1, <2>5
<1>2. PICK f \in [0..Len(es) -> Nat] : Adds(f, Len(es))
  BY <1>1
<1>3. f = [i \in 0..Len(es) |-> IF i = 0 THEN 0 ELSE f[i - 1] + es[i].len]
  BY <1>2
<1> DEFINE S == Ends(es)
<1>4. S = [i \in 0..Len(es) |-> IF i = 0 THEN 0 ELSE S[i - 1] + es[i].len]
  BY <1>3 DEF Ends
<1> HIDE DEF S
<1>5. \A i \in 0..Len(es) : S[i] \in Nat
  <2> DEFINE Not == {n \in 0..Len(es) : S[n] \notin Nat}
  <2> SUFFICES ASSUME Not # {} PROVE FALSE
    OBVIOUS
  <2>1. PICK m \in Not : \A n \in Not : m <= n
    <3>1. Not \subseteq Nat
      OBVIOUS
    <3>2. QED
      BY <3>1, LeastOf
  <2>2. m # 0
    BY <1>4
  <2>3. m \in 1..Len(es) /\ m - 1 \in 0..Len(es) /\ S[m - 1] \in Nat
    BY <2>1, <2>2
  <2>4. S[m] = S[m - 1] + es[m].len
    <3>1. m \in 0..Len(es) /\ ~(m = 0)
      BY <2>1, <2>2
    <3>2. S[m] = IF m = 0 THEN 0 ELSE S[m - 1] + es[m].len
      BY <1>4, <3>1
    <3>3. QED
      BY <3>1, <3>2
  <2>5. QED
    BY <2>3, <2>4, <1>0
<1>6. S \in [0..Len(es) -> Nat]
  BY <1>4, <1>5
<1>7. 0 \in 0..Len(es) /\ \A i \in 1..Len(es) : i \in 0..Len(es) /\ i # 0
  OBVIOUS
<1>8. S[0] = 0 /\ \A i \in 1..Len(es) : S[i] = S[i - 1] + es[i].len
  BY <1>4, <1>7
<1>9. QED
  BY <1>6, <1>8 DEF S

(* Ends grow.                                                              *)
LEMMA EndsGrow ==
    ASSUME NEW es \in Seq(Elements), NEW i \in 0..Len(es), NEW j \in 0..Len(es), i < j
    PROVE  Ends(es)[i] < Ends(es)[j]
<1> DEFINE Off == {n \in 0..Len(es) : i < n /\ ~(Ends(es)[i] < Ends(es)[n])}
<1>0. Len(es) \in Nat
  OBVIOUS
<1>1. Off = {}
  <2> SUFFICES ASSUME Off # {} PROVE FALSE
    OBVIOUS
  <2>1. PICK m \in Off : \A n \in Off : m <= n
    <3>1. Off \subseteq Nat
      OBVIOUS
    <3>2. QED
      BY <3>1, LeastOf
  <2>2. m \in 0..Len(es) /\ i < m /\ ~(Ends(es)[i] < Ends(es)[m])
    OBVIOUS
  <2>3. m \in 1..Len(es) /\ m - 1 \in 0..Len(es)
    BY <1>0, <2>2
  <2>4. Ends(es)[m] = Ends(es)[m - 1] + es[m].len
    BY <2>3, EndsStep
  <2>5. es[m].len \in Nat /\ es[m].len > 0
    <3>1. es[m] \in Elements
      BY <2>3
    <3> DEFINE e == es[m]
    <3>2. e \in Elements
      BY <3>1
    <3> HIDE DEF e
    <3>3. e.len \in Nat \ {0}
      BY <3>2 DEF Elements
    <3>4. QED
      BY <3>3 DEF e
  <2>6. Ends(es)[i] \in Nat /\ Ends(es)[m - 1] \in Nat
    BY <2>3, EndsStep
  <2>7. ~(m - 1 \in Off)
    BY <2>1, <2>2, <1>0
  <2> HIDE DEF Off
  <2>8. CASE i = m - 1
    BY <2>2, <2>4, <2>5, <2>6, <2>8
  <2>9. CASE i # m - 1
    <3>1. i < m - 1
      BY <1>0, <2>2, <2>9
    <3>2. Ends(es)[i] < Ends(es)[m - 1]
      BY <2>3, <2>7, <3>1 DEF Off
    <3>3. QED
      BY <2>2, <2>4, <2>5, <2>6, <3>2
  <2>10. QED
    BY <2>8, <2>9
<1>2. QED
  BY <1>1

----------------------------------------------------------------------------
(* The segment that is read; it never changes.                             *)
SegmentOK ==
    /\ layout \in Seq(Elements) /\ layout # <<>>
    /\ declared \in Nat /\ narrow \in 0..7
    /\ \A i \in 1..Len(layout) :
          layout[i].kind = "Cluster" => layout[i].len + layout[i].narrow > HeaderLen

(* Elements lie one behind the other, from 0 to the end of the segment.    *)
LEMMA Places ==
    ASSUME SegmentOK
    PROVE  /\ Len(layout) \in Nat /\ 1 \in 1..Len(layout) /\ DOMAIN layout = 1..Len(layout)
           /\ LayoutEnd \in Nat /\ At(1) = 0 /\ EndOf(Len(layout)) = LayoutEnd
           /\ \A i \in 1..Len(layout) :
                 /\ layout[i] \in Elements
                 /\ At(i) \in Nat /\ EndOf(i) \in Nat /\ At(i) < EndOf(i)
                 /\ EndOf(i) = At(i + 1) /\ EndOf(i) <= LayoutEnd
                 /\ i < Len(layout) => i + 1 \in 1..Len(layout)
<1> DEFINE n == Len(layout)
<1>1. n \in Nat /\ n # 0 /\ DOMAIN layout = 1..n
  BY DEF SegmentOK
<1>2. \A i \in 1..n : layout[i] \in Elements
  BY DEF SegmentOK
<1>3. /\ \A i \in 0..n : Ends(layout)[i] \in Nat
      /\ Ends(layout)[0] = 0
      /\ \A i \in 1..n : Ends(layout)[i] = Ends(layout)[i - 1] + layout[i].len
  BY EndsStep DEF SegmentOK
<1>4. \A i \in 0..n, j \in 0..n : i < j => Ends(layout)[i] < Ends(layout)[j]
  BY EndsGrow DEF SegmentOK
<1>5. LayoutEnd = Ends(layout)[n]
  BY DEF LayoutEnd
<1> HIDE DEF n
<1>6. LayoutEnd \in Nat /\ At(1) = 0
  <2>1. n \in 0..n /\ 1 - 1 = 0
    BY <1>1
  <2>2. QED
    BY <1>3, <1>5, <2>1 DEF At
<1>7. ASSUME NEW i \in 1..n
      PROVE  /\ At(i) \in Nat /\ EndOf(i) \in Nat /\ At(i) < EndOf(i)
             /\ EndOf(i) = Ends(layout)[i] /\ EndOf(i) = At(i + 1) /\ EndOf(i) <= LayoutEnd
  <2>1. i \in 0..n /\ i - 1 \in 0..n /\ i - 1 < i /\ n \in 0..n /\ (i + 1) - 1 = i
    BY <1>1
  <2>2. At(i) = Ends(layout)[i - 1] /\ EndOf(i) = Ends(layout)[i - 1] + layout[i].len
    BY DEF At, EndOf
  <2>3. EndOf(i) = Ends(layout)[i]
    BY <1>3, <2>2
  <2>4. At(i + 1) = Ends(layout)[i]
    BY <2>1 DEF At
  <2>5. At(i) \in Nat /\ EndOf(i) \in Nat /\ At(i) < EndOf(i)
    BY <1>3, <1>4, <2>1, <2>2, <2>3
  <2>6. EndOf(i) <= LayoutEnd
    <3>1. CASE i = n
      BY <1>5, <1>6, <2>3, <3>1
    <3>2. CASE i # n
      <4>1. i < n
        BY <1>1, <3>2
      <4>2. Ends(layout)[i] < Ends(layout)[n]
        BY <1>4, <2>1, <4>1
      <4>3. QED
        BY <1>5, <1>6, <2>3, <2>5, <4>2
    <3>3. QED
      BY <3>1, <3>2
  <2>7. QED
    BY <2>3, <2>4, <2>5, <2>6
<1>8. EndOf(n) = LayoutEnd
  <2>1. n \in 1..n
    BY <1>1
  <2>2. QED
    BY <1>5, <1>7, <2>1
<1>9. 1 \in 1..n /\ \A i \in 1..n : i < n => i + 1 \in 1..n
  BY <1>1
<1>10. QED
  BY <1>1, <1>2, <1>6, <1>7, <1>8, <1>9 DEF n

LEMMA PlacesGrow ==
    ASSUME SegmentOK, NEW i \in 1..Len(layout), NEW j \in 1..Len(layout), i < j
    PROVE  At(i) < At(j) /\ EndOf(i) <= At(j) /\ EndOf(i) < EndOf(j)
<1>1. layout \in Seq(Elements) /\ Len(layout) \in Nat
  BY DEF SegmentOK
<1>2. /\ i - 1 \in 0..Len(layout) /\ j - 1 \in 0..Len(layout) /\ i - 1 < j - 1
      /\ i \in 0..Len(layout) /\ j \in 0..Len(layout)
  BY <1>1
<1>3. At(i) = Ends(layout)[i - 1] /\ At(j) = Ends(layout)[j - 1]
  BY DEF At
<1>4. At(i) < At(j)
  BY <1>1, <1>2, <1>3, EndsGrow
<1>5. EndOf(i) = Ends(layout)[i] /\ EndOf(j) = Ends(layout)[j]
  <2>1. EndOf(i) = At(i + 1) /\ EndOf(j) = At(j + 1)
    BY Places
  <2>2. (i + 1) - 1 = i /\ (j + 1) - 1 = j
    OBVIOUS
  <2>3. QED
    BY <2>1, <2>2 DEF At
<1>6. EndOf(i) < EndOf(j)
  BY <1>1, <1>2, <1>5, EndsGrow
<1>7. EndOf(i) <= At(j)
  <2>1. CASE i = j - 1
    <3>1. EndOf(i) = At(j) /\ At(j) \in Nat
      BY <1>3, <1>5, <2>1, Places
    <3>2. QED
      BY <3>1
  <2>2. CASE i # j - 1
    <3>1. i < j - 1
      BY <2>2
    <3>2. Ends(layout)[i] < Ends(layout)[j - 1]
      BY <1>1, <1>2, <3>1, EndsGrow
    <3>3. Ends(layout)[i] \in Nat /\ Ends(layout)[j - 1] \in Nat
      BY <1>1, <1>2, EndsStep
    <3>4. QED
      BY <1>3, <1>5, <3>2, <3>3
  <2>3. QED
    BY <2>1, <2>2
<1>8. QED
  BY <1>4, <1>6, <1>7

(* No two elements begin at the same place.                                *)
LEMMA PlaceTells ==
    ASSUME SegmentOK, NEW i \in 1..Len(layout)
    PROVE  /\ \A j \in 1..Len(layout) : At(j) = At(i) => j = i
           /\ ElementAt(At(i)) = i
           /\ \A kind : IsAt(kind, At(i)) <=> layout[i].kind = kind
<1>1. \A j \in 1..Len(layout) : At(j) = At(i) => j = i
  <2> SUFFICES ASSUME NEW j \in 1..Len(layout), At(j) = At(i), j # i PROVE FALSE
    OBVIOUS
  <2>1. i < j \/ j < i
    OBVIOUS
  <2>2. At(i) < At(j) \/ At(j) < At(i)
    BY <2>1, PlacesGrow
  <2>3. At(i) \in Nat /\ At(j) \in Nat
    BY Places
  <2>4. QED
    BY <2>2, <2>3
<1>2. DOMAIN layout = 1..Len(layout)
  BY Places
<1>3. ElementAt(At(i)) = i
  BY <1>1, <1>2 DEF ElementAt
<1>4. QED
  BY <1>1, <1>2, <1>3 DEF IsAt

LEMMA FirstIs ==
    ASSUME SegmentOK, NEW kind, NEW i \in 1..Len(layout),
           layout[i].kind = kind, \A j \in 1..(i - 1) : layout[j].kind # kind
    PROVE  Has(kind) /\ FirstOf(kind) = i
<1>1. DOMAIN layout = 1..Len(layout) /\ Len(layout) \in Nat
  BY Places
<1>2. ASSUME NEW j \in 1..Len(layout), layout[j].kind = kind,
             \A l \in 1..(j - 1) : layout[l].kind # kind
      PROVE  j = i
  <2>1. ~(i < j) /\ ~(j < i)
    BY <1>2
  <2>2. QED
    BY <2>1
<1>3. FirstOf(kind) = i
  BY <1>1, <1>2 DEF FirstOf
<1>4. QED
  BY <1>1, <1>3 DEF Has

LEMMA FirstThere ==
    ASSUME SegmentOK, NEW kind, Has(kind)
    PROVE  /\ FirstOf(kind) \in 1..Len(layout) /\ layout[FirstOf(kind)].kind = kind
           /\ \A j \in 1..Len(layout) : layout[j].kind = kind => FirstOf(kind) <= j
<1> DEFINE All == {i \in 1..Len(layout) : layout[i].kind = kind}
<1>1. DOMAIN layout = 1..Len(layout) /\ Len(layout) \in Nat
  BY Places
<1>2. PICK i \in All : \A j \in All : i <= j
  <2>1. All \subseteq Nat /\ All # {}
    BY <1>1 DEF Has
  <2>2. QED
    BY <2>1, LeastOf
<1>3. \A j \in 1..(i - 1) : layout[j].kind # kind
  <2> SUFFICES ASSUME NEW j \in 1..(i - 1), layout[j].kind = kind PROVE FALSE
    OBVIOUS
  <2>1. j \in All /\ j < i
    BY <1>1
  <2>2. QED
    BY <1>2, <2>1
<1>4. FirstOf(kind) = i
  BY <1>3, FirstIs
<1>5. QED
  BY <1>2, <1>4

----------------------------------------------------------------------------
(* What is found in an index.                                              *)
IndexEntries == [kind : STRING, offset : Int]

LEMMA FindFirst ==
    ASSUME NEW entries \in Seq(IndexEntries), NEW kind, NEW i \in 1..Len(entries),
           entries[i].kind = kind, \A j \in 1..(i - 1) : entries[j].kind # kind
    PROVE  Found(entries, kind) # {} /\ Find(entries, kind) = entries[i]
<1> DEFINE F == Found(entries, kind)
<1>1. F = {j \in 1..Len(entries) : entries[j].kind = kind}
  BY DEF Found
<1> HIDE DEF F
<1>2. i \in F /\ \A j \in F : i <= j
  <2> SUFFICES ASSUME NEW j \in F, j < i PROVE FALSE
    BY <1>1
  <2>1. j \in 1..(i - 1) /\ entries[j].kind = kind
    BY <1>1
  <2>2. QED
    BY <2>1
<1>3. \A j \in F : (\A l \in F : j <= l) => j = i
  BY <1>1, <1>2
<1>4. (CHOOSE j \in F : \A l \in F : j <= l) = i
  BY <1>2, <1>3
<1>5. QED
  BY <1>2, <1>4 DEF Find, F

LEMMA FoundHasFirst ==
    ASSUME NEW entries \in Seq(IndexEntries), NEW kind, Found(entries, kind) # {}
    PROVE  \E i \in 1..Len(entries) :
              /\ entries[i].kind = kind /\ \A j \in 1..(i - 1) : entries[j].kind # kind
              /\ Find(entries, kind) = entries[i]
<1> DEFINE F == {j \in 1..Len(entries) : entries[j].kind = kind}
<1>1. F \subseteq Nat /\ F # {}
  BY DEF Found
<1>2. PICK i \in F : \A j \in F : i <= j
  BY <1>1, LeastOf
<1>3. \A j \in 1..(i - 1) : entries[j].kind # kind
  <2> SUFFICES ASSUME NEW j \in 1..(i - 1), entries[j].kind = kind PROVE FALSE
    OBVIOUS
  <2>1. j \in F /\ j < i
    OBVIOUS
  <2>2. QED
    BY <1>2, <2>1
<1>4. Find(entries, kind) = entries[i]
  BY <1>3, FindFirst
<1>5. QED
  BY <1>3, <1>4

(* A new entry is found only where there was none of its kind.             *)
LEMMA FindAppended ==
    ASSUME NEW entries \in Seq(IndexEntries), NEW e \in IndexEntries, NEW kind
    PROVE  LET longer == Append(entries, e) IN
           /\ longer \in Seq(IndexEntries)
           /\ Found(entries, kind) # {} =>
                Found(longer, kind) # {} /\ Find(longer, kind) = Find(entries, kind)
           /\ Found(entries, kind) = {} /\ e.kind = kind =>
                Found(longer, kind) # {} /\ Find(longer, kind) = e
           /\ Found(entries, kind) = {} /\ e.kind # kind => Found(longer, kind) = {}
<1> DEFINE longer == Append(entries, e)
<1>1. /\ longer \in Seq(IndexEntries) /\ Len(longer) = Len(entries) + 1
      /\ Len(entries) \in Nat /\ longer[Len(entries) + 1] = e
      /\ \A i \in 1..Len(entries) : longer[i] = entries[i]
  OBVIOUS
<1>2. /\ Found(entries, kind) = {i \in 1..Len(entries) : entries[i].kind = kind}
      /\ Found(longer, kind) = {i \in 1..Len(longer) : longer[i].kind = kind}
  BY DEF Found
<1> HIDE DEF longer
<1>3. CASE Found(entries, kind) # {}
  <2>1. PICK i \in 1..Len(entries) :
              /\ entries[i].kind = kind /\ \A j \in 1..(i - 1) : entries[j].kind # kind
              /\ Find(entries, kind) = entries[i]
    BY <1>3, FoundHasFirst
  <2>2. i \in 1..Len(longer) /\ longer[i] = entries[i]
    BY <1>1
  <2>3. \A j \in 1..(i - 1) : longer[j].kind # kind
    BY <1>1, <2>1
  <2>4. Found(longer, kind) # {} /\ Find(longer, kind) = longer[i]
    BY <1>1, <2>1, <2>2, <2>3, FindFirst
  <2>5. QED
    BY <1>1, <1>3, <2>1, <2>2, <2>4 DEF longer
<1>4. CASE Found(entries, kind) = {}
  <2>1. \A i \in 1..Len(entries) : longer[i].kind # kind
    BY <1>1, <1>2, <1>4
  <2>2. CASE e.kind = kind
    <3>1. Len(entries) + 1 \in 1..Len(longer) /\ (Len(entries) + 1) - 1 = Len(entries)
      BY <1>1
    <3>2. Found(longer, kind) # {} /\ Find(longer, kind) = longer[Len(entries) + 1]
      BY <1>1, <2>1, <2>2, <3>1, FindFirst
    <3>3. QED
      BY <1>1, <1>4, <2>2, <3>2 DEF longer
  <2>3. CASE e.kind # kind
    <3>1. \A i \in 1..Len(longer) : longer[i].kind # kind
      <4> SUFFICES ASSUME NEW i \in 1..Len(longer) PROVE longer[i].kind # kind
        OBVIOUS
      <4>1. i \in 1..Len(entries) \/ i = Len(entries) + 1
        BY <1>1
      <4>2. QED
        BY <1>1, <2>1, <2>3, <4>1
    <3>2. Found(longer, kind) = {}
      BY <1>2, <3>1
    <3>3. QED
      BY <1>1, <1>4, <2>3, <3>2 DEF longer
  <2>4. QED
    BY <2>2, <2>3
<1>5. QED
  BY <1>3, <1>4

(* What a SeekHead holds is an index.                                      *)
LEMMA NamesAreIndex ==
    ASSUME SegmentOK, NEW i \in 1..Len(layout)
    PROVE  /\ layout[i].names \in Seq(IndexEntries)
           /\ \A k \in Wanted : k \in NamedBy(i) <=> Found(layout[i].names, k) # {}
<1>1. layout[i].names \in Seq(Entries)
  <2>1. layout[i] \in Elements
    BY Places
  <2>2. QED
    BY <2>1 DEF Elements
<1>2. Entries \subseteq IndexEntries
  BY DEF Entries, IndexEntries
<1>3. QED
  BY <1>1, <1>2 DEF NamedBy, KindsNamed

----------------------------------------------------------------------------
(* The inductive invariant.                                                *)

Phases == {"start", "scan", "check", "ready", "iterate", "done", "failed"}

TypeOK ==
    /\ SegmentOK
    /\ at \in Int /\ last \in Int /\ index \in Seq(IndexEntries)
    /\ phase \in Phases /\ visited \in Seq(Blocks)

(* The first m elements mention a kind, themselves or in a SeekHead.       *)
Mentions(k, m) ==
    \/ \E j \in 1..m : layout[j].kind = k
    \/ \E j \in 1..m : j \in Heads /\ k \in NamedBy(j)

(* The search is behind the first m elements.                              *)
Behind1(m) ==
    /\ at = Ends(layout)[m]
    /\ \A j \in 1..m : layout[j].kind \in Wanted => layout[j].kind \in have
    /\ \A k \in Wanted \cap have : Mentions(k, m)
    /\ "SeekHead" \in have <=> layout[1].kind = "SeekHead"
    /\ "SeekHead" \in have => m >= 1
    /\ last = 0 \/ \E j \in 1..m : j \in Heads /\ last = EndOf(j)
    /\ \A j \in 1..m : j \in Heads => EndOf(j) <= last

Scanned ==
    phase \in {"scan", "check"} =>
        \E m \in 0..Len(layout) : Behind1(m) /\ (phase = "check" => ~Searching)

(* The index is right in what it holds, and holds what the flags say, if   *)
(* SeekHeads are right; what is wrong in it a SeekHead says.               *)
Right(k) == Found(index, k) # {} => IsAt(k, PlaceOf(Find(index, k)))
Leads(k) == Found(index, k) # {} => Has(k) /\ PlaceOf(Find(index, k)) = At(FirstOf(k))
Told(k) ==
    Found(index, k) # {} =>
        LET p == PlaceOf(Find(index, k)) IN IsAt(k, p) \/ p \in NamedPlaces(k)
IndexRight ==
    /\ \A k \in Wanted : Told(k)
    /\ NamesLead =>
        \A k \in Wanted :
            /\ Right(k)
            /\ LateIndexComplete => Leads(k) /\ (k \in have => Found(index, k) # {})

Fresh ==
    /\ phase = "start" => at = 0 /\ index = <<>> /\ have = {} /\ last = 0
    /\ phase \in {"start", "scan", "check", "ready"} => visited = <<>>
    /\ phase # "failed" => result = "none"

AllThere == ReadReturned => Wanted \subseteq have

(* What the iteration has been on lies before where it is.                 *)
Below(c, b) == {x \in Blocks : Precedes(x, <<c, b>>)}
Visited == {visited[n] : n \in DOMAIN visited}

OnCluster ==
    phase = "iterate" =>
        /\ cur \in 1..Len(layout) /\ layout[cur].kind = "Cluster"
        /\ blk \in 1..(layout[cur].blocks + 1)

InStep ==
    LateIndexComplete /\ NamesLead /\ ClustersWide =>
        /\ InOrder
        /\ \E c \in Nat, b \in Nat :
              Visited = Below(c, b) /\ (phase = "iterate" => c = cur /\ b = blk)
        /\ ClustersLast /\ Blocks # {} /\ declared = LayoutEnd =>
              /\ phase = "done" => Blocks \subseteq Visited
              /\ result \notin IterationFailures

IInv ==
    /\ TypeOK /\ Fresh /\ Scanned /\ IndexRight /\ AllThere /\ OnCluster /\ InStep
    /\ VerdictJustified /\ PointerPlaced

----------------------------------------------------------------------------
(* The segment does not change, nor does what is said of it alone.         *)
LEMMA Still ==
    ASSUME UNCHANGED segment
    PROVE  /\ layout' = layout /\ declared' = declared /\ narrow' = narrow
           /\ LayoutEnd' = LayoutEnd /\ Heads' = Heads /\ Blocks' = Blocks
           /\ SegmentOK' <=> SegmentOK
           /\ NamesLead' <=> NamesLead
           /\ LateIndexComplete' <=> LateIndexComplete
           /\ ClustersWide' <=> ClustersWide
           /\ ClustersLast' <=> ClustersLast
           /\ \A i : At(i)' = At(i) /\ EndOf(i)' = EndOf(i) /\ NamedBy(i)' = NamedBy(i)
           /\ \A p : ElementAt(p)' = ElementAt(p)
           /\ \A e : PlaceOf(e)' = PlaceOf(e)
           /\ \A k : FirstOf(k)' = FirstOf(k)
           /\ \A k : Has(k)' <=> Has(k)
           /\ \A k : HasInside(k)' <=> HasInside(k)
           /\ \A k, p : IsAt(k, p)' <=> IsAt(k, p)
           /\ \A p : Inside(p)' <=> Inside(p)
           /\ \A k : NamedPlaces(k)' = NamedPlaces(k) /\ Astray(k)' = Astray(k)
           /\ \A k, m : Mentions(k, m)' <=> Mentions(k, m)
           /\ \A c, b : Below(c, b)' = Below(c, b)
<1>1. layout' = layout /\ declared' = declared /\ narrow' = narrow
  BY DEF segment
<1>2. LayoutEnd' = LayoutEnd /\ \A i : At(i)' = At(i) /\ EndOf(i)' = EndOf(i)
  BY <1>1 DEF LayoutEnd, At, EndOf
<1>3. Heads' = Heads /\ Blocks' = Blocks /\ \A i : NamedBy(i)' = NamedBy(i)
  BY <1>1 DEF Heads, Blocks, NamedBy
<1>4. /\ SegmentOK' <=> SegmentOK
      /\ ClustersWide' <=> ClustersWide
      /\ ClustersLast' <=> ClustersLast
  BY <1>1 DEF SegmentOK, ClustersWide, ClustersLast
<1>5. /\ \A p : ElementAt(p)' = ElementAt(p)
      /\ \A e : PlaceOf(e)' = PlaceOf(e)
      /\ \A k : FirstOf(k)' = FirstOf(k)
  BY <1>1, <1>2 DEF ElementAt, PlaceOf, FirstOf
<1>6. /\ \A k : Has(k)' <=> Has(k)
      /\ \A k : HasInside(k)' <=> HasInside(k)
      /\ \A k, p : IsAt(k, p)' <=> IsAt(k, p)
  BY <1>1, <1>2 DEF Has, HasInside, IsAt
<1>7. /\ \A k, m : Mentions(k, m)' <=> Mentions(k, m)
      /\ \A c, b : Below(c, b)' = Below(c, b)
  BY <1>1, <1>3 DEF Mentions, Below
<1>8. LateIndexComplete' <=> LateIndexComplete
  BY <1>1, <1>3 DEF LateIndexComplete
<1>9. NamesLead' <=> NamesLead
  BY <1>1, <1>2, <1>3, <1>5, <1>6 DEF NamesLead
<1>10. \A p : Inside(p)' <=> Inside(p)
  BY <1>1, <1>2 DEF Inside, StartsAt
<1>11. ASSUME NEW k PROVE NamedPlaces(k)' = NamedPlaces(k) /\ Astray(k)' = Astray(k)
  <2>1. NamedPlaces(k)' = NamedPlaces(k)
    BY <1>1, <1>3, <1>5 DEF NamedPlaces
  <2>2. QED
    BY <1>6, <2>1 DEF Astray
<1>12. QED
  BY <1>1, <1>2, <1>3, <1>4, <1>5, <1>6, <1>7, <1>8, <1>9, <1>10, <1>11

LEMMA InitOK ==
    ASSUME Init
    PROVE  IInv
<1>1. PICK s \in Segments : layout = s.elements /\ declared = s.declared /\ narrow = s.narrow
  BY DEF Init
<1>2. SegmentOK
  BY <1>1, SegmentsAssumption DEF SegmentOK
<1>3. /\ at = 0 /\ index = <<>> /\ have = {} /\ last = 0
      /\ phase = "start" /\ result = "none" /\ visited = <<>>
  BY DEF Init
<1>4. TypeOK /\ Fresh /\ Scanned /\ AllThere /\ OnCluster
  BY <1>2, <1>3 DEF TypeOK, Fresh, Scanned, AllThere, OnCluster, Phases, ReadReturned
<1>5. IndexRight
  <2>1. \A k : Found(index, k) = {}
    BY <1>3 DEF Found
  <2>2. \A k : k \notin have
    BY <1>3
  <2>3. QED
    BY <2>1, <2>2 DEF IndexRight, Right, Leads, Told
<1>6. VerdictJustified /\ PointerPlaced
  BY <1>3 DEF VerdictJustified, PointerPlaced, ReadReturned
<1>7. InStep
  <2>1. InOrder
    BY <1>3 DEF InOrder
  <2>2. Visited = Below(0, 0)
    <3>1. Visited = {}
      BY <1>3 DEF Visited
    <3>2. ASSUME NEW x \in Blocks, Precedes(x, <<0, 0>>) PROVE FALSE
      <4>1. PICK i \in 1..Len(layout) : \E b \in 1..layout[i].blocks : x = <<i, b>>
        BY <1>2, Places DEF Blocks
      <4>2. i < 0 \/ i = 0
        BY <3>2, <4>1 DEF Precedes
      <4>3. QED
        BY <4>2
    <3>3. QED
      BY <3>1, <3>2 DEF Below
  <2>3. phase = "start" /\ result \notin IterationFailures
    BY <1>3 DEF IterationFailures
  <2>4. QED
    BY <2>1, <2>2, <2>3 DEF InStep
<1>8. QED
  BY <1>4, <1>5, <1>6, <1>7 DEF IInv

----------------------------------------------------------------------------
(* What a step of read_body() leaves alone.                                *)

LEMMA ReadingKeeps ==
    ASSUME IInv, phase \in {"start", "scan", "check"}, UNCHANGED <<segment, iterVars>>,
           at' \in Int, last' \in Int, index' \in Seq(IndexEntries),
           phase' \in {"scan", "check", "ready", "failed"}, result' \notin IterationFailures
    PROVE  TypeOK' /\ OnCluster' /\ InStep'
<1>1. visited' = visited /\ cur' = cur /\ blk' = blk /\ UNCHANGED segment
  BY DEF iterVars
<1>2. phase' \in Phases /\ phase' # "iterate" /\ phase' # "done" /\ phase # "iterate"
  BY DEF Phases
<1>3. TypeOK'
  BY <1>1, <1>2, Still DEF IInv, TypeOK
<1>4. OnCluster'
  BY <1>2 DEF OnCluster
<1>5. InStep'
  <2>1. /\ Visited' = Visited
        /\ InOrder' <=> InOrder
    BY <1>1, Still DEF Visited, InOrder, VisitedBefore
  <2>2. (\E c \in Nat, b \in Nat : Visited = Below(c, b) /\ (phase = "iterate" => c = cur /\ b = blk))
         => \E c \in Nat, b \in Nat :
              Visited' = Below(c, b)' /\ (phase' = "iterate" => c = cur' /\ b = blk')
    BY <1>1, <1>2, <2>1, Still
  <2>3. QED
    BY <1>1, <1>2, <2>1, <2>2, Still DEF IInv, InStep
<1>6. QED
  BY <1>3, <1>4, <1>5

(* While the search goes on there is no verdict.                           *)
LEMMA NoVerdictYet ==
    ASSUME IInv, phase \in {"start", "scan"}, phase' \in {"scan", "check"},
           result' = result, visited' = visited
    PROVE  Fresh' /\ AllThere' /\ VerdictJustified' /\ PointerPlaced'
<1>1. result' = "none" /\ visited' = <<>>
  BY DEF IInv, Fresh
<1>2. ~ReadReturned'
  BY DEF ReadReturned
<1>3. QED
  BY <1>1, <1>2 DEF Fresh, AllThere, VerdictJustified, PointerPlaced

LEMMA Failing ==
    ASSUME phase' = "failed"
    PROVE  Fresh' /\ Scanned' /\ AllThere' /\ PointerPlaced' /\ ~ReadReturned'
BY DEF Fresh, Scanned, AllThere, PointerPlaced, ReadReturned

LEMMA IndexKept ==
    ASSUME IndexRight, UNCHANGED <<segment, index, have>>
    PROVE  IndexRight'
<1>1. UNCHANGED segment /\ index' = index /\ have' = have
  OBVIOUS
<1>2. \A k : Right(k)' <=> Right(k)
  BY <1>1, Still DEF Right, PlaceOf
<1>3. \A k : Leads(k)' <=> Leads(k)
  BY <1>1, Still DEF Leads, PlaceOf
<1>4. \A k : Told(k)' <=> Told(k)
  BY <1>1, Still DEF Told
<1>5. QED
  BY <1>1, <1>2, <1>3, <1>4, Still DEF IndexRight

----------------------------------------------------------------------------
(* The search meets the element behind the first m.                        *)
LEMMA MeetsNext ==
    ASSUME SegmentOK, NEW m \in 0..Len(layout), Behind1(m), at < LayoutEnd
    PROVE  /\ m + 1 \in 1..Len(layout) /\ at = At(m + 1) /\ ElementAt(at) = m + 1
           /\ Here = layout[m + 1] /\ at + SkipLen(Here) = Ends(layout)[m + 1]
           /\ Ends(layout)[m + 1] = EndOf(m + 1)
           /\ EndOf(m + 1) \in Nat /\ at \in Nat /\ m \in Nat
<1>1. Len(layout) \in Nat /\ LayoutEnd = Ends(layout)[Len(layout)]
  BY Places DEF LayoutEnd
<1>2. at = Ends(layout)[m]
  BY DEF Behind1
<1>3. m # Len(layout)
  <2>1. LayoutEnd \in Nat
    BY Places
  <2>2. QED
    BY <1>1, <1>2, <2>1
<1>4. m + 1 \in 1..Len(layout)
  BY <1>1, <1>3
<1>5. at = At(m + 1)
  <2>1. (m + 1) - 1 = m
    OBVIOUS
  <2>2. QED
    BY <1>2, <2>1 DEF At
<1>6. ElementAt(at) = m + 1
  BY <1>4, <1>5, PlaceTells
<1>7. Here = layout[m + 1] /\ at + SkipLen(Here) = EndOf(m + 1)
  BY <1>5, <1>6 DEF Here, SkipLen, EndOf
<1>8. Ends(layout)[m + 1] = EndOf(m + 1)
  <2>1. EndOf(m + 1) = At((m + 1) + 1)
    BY <1>4, Places
  <2>2. ((m + 1) + 1) - 1 = m + 1
    BY <1>4
  <2>3. QED
    BY <2>1, <2>2 DEF At
<1>9. EndOf(m + 1) \in Nat /\ at \in Nat
  BY <1>4, <1>5, Places
<1>10. QED
  BY <1>4, <1>5, <1>6, <1>7, <1>8, <1>9

(* More elements mention no less.                                          *)
LEMMA MentionsMore ==
    ASSUME NEW m \in Nat, NEW k, Mentions(k, m)
    PROVE  Mentions(k, m + 1)
BY DEF Mentions

(* The search has gone past an element that is no SeekHead.                *)
LEMMA GoesPast ==
    ASSUME SegmentOK, NEW m \in 0..Len(layout), Behind1(m), at < LayoutEnd,
           UNCHANGED segment, at' = at + SkipLen(Here), last' = last,
           Here.kind # "SeekHead", have \subseteq have', have' \subseteq have \cup {Here.kind},
           Here.kind \in Wanted => Here.kind \in have'
    PROVE  Behind1(m + 1)'
<1>1. /\ m + 1 \in 1..Len(layout) /\ Here = layout[m + 1] /\ at' = Ends(layout)[m + 1]
      /\ m \in Nat
  BY MeetsNext
<1>2. layout' = layout
  BY Still
<1>3. \A j \in 1..(m + 1) : j \in 1..m \/ j = m + 1
  BY <1>1
<1>4. \A j \in 1..(m + 1) : layout[j].kind \in Wanted => layout[j].kind \in have'
  BY <1>1, <1>3 DEF Behind1
<1>5. ASSUME NEW k \in Wanted, k \in have' PROVE Mentions(k, m + 1)
  <2>1. CASE k \in have
    BY <1>1, <1>5, <2>1, MentionsMore DEF Behind1
  <2>2. CASE k = Here.kind
    <3>1. m + 1 \in 1..(m + 1)
      BY <1>1
    <3>2. QED
      BY <1>1, <2>2, <3>1 DEF Mentions
  <2>3. QED
    BY <1>5, <2>1, <2>2
<1>6. /\ "SeekHead" \in have' <=> "SeekHead" \in have
      /\ m + 1 >= 1
  BY <1>1
<1>7. m + 1 \notin Heads
  BY <1>1 DEF Heads
<1>8. /\ last = 0 \/ \E j \in 1..(m + 1) : j \in Heads /\ last = EndOf(j)
      /\ \A j \in 1..(m + 1) : j \in Heads => EndOf(j) <= last
  BY <1>1, <1>3, <1>7 DEF Behind1
<1>9. /\ "SeekHead" \in have' <=> layout[1].kind = "SeekHead"
      /\ "SeekHead" \in have' => m + 1 >= 1
  BY <1>6 DEF Behind1
<1>10. \A j : EndOf(j)' = EndOf(j)
  BY Still
<1>11. Heads' = Heads /\ \A k : Mentions(k, m + 1)' <=> Mentions(k, m + 1)
  BY Still
<1>12. QED
  BY <1>1, <1>2, <1>4, <1>5, <1>8, <1>9, <1>10, <1>11 DEF Behind1

(* It has put that element into the index.                                 *)
LEMMA IndexGrows ==
    ASSUME IInv, NEW m \in 0..Len(layout), Behind1(m), at < LayoutEnd,
           UNCHANGED segment, index' = Append(index, Entry),
           have \subseteq have', have' \subseteq have \cup {Here.kind}
    PROVE  IndexRight' /\ index' \in Seq(IndexEntries)
<1> DEFINE e == Entry
<1>1. SegmentOK /\ index \in Seq(IndexEntries) /\ IndexRight
  BY DEF IInv, TypeOK
<1>2. /\ m + 1 \in 1..Len(layout) /\ Here = layout[m + 1] /\ at = At(m + 1)
      /\ m \in Nat /\ at \in Nat
  BY <1>1, MeetsNext
<1>3. e \in IndexEntries /\ e.kind = Here.kind /\ PlaceOf(e) = at
  <2>1. e = [kind |-> Here.kind, offset |-> at - narrow]
    BY DEF Entry, OffsetOf
  <2>2. Here.kind \in STRING
    <3>1. layout[m + 1] \in Elements
      BY <1>1, <1>2, Places
    <3>2. QED
      BY <1>2, <3>1 DEF Elements
  <2>3. narrow \in Int
    BY <1>1 DEF SegmentOK
  <2> HIDE DEF e
  <2>4. e.kind = Here.kind /\ e.offset = at - narrow /\ e.offset \in Int
    BY <1>2, <2>1, <2>3
  <2>5. e \in IndexEntries
    BY <1>2, <2>1, <2>2, <2>3 DEF IndexEntries
  <2>6. QED
    BY <1>2, <2>3, <2>4, <2>5 DEF PlaceOf
<1> HIDE DEF e
<1>4. index' = Append(index, e) /\ index' \in Seq(IndexEntries)
  BY <1>1, <1>3 DEF e
<1>5. ASSUME NEW k
      PROVE  /\ Found(index, k) # {} =>
                  Found(index', k) # {} /\ Find(index', k) = Find(index, k)
             /\ Found(index, k) = {} /\ e.kind = k =>
                  Found(index', k) # {} /\ Find(index', k) = e
             /\ Found(index, k) = {} /\ e.kind # k => Found(index', k) = {}
  BY <1>1, <1>3, <1>4, FindAppended
<1>6. IsAt(e.kind, PlaceOf(e))
  BY <1>1, <1>2, <1>3, PlaceTells
<1>7. ASSUME NamesLead, NEW k \in Wanted
      PROVE  Found(index', k) # {} => IsAt(k, PlaceOf(Find(index', k)))
  BY <1>1, <1>5, <1>6, <1>7 DEF IndexRight, Right
<1>8. ASSUME NamesLead, LateIndexComplete, NEW k \in Wanted
      PROVE  /\ Found(index', k) # {} => Has(k) /\ PlaceOf(Find(index', k)) = At(FirstOf(k))
             /\ k \in have' => Found(index', k) # {}
  <2>1. CASE Found(index, k) # {}
    BY <1>1, <1>5, <1>8, <2>1 DEF IndexRight, Leads
  <2>2. CASE Found(index, k) = {} /\ e.kind = k
    <3>1. k \notin have
      BY <1>1, <1>8, <2>2 DEF IndexRight
    <3>2. \A j \in 1..m : layout[j].kind # k
      BY <3>1, <1>8 DEF Behind1
    <3>3. Has(k) /\ FirstOf(k) = m + 1
      <4>1. (m + 1) - 1 = m
        BY <1>2
      <4>2. QED
        BY <1>1, <1>2, <1>3, <2>2, <3>2, <4>1, FirstIs
    <3>4. QED
      BY <1>2, <1>3, <1>5, <2>2, <3>3
  <2>3. CASE Found(index, k) = {} /\ e.kind # k
    <3>1. k \notin have
      BY <1>1, <1>8, <2>3 DEF IndexRight
    <3>2. k \notin have'
      BY <1>3, <2>3, <3>1
    <3>3. QED
      BY <1>5, <2>3, <3>2
  <2>4. QED
    BY <2>1, <2>2, <2>3
<1>9. \A en : PlaceOf(en)' = PlaceOf(en)
  BY Still
<1>10. ASSUME NEW k \in Wanted PROVE Told(k)'
  <2>1. Found(index', k) # {} =>
          \/ Found(index, k) # {} /\ Find(index', k) = Find(index, k)
          \/ e.kind = k /\ Find(index', k) = e
    BY <1>5
  <2>2. Found(index', k) # {} =>
          \/ IsAt(k, PlaceOf(Find(index', k)))
          \/ PlaceOf(Find(index', k)) \in NamedPlaces(k)
    BY <1>1, <1>6, <2>1 DEF IndexRight, Told
  <2>3. QED
    BY <1>9, <2>2, Still DEF Told
<1>11. QED
  BY <1>4, <1>7, <1>8, <1>9, <1>10, Still DEF IndexRight, Right, Leads, PlaceOf

(* A SeekHead becomes the index.                                           *)
LEMMA IndexTaken ==
    ASSUME SegmentOK, NEW h \in 1..Len(layout), h \in Heads, UNCHANGED segment,
           index' = layout[h].names, \A k \in Wanted \cap have' : Mentions(k, h)
    PROVE  IndexRight' /\ index' \in Seq(IndexEntries)
<1>1. /\ index' \in Seq(IndexEntries)
      /\ \A k \in Wanted : k \in NamedBy(h) <=> Found(index', k) # {}
  BY NamesAreIndex
<1>2. ASSUME NamesLead, NEW k \in Wanted, Found(index', k) # {}
      PROVE  /\ Has(k) /\ PlaceOf(Find(index', k)) = At(FirstOf(k))
             /\ IsAt(k, PlaceOf(Find(index', k)))
  <2>1. Has(k) /\ PlaceOf(Find(index', k)) = At(FirstOf(k))
    BY <1>1, <1>2 DEF NamesLead
  <2>2. FirstOf(k) \in 1..Len(layout) /\ layout[FirstOf(k)].kind = k
    BY <2>1, FirstThere
  <2>3. QED
    BY <2>1, <2>2, PlaceTells
<1>3. ASSUME LateIndexComplete, NEW k \in Wanted, k \in have' PROVE Found(index', k) # {}
  <2>1. Mentions(k, h)
    BY <1>3
  <2>2. \A j \in 1..h : j \in 1..(h - 1) \/ j = h
    OBVIOUS
  <2>3. layout[h].kind # k
    BY <1>3 DEF Heads, Wanted
  <2>4. k \in NamedBy(h)
    <3>1. CASE \E j \in 1..h : layout[j].kind = k
      <4>1. PICK j \in 1..(h - 1) : layout[j].kind = k
        BY <2>2, <2>3, <3>1
      <4>2. QED
        BY <1>3, <4>1 DEF LateIndexComplete
    <3>2. CASE \E j \in 1..h : j \in Heads /\ k \in NamedBy(j)
      BY <1>3, <2>2, <3>2 DEF LateIndexComplete
    <3>3. QED
      BY <2>1, <3>1, <3>2 DEF Mentions
  <2>5. QED
    BY <1>1, <2>4
<1>4. ASSUME NEW k \in Wanted PROVE Told(k)'
  <2>1. Found(index', k) # {} => PlaceOf(Find(index', k)) \in NamedPlaces(k)
    BY <1>1 DEF NamedPlaces
  <2>2. QED
    BY <2>1, Still DEF Told
<1>5. QED
  BY <1>1, <1>2, <1>3, <1>4, Still DEF IndexRight, Right, Leads, PlaceOf

(* The search stands behind a SeekHead it has read.                        *)
LEMMA HeadTaken ==
    ASSUME SegmentOK, NEW h \in 1..Len(layout), h \in Heads, UNCHANGED segment,
           at' = EndOf(h), last' = EndOf(h),
           \A j \in 1..(h - 1) : layout[j].kind \in Wanted => layout[j].kind \in have',
           \A k \in Wanted \cap have' : Mentions(k, h),
           "SeekHead" \in have' <=> layout[1].kind = "SeekHead"
    PROVE  Behind1(h)'
<1>1. EndOf(h) = Ends(layout)[h]
  <2>1. EndOf(h) = At(h + 1) /\ (h + 1) - 1 = h
    BY Places
  <2>2. QED
    BY <2>1 DEF At
<1>2. \A j \in 1..h : j \in 1..(h - 1) \/ j = h
  OBVIOUS
<1>3. \A j \in 1..h : layout[j].kind \in Wanted => layout[j].kind \in have'
  <2>1. layout[h].kind \notin Wanted
    BY DEF Heads, Wanted
  <2>2. QED
    BY <1>2, <2>1
<1>4. ASSUME NEW j \in 1..h, j \in Heads PROVE EndOf(j) <= EndOf(h)
  <2>1. CASE j = h
    BY <2>1, Places
  <2>2. CASE j # h
    <3>1. j \in 1..Len(layout) /\ j < h
      BY <2>2, Places
    <3>2. EndOf(j) < EndOf(h) /\ EndOf(j) \in Nat /\ EndOf(h) \in Nat
      BY <3>1, PlacesGrow, Places
    <3>3. QED
      BY <3>2
  <2>3. QED
    BY <2>1, <2>2
<1>5. h \in 1..h /\ h >= 1
  OBVIOUS
<1>6. \A j : EndOf(j)' = EndOf(j)
  BY Still
<1>7. layout' = layout /\ Heads' = Heads /\ \A k : Mentions(k, h)' <=> Mentions(k, h)
  BY Still
<1>8. QED
  BY <1>1, <1>3, <1>4, <1>5, <1>6, <1>7 DEF Behind1

----------------------------------------------------------------------------
(* The steps of read_body().                                               *)

LEMMA RefuseKeeps ==
    ASSUME IInv, RefuseBody
    PROVE  IInv'
<1>1. /\ phase = "start" /\ phase' = "failed" /\ result' = "BadBodySize"
      /\ UNCHANGED <<segment, index, have, iterVars, at, last>>
  BY DEF RefuseBody, Fail, readVars
<1>2. TypeOK' /\ OnCluster' /\ InStep'
  BY <1>1, ReadingKeeps DEF IInv, TypeOK, IterationFailures
<1>3. Fresh' /\ Scanned' /\ AllThere' /\ PointerPlaced' /\ ~ReadReturned'
  BY <1>1, Failing
<1>4. IndexRight'
  BY <1>1, IndexKept DEF IInv
<1>5. VerdictJustified'
  BY <1>1, <1>3 DEF VerdictJustified
<1>6. QED
  BY <1>2, <1>3, <1>4, <1>5 DEF IInv

LEMMA ReadFirstKeeps ==
    ASSUME IInv, ReadFirst
    PROVE  IInv'
<1>1. /\ phase = "start" /\ phase' = "scan" /\ result' = result
      /\ UNCHANGED <<segment, iterVars>> /\ visited' = visited
  BY DEF ReadFirst, iterVars
<1>2. SegmentOK /\ at = 0 /\ index = <<>> /\ have = {} /\ last = 0 /\ result = "none"
  BY <1>1 DEF IInv, TypeOK, Fresh
<1>3. Fresh' /\ AllThere' /\ VerdictJustified' /\ PointerPlaced'
  BY <1>1, NoVerdictYet
<1>4. /\ 1 \in 1..Len(layout) /\ Len(layout) \in Nat /\ DOMAIN layout = 1..Len(layout)
      /\ EndOf(1) \in Nat
  BY <1>2, Places
<1>5. /\ at' \in Int /\ last' \in Int /\ index' \in Seq(IndexEntries) /\ IndexRight'
      /\ \E m \in 0..Len(layout) : Behind1(m)'
  <2>1. CASE layout[1].kind = "SeekHead"
    <3>1. /\ index' = layout[1].names /\ have' = {"SeekHead"} \cup NamedBy(1)
          /\ at' = EndOf(1) /\ last' = EndOf(1)
      BY <2>1 DEF ReadFirst, NamedBy
    <3>2. 1 \in Heads
      BY <1>4, <2>1 DEF Heads
    <3>3. \A k \in Wanted \cap have' : Mentions(k, 1)
      <4>1. 1 \in 1..1
        OBVIOUS
      <4>2. "SeekHead" \notin Wanted
        BY DEF Wanted
      <4>3. QED
        BY <3>1, <3>2, <4>1, <4>2 DEF Mentions
    <3>4. IndexRight' /\ index' \in Seq(IndexEntries)
      BY <1>1, <1>2, <1>4, <3>1, <3>2, <3>3, IndexTaken
    <3>5. Behind1(1)'
      <4>1. "SeekHead" \in have' <=> layout[1].kind = "SeekHead"
        BY <2>1, <3>1
      <4>2. \A j \in 1..(1 - 1) : FALSE
        OBVIOUS
      <4>3. QED
        BY <1>1, <1>2, <1>4, <3>1, <3>2, <3>3, <4>1, <4>2, HeadTaken
    <3>6. QED
      BY <1>4, <3>1, <3>4, <3>5
  <2>2. CASE layout[1].kind # "SeekHead"
    <3>1. UNCHANGED <<at, index, have, last>>
      BY <2>2 DEF ReadFirst
    <3>2. IndexRight'
      BY <1>1, <3>1, IndexKept DEF IInv
    <3>3. Behind1(0)'
      <4>1. at' = Ends(layout)[0]
        BY <1>2, <3>1, Places DEF At
      <4>2. layout' = layout
        BY <1>1, Still
      <4>3. QED
        BY <1>2, <2>2, <3>1, <4>1, <4>2 DEF Behind1
    <3>4. QED
      BY <1>2, <1>4, <3>1, <3>2, <3>3
  <2>3. QED
    BY <2>1, <2>2
<1>6. TypeOK' /\ OnCluster' /\ InStep'
  BY <1>1, <1>2, <1>5, ReadingKeeps DEF IterationFailures
<1>7. Scanned'
  BY <1>1, <1>5, Still DEF Scanned
<1>8. QED
  BY <1>3, <1>5, <1>6, <1>7 DEF IInv

LEMMA SearchGoesOn ==
    ASSUME IInv, NEW m \in 0..Len(layout), Behind1(m), phase = "scan", at < LayoutEnd,
           UNCHANGED <<segment, last, phase, result, iterVars>>, Skipped,
           Here.kind # "SeekHead", have \subseteq have', have' \subseteq have \cup {Here.kind},
           Here.kind \in Wanted => Here.kind \in have',
           IndexRight', index' \in Seq(IndexEntries)
    PROVE  IInv'
<1>1. /\ SegmentOK /\ last \in Int /\ result = "none"
      /\ phase' = "scan" /\ result' = result /\ last' = last
      /\ UNCHANGED <<segment, iterVars>> /\ UNCHANGED segment /\ visited' = visited
      /\ at' = at + SkipLen(Here)
  BY DEF IInv, TypeOK, Fresh, iterVars, Skipped
<1>2. /\ m + 1 \in 0..Len(layout) /\ at' \in Int
  <2>1. m + 1 \in 1..Len(layout) /\ at' = EndOf(m + 1) /\ EndOf(m + 1) \in Nat
    BY <1>1, MeetsNext
  <2>2. QED
    BY <2>1
<1>3. Behind1(m + 1)'
  BY <1>1, GoesPast
<1>4. TypeOK' /\ OnCluster' /\ InStep'
  BY <1>1, <1>2, ReadingKeeps DEF IterationFailures
<1>5. Fresh' /\ AllThere' /\ VerdictJustified' /\ PointerPlaced'
  BY <1>1, NoVerdictYet
<1>6. Scanned'
  BY <1>1, <1>2, <1>3, Still DEF Scanned
<1>7. QED
  BY <1>4, <1>5, <1>6 DEF IInv

LEMMA MeetInfoOrTracksKeeps ==
    ASSUME IInv, MeetInfoOrTracks
    PROVE  IInv'
<1>1. phase = "scan" /\ at < LayoutEnd /\ Here.kind \in {"Info", "Tracks"}
  BY DEF MeetInfoOrTracks, Meet, Here
<1>2. PICK m \in 0..Len(layout) : Behind1(m)
  BY <1>1 DEF IInv, Scanned
<1>3. /\ have' = have \cup {Here.kind} /\ index' = Append(index, Entry) /\ Skipped
      /\ UNCHANGED <<segment, last, phase, result, iterVars>> /\ UNCHANGED segment
  BY DEF MeetInfoOrTracks
<1>4. IndexRight' /\ index' \in Seq(IndexEntries)
  BY <1>1, <1>2, <1>3, IndexGrows
<1>5. Here.kind # "SeekHead"
  BY <1>1
<1>6. QED
  BY <1>1, <1>2, <1>3, <1>4, <1>5, SearchGoesOn

LEMMA MeetClusterKeeps ==
    ASSUME IInv, MeetCluster
    PROVE  IInv'
<1>1. phase = "scan" /\ at < LayoutEnd /\ Here.kind = "Cluster"
  BY DEF MeetCluster, Meet, Here
<1>2. PICK m \in 0..Len(layout) : Behind1(m)
  BY <1>1 DEF IInv, Scanned
<1>3. /\ have' = have \cup {"Cluster"} /\ Skipped
      /\ index' = IF FirstCluster THEN Append(index, Entry) ELSE index
      /\ UNCHANGED <<segment, last, phase, result, iterVars>> /\ UNCHANGED segment
  BY DEF MeetCluster
<1>4. IndexRight' /\ index' \in Seq(IndexEntries)
  <2>1. CASE FirstCluster
    BY <1>1, <1>2, <1>3, <2>1, IndexGrows
  <2>2. CASE ~FirstCluster
    <3>1. have' = have /\ index' = index
      BY <1>3, <2>2 DEF FirstCluster
    <3>2. QED
      BY <1>3, <3>1, IndexKept DEF IInv, TypeOK
  <2>3. QED
    BY <2>1, <2>2
<1>5. Here.kind # "SeekHead"
  BY <1>1
<1>6. QED
  BY <1>1, <1>2, <1>3, <1>4, <1>5, SearchGoesOn

LEMMA MeetOtherKeeps ==
    ASSUME IInv, MeetOther
    PROVE  IInv'
<1>1. phase = "scan" /\ at < LayoutEnd /\ Here.kind \in Indexed \cup {"Void"}
  BY DEF MeetOther, Meet, Here
<1>2. PICK m \in 0..Len(layout) : Behind1(m)
  BY <1>1 DEF IInv, Scanned
<1>3. /\ have' = have /\ Skipped
      /\ index' = IF Here.kind = "Void" THEN index ELSE Append(index, Entry)
      /\ UNCHANGED <<segment, last, phase, result, iterVars>> /\ UNCHANGED segment
  BY DEF MeetOther
<1>4. IndexRight' /\ index' \in Seq(IndexEntries)
  <2>1. CASE Here.kind # "Void"
    BY <1>1, <1>2, <1>3, <2>1, IndexGrows
  <2>2. CASE Here.kind = "Void"
    BY <1>3, <2>2, IndexKept DEF IInv, TypeOK
  <2>3. QED
    BY <2>1, <2>2
<1>5. Here.kind # "SeekHead" /\ Here.kind \notin Wanted
  BY <1>1 DEF Indexed, Wanted
<1>6. QED
  BY <1>1, <1>2, <1>3, <1>4, <1>5, SearchGoesOn

LEMMA MeetSeekHeadKeeps ==
    ASSUME IInv, MeetSeekHead
    PROVE  IInv'
<1>1. phase = "scan" /\ at < LayoutEnd /\ Here.kind = "SeekHead"
  BY DEF MeetSeekHead, Meet, Here
<1>2. PICK m \in 0..Len(layout) : Behind1(m)
  BY <1>1 DEF IInv, Scanned
<1>3. /\ SegmentOK /\ at \in Int /\ last \in Int /\ index \in Seq(IndexEntries)
      /\ result = "none" /\ UNCHANGED iterVars /\ visited' = visited
  BY <1>1 DEF IInv, TypeOK, Fresh, MeetSeekHead, iterVars
<1>4. /\ m + 1 \in 1..Len(layout) /\ Here = layout[m + 1] /\ m \in Nat
      /\ at + SkipLen(Here) = EndOf(m + 1) /\ EndOf(m + 1) \in Nat
  BY <1>1, <1>2, <1>3, MeetsNext
<1>5. DOMAIN layout = 1..Len(layout) /\ 1 \in 1..Len(layout)
  BY <1>3, Places
<1>6. CASE "SeekHead" \in have
  <2>1. phase' = "failed" /\ result' = "MultipleSeekHeads" /\ UNCHANGED readVars
    BY <1>6 DEF MeetSeekHead, Fail
  <2>2. UNCHANGED <<segment, index, have, at, last>> /\ UNCHANGED segment
    BY <2>1 DEF readVars
  <2>3. TypeOK' /\ OnCluster' /\ InStep'
    BY <1>1, <1>3, <2>1, <2>2, ReadingKeeps DEF IterationFailures
  <2>4. Fresh' /\ Scanned' /\ AllThere' /\ PointerPlaced' /\ ~ReadReturned'
    BY <2>1, Failing
  <2>5. IndexRight'
    BY <2>2, IndexKept DEF IInv
  <2>6. VerdictJustified'
    <3>1. layout[1].kind = "SeekHead" /\ m >= 1
      BY <1>2, <1>6 DEF Behind1
    <3>2. 1 # m + 1 /\ layout[m + 1].kind = "SeekHead"
      BY <1>1, <1>4, <3>1
    <3>3. layout' = layout
      BY <2>2, Still
    <3>4. QED
      BY <1>4, <1>5, <2>1, <2>4, <3>1, <3>2, <3>3 DEF VerdictJustified
  <2>7. QED
    BY <2>3, <2>4, <2>5, <2>6 DEF IInv
<1>7. CASE "SeekHead" \notin have
  <2> DEFINE h == m + 1
  <2>1. /\ index' = layout[h].names /\ have' = have \cup NamedBy(h)
        /\ at' = EndOf(h) /\ last' = EndOf(h)
        /\ UNCHANGED segment /\ phase' = phase /\ result' = result
    BY <1>4, <1>7 DEF MeetSeekHead, TakeIndex, Skipped, NamedBy
  <2>2. h \in 1..Len(layout) /\ h - 1 = m /\ h \in 1..h
    BY <1>4
  <2>3. layout[1].kind # "SeekHead"
    BY <1>2, <1>7 DEF Behind1
  <2>4. h \in Heads
    BY <1>1, <1>4, <1>5, <2>3 DEF Heads
  <2>5. \A k \in Wanted \cap have' : Mentions(k, h)
    <3> SUFFICES ASSUME NEW k \in Wanted, k \in have' PROVE Mentions(k, h)
      OBVIOUS
    <3>1. CASE k \in have
      BY <1>2, <1>4, <3>1, MentionsMore DEF Behind1
    <3>2. CASE k \in NamedBy(h)
      BY <2>2, <2>4, <3>2 DEF Mentions
    <3>3. QED
      BY <2>1, <3>1, <3>2
  <2>6. "SeekHead" \in have' <=> layout[1].kind = "SeekHead"
    <3>1. "SeekHead" \notin NamedBy(h)
      BY DEF NamedBy, KindsNamed, Wanted
    <3>2. QED
      BY <1>7, <2>1, <2>3, <3>1
  <2>7. \A j \in 1..(h - 1) : layout[j].kind \in Wanted => layout[j].kind \in have'
    BY <1>2, <2>1, <2>2 DEF Behind1
  <2> HIDE DEF h
  <2>8. IndexRight' /\ index' \in Seq(IndexEntries)
    BY <1>3, <2>1, <2>2, <2>4, <2>5, IndexTaken
  <2>9. Behind1(h)'
    BY <1>3, <2>1, <2>2, <2>4, <2>5, <2>6, <2>7, HeadTaken
  <2>10. EndOf(h) \in Int
    BY <1>4 DEF h
  <2>11. TypeOK' /\ OnCluster' /\ InStep'
    BY <1>1, <1>3, <2>1, <2>8, <2>10, ReadingKeeps DEF IterationFailures
  <2>12. Fresh' /\ AllThere' /\ VerdictJustified' /\ PointerPlaced'
    BY <1>1, <1>3, <2>1, NoVerdictYet
  <2>13. Scanned'
    <3>1. h \in 0..Len(layout) /\ layout' = layout
      BY <2>1, <2>2, Still
    <3>2. QED
      BY <1>1, <2>1, <2>9, <3>1 DEF Scanned
  <2>14. QED
    BY <2>8, <2>11, <2>12, <2>13 DEF IInv
<1>8. QED
  BY <1>6, <1>7

LEMMA SearchFailsKeeps ==
    ASSUME IInv, MeetStranger \/ MeetEnd
    PROVE  IInv'
<1>1. /\ phase = "scan" /\ phase' = "failed" /\ UNCHANGED readVars /\ UNCHANGED iterVars
      /\ result' = "InvalidChildID"
            \/ (result' = "ReadError" /\ at = LayoutEnd /\ at < declared)
  BY DEF MeetStranger, MeetEnd, Fail, Searching
<1>2. UNCHANGED <<segment, iterVars, index, have>> /\ at' = at /\ last' = last /\ UNCHANGED segment
  BY <1>1 DEF readVars
<1>3. TypeOK' /\ OnCluster' /\ InStep'
  BY <1>1, <1>2, ReadingKeeps DEF IterationFailures, IInv, TypeOK
<1>4. Fresh' /\ Scanned' /\ AllThere' /\ PointerPlaced' /\ ~ReadReturned'
  BY <1>1, Failing
<1>5. IndexRight'
  BY <1>2, IndexKept DEF IInv
<1>6. VerdictJustified'
  <2>1. LayoutEnd' = LayoutEnd /\ declared' = declared
    BY <1>2, Still
  <2>2. result' = "ReadError" => declared' > LayoutEnd'
    <3>1. declared \in Nat /\ LayoutEnd \in Nat
      BY Places DEF IInv, TypeOK, SegmentOK
    <3>2. QED
      BY <1>1, <2>1, <3>1
  <2>3. /\ result' # "NoSegmentInfo" /\ result' # "NoTracks" /\ result' # "NoClusters"
        /\ result' # "MultipleSeekHeads" /\ result' \notin {"InvalidVarInt", "InvalidEBMLID"}
    BY <1>1
  <2>4. QED
    BY <1>4, <2>2, <2>3 DEF VerdictJustified
<1>7. QED
  BY <1>3, <1>4, <1>5, <1>6 DEF IInv

LEMMA StopSearchingKeeps ==
    ASSUME IInv, StopSearching
    PROVE  IInv'
<1>1. /\ phase = "scan" /\ ~Searching /\ phase' = "check" /\ result' = result
      /\ UNCHANGED readVars /\ UNCHANGED iterVars
  BY DEF StopSearching
<1>2. /\ UNCHANGED <<segment, iterVars, index, have>> /\ at' = at /\ last' = last
      /\ UNCHANGED segment /\ visited' = visited /\ have' = have
  BY <1>1 DEF readVars, iterVars
<1>3. TypeOK' /\ OnCluster' /\ InStep'
  BY <1>1, <1>2, ReadingKeeps DEF IterationFailures, IInv, TypeOK, Fresh
<1>4. Fresh' /\ AllThere' /\ VerdictJustified' /\ PointerPlaced'
  BY <1>1, <1>2, NoVerdictYet
<1>5. IndexRight'
  BY <1>2, IndexKept DEF IInv
<1>6. Scanned'
  <2>1. PICK m \in 0..Len(layout) : Behind1(m)
    BY <1>1 DEF IInv, Scanned
  <2>2. /\ layout' = layout /\ declared' = declared /\ Heads' = Heads
        /\ \A j : EndOf(j)' = EndOf(j)
        /\ \A k : Mentions(k, m)' <=> Mentions(k, m)
    BY <1>2, Still
  <2>3. Behind1(m)'
    BY <1>2, <2>1, <2>2 DEF Behind1
  <2>4. ~Searching'
    BY <1>1, <1>2, <2>2 DEF Searching
  <2>5. QED
    BY <2>1, <2>2, <2>3, <2>4 DEF Scanned
<1>7. QED
  BY <1>3, <1>4, <1>5, <1>6 DEF IInv

(* What a search that has ended has not met is not inside the segment.     *)
LEMMA NoneInside ==
    ASSUME SegmentOK, NEW m \in 0..Len(layout), Behind1(m), ~Searching,
           NEW k \in Wanted, k \notin have
    PROVE  ~HasInside(k)
<1> SUFFICES ASSUME HasInside(k) PROVE FALSE
  OBVIOUS
<1>1. PICK i \in 1..Len(layout) : layout[i].kind = k /\ At(i) < declared
  BY Places DEF HasInside
<1>2. at >= declared
  <2>1. ~(at < declared)
    BY DEF Searching
  <2>2. at \in Nat /\ declared \in Nat
    BY EndsStep DEF Behind1, SegmentOK
  <2>3. QED
    BY <2>1, <2>2
<1>3. ~(i \in 1..m)
  BY <1>1 DEF Behind1
<1>4. m < i /\ Len(layout) \in Nat
  BY <1>3, Places
<1>5. at <= At(i)
  <2>1. at = Ends(layout)[m] /\ At(i) = Ends(layout)[i - 1]
    BY DEF Behind1, At
  <2>2. m = i - 1 \/ m < i - 1
    BY <1>4
  <2>3. i - 1 \in 0..Len(layout) /\ layout \in Seq(Elements)
    BY <1>4 DEF SegmentOK
  <2>4. Ends(layout)[m] \in Nat /\ Ends(layout)[i - 1] \in Nat
    BY <2>3, EndsStep
  <2>5. m < i - 1 => Ends(layout)[m] < Ends(layout)[i - 1]
    BY <2>3, EndsGrow
  <2>6. QED
    BY <2>1, <2>2, <2>4, <2>5
<1>6. QED
  <2>1. at \in Nat /\ At(i) \in Nat /\ declared \in Nat
    BY EndsStep, Places DEF Behind1, SegmentOK
  <2>2. QED
    BY <1>1, <1>2, <1>5, <2>1

(* No SeekHead that counts lies behind the last one read, if the size does *)
(* not end the search too soon.                                            *)
LEMMA AllHeadsRead ==
    ASSUME SegmentOK, NEW m \in 0..Len(layout), Behind1(m), ~Searching,
           declared >= LayoutEnd, NEW j \in Heads
    PROVE  EndOf(j) <= last
<1>1. DOMAIN layout = 1..Len(layout) /\ Len(layout) \in Nat /\ j \in 1..Len(layout)
  BY Places DEF Heads
<1>2. CASE "SeekHead" \in have
  <2>1. j = 1 /\ 1 \in 1..m
    BY <1>1, <1>2 DEF Heads, Behind1
  <2>2. QED
    BY <2>1 DEF Behind1
<1>3. CASE "SeekHead" \notin have
  <2>1. ~(at < declared)
    BY <1>3 DEF Searching
  <2>2. m = Len(layout)
    <3>1. at = Ends(layout)[m] /\ LayoutEnd = Ends(layout)[Len(layout)]
      BY DEF Behind1, LayoutEnd
    <3>2. m < Len(layout) => Ends(layout)[m] < Ends(layout)[Len(layout)]
      BY <1>1, EndsGrow DEF SegmentOK
    <3>3. Ends(layout)[m] \in Nat /\ LayoutEnd \in Nat /\ declared \in Nat
      BY EndsStep, Places DEF SegmentOK
    <3>4. ~(Ends(layout)[m] < Ends(layout)[Len(layout)])
      BY <2>1, <3>1, <3>3
    <3>5. ~(m < Len(layout))
      BY <3>2, <3>4
    <3> DEFINE n == Len(layout)
    <3>6. n \in Nat /\ m \in 0..n /\ ~(m < n)
      BY <1>1, <3>5
    <3> HIDE DEF n
    <3>7. m = n
      BY <3>6
    <3>8. QED
      BY <3>7 DEF n
  <2>3. QED
    BY <1>1, <2>2 DEF Behind1
<1>4. QED
  BY <1>2, <1>3

(* The ends of the verdict that has been reached.                          *)
LEMMA CheckFails ==
    ASSUME IInv, phase = "check", phase' = "failed", UNCHANGED <<segment, index, have, iterVars>>,
           at' \in Int, last' \in Int,
           result' \in {"NoSegmentInfo", "ReadError", "InvalidVarInt", "InvalidEBMLID",
                        "undefined", "NoTracks", "NoClusters"},
           result' = "NoSegmentInfo" =>
                ~HasInside("Info") \/ \E p \in Astray("Info") : p < LayoutEnd,
           result' = "ReadError" => \E p \in Astray("Info") : p + LongestId > LayoutEnd,
           result' \in {"InvalidVarInt", "InvalidEBMLID"} => \E p \in Astray("Info") : Inside(p),
           result' = "NoTracks" => ~HasInside("Tracks"),
           result' = "NoClusters" => ~HasInside("Cluster")
    PROVE  IInv'
<1>1. UNCHANGED segment /\ index' = index /\ index \in Seq(IndexEntries)
  BY DEF IInv, TypeOK
<1>2. TypeOK' /\ OnCluster' /\ InStep'
  BY <1>1, ReadingKeeps DEF IterationFailures
<1>3. Fresh' /\ Scanned' /\ AllThere' /\ PointerPlaced' /\ ~ReadReturned'
  BY Failing
<1>4. IndexRight'
  BY IndexKept DEF IInv
<1>5. VerdictJustified'
  BY <1>1, <1>3, Still DEF VerdictJustified
<1>6. QED
  BY <1>2, <1>3, <1>4, <1>5 DEF IInv

LEMMA CheckKeeps ==
    ASSUME IInv, Check
    PROVE  IInv'
<1>1. phase = "check" /\ UNCHANGED <<segment, index, have, iterVars>> /\ UNCHANGED segment
  BY DEF Check
<1>2. PICK m \in 0..Len(layout) : Behind1(m) /\ ~Searching
  BY <1>1 DEF IInv, Scanned
<1>3. /\ SegmentOK /\ at \in Int /\ last \in Int /\ IndexRight /\ index \in Seq(IndexEntries)
      /\ visited = <<>> /\ result = "none"
  BY <1>1 DEF IInv, TypeOK, Fresh
<1>4. ASSUME NEW k \in Wanted, k \notin have PROVE ~HasInside(k)
  BY <1>2, <1>3, <1>4, NoneInside
<1>5. "Info" \in Wanted /\ "Tracks" \in Wanted /\ "Cluster" \in Wanted
  BY DEF Wanted
<1> DEFINE place == PlaceOf(Find(index, "Info"))
           end == EndOf(ElementAt(place))
<1>6. CASE "Info" \notin have
  <2>1. phase' = "failed" /\ result' = "NoSegmentInfo" /\ at' = at /\ last' = last
    BY <1>6 DEF Check, Fail
  <2>2. ~HasInside("Info")
    BY <1>4, <1>5, <1>6
  <2>3. QED
    BY <1>1, <1>3, <2>1, <2>2, CheckFails
<1>7. CASE "Info" \in have /\ Found(index, "Info") = {}
  <2>1. phase' = "failed" /\ result' = "undefined" /\ at' = at /\ last' = last
    BY <1>7 DEF Check, Fail
  <2>2. QED
    BY <1>1, <1>3, <2>1, CheckFails
<1>8. CASE "Info" \in have /\ Found(index, "Info") # {} /\ ~IsAt("Info", place)
  <2>1. PICK why \in Misread(place) : Fail(InBody(why)) /\ at' = at /\ last' = last
    BY <1>8 DEF Check
  <2> HIDE DEF place
  <2>2. phase' = "failed" /\ result' = InBody(why)
    BY <2>1 DEF Fail
  <2>3. place \in Astray("Info")
    BY <1>3, <1>5, <1>8 DEF IndexRight, Told, Astray, place
  <2>4. /\ why \in {"OtherId", "ReadError", "InvalidVarInt", "InvalidEBMLID"}
        /\ why = "OtherId" => place < LayoutEnd
        /\ why = "ReadError" => place + LongestId > LayoutEnd
        /\ why \in {"InvalidVarInt", "InvalidEBMLID"} => Inside(place)
    BY DEF Misread
  <2>5. QED
    <3>1. CASE why = "OtherId"
      <4>1. result' = "NoSegmentInfo"
        BY <2>2, <3>1 DEF InBody
      <4>2. QED
        BY <1>1, <1>3, <2>1, <2>2, <2>3, <2>4, <3>1, <4>1, CheckFails
    <3>2. CASE why = "ReadError"
      <4>1. result' = "ReadError"
        BY <2>2, <3>2 DEF InBody
      <4>2. QED
        BY <1>1, <1>3, <2>1, <2>2, <2>3, <2>4, <3>2, <4>1, CheckFails
    <3>3. CASE why \in {"InvalidVarInt", "InvalidEBMLID"}
      <4>1. result' \in {"InvalidVarInt", "InvalidEBMLID"}
        BY <2>2, <3>3 DEF InBody
      <4>2. QED
        BY <1>1, <1>3, <2>1, <2>2, <2>3, <2>4, <3>3, <4>1, CheckFails
    <3>4. QED
      BY <2>4, <3>1, <3>2, <3>3
<1>9. CASE "Info" \in have /\ Found(index, "Info") # {} /\ IsAt("Info", place)
  <2>1. PICK i \in 1..Len(layout) : At(i) = place /\ layout[i].kind = "Info"
    BY <1>3, <1>9, Places DEF IsAt
  <2>2. ElementAt(place) = i /\ end = EndOf(i) /\ EndOf(i) \in Nat
    BY <1>3, <2>1, PlaceTells, Places
  <2>3. /\ last' = Further(end)
        /\ \/ "Tracks" \notin have /\ Fail("NoTracks") /\ at' = end
           \/ "Tracks" \in have /\ "Cluster" \notin have /\ Fail("NoClusters") /\ at' = end
           \/ /\ "Tracks" \in have /\ "Cluster" \in have
              /\ phase' = "ready" /\ at' = last' /\ UNCHANGED result
    BY <1>9 DEF Check
  <2> HIDE DEF place, end
  <2>4. last' \in Int
    BY <1>3, <2>2, <2>3 DEF Further
  <2>5. CASE "Tracks" \notin have /\ Fail("NoTracks") /\ at' = end
    <3>1. ~HasInside("Tracks")
      BY <1>4, <1>5, <2>5
    <3>2. phase' = "failed" /\ result' = "NoTracks" /\ at' \in Int
      BY <2>2, <2>5 DEF Fail
    <3>3. QED
      BY <1>1, <2>4, <3>1, <3>2, CheckFails
  <2>6. CASE "Tracks" \in have /\ "Cluster" \notin have /\ Fail("NoClusters") /\ at' = end
    <3>1. ~HasInside("Cluster")
      BY <1>4, <1>5, <2>6
    <3>2. phase' = "failed" /\ result' = "NoClusters" /\ at' \in Int
      BY <2>2, <2>6 DEF Fail
    <3>3. QED
      BY <1>1, <2>4, <3>1, <3>2, CheckFails
  <2>7. CASE /\ "Tracks" \in have /\ "Cluster" \in have
             /\ phase' = "ready" /\ at' = last' /\ UNCHANGED result
    <3>1. /\ index' = index /\ have' = have /\ visited' = visited /\ result' = "none"
          /\ at' \in Int /\ phase' = "ready" /\ result' = result
      BY <1>1, <1>3, <2>4, <2>7 DEF iterVars
    <3>2. TypeOK' /\ OnCluster' /\ InStep'
      BY <1>1, <1>3, <2>4, <3>1, ReadingKeeps DEF IterationFailures
    <3>3. Fresh' /\ Scanned' /\ AllThere'
      BY <1>3, <1>9, <2>7, <3>1 DEF Fresh, Scanned, AllThere, Wanted
    <3>4. IndexRight'
      BY <1>1, <1>3, IndexKept
    <3>5. VerdictJustified'
      <4>1. Has("Info")
        BY <1>3, <2>1, Places DEF Has
      <4>2. ASSUME NEW k \in Wanted PROVE Has(k) \/ \E h \in Heads : k \in NamedBy(h)
        <5>1. k \in have
          BY <1>9, <2>7 DEF Wanted
        <5>2. Mentions(k, m)
          BY <1>2, <5>1 DEF Behind1
        <5>3. \A j \in 1..m : j \in DOMAIN layout
          BY <1>3, Places
        <5>4. QED
          BY <5>2, <5>3 DEF Mentions, Has
      <4>3. /\ Has("Info")' /\ Heads' = Heads
            /\ \A k : Has(k)' <=> Has(k)
            /\ \A h : NamedBy(h)' = NamedBy(h)
        BY <1>1, <4>1, Still
      <4>4. QED
        BY <3>1, <4>2, <4>3 DEF VerdictJustified
    <3>6. PointerPlaced'
      <4> SUFFICES ASSUME LateIndexComplete, NamesLead
                   PROVE  LET ends == {EndOf(h) : h \in {FirstOf("Info")} \cup Heads} IN
                          /\ at' \in ends
                          /\ declared >= LayoutEnd => \A p \in ends : p <= at'
        BY <1>1, Still DEF PointerPlaced
      <4>1. Has("Info") /\ place = At(FirstOf("Info"))
        BY <1>3, <1>5, <1>9 DEF IndexRight, Leads, place
      <4>2. FirstOf("Info") = i
        <5>1. FirstOf("Info") \in 1..Len(layout)
          BY <1>3, <4>1, FirstThere
        <5>2. QED
          BY <1>3, <2>1, <4>1, <5>1, PlaceTells
      <4>3. at' = IF EndOf(i) > last THEN EndOf(i) ELSE last
        BY <2>2, <2>3, <2>7 DEF Further
      <4>4. last = 0 \/ \E h \in Heads : last = EndOf(h)
        BY <1>2 DEF Behind1
      <4>5. EndOf(i) > 0
        BY <1>3, Places
      <4>6. at' = EndOf(i) \/ \E h \in Heads : at' = EndOf(h)
        BY <4>3, <4>4, <4>5
      <4>7. EndOf(i) <= at' /\ last <= at'
        BY <1>3, <2>2, <4>3
      <4>8. ASSUME declared >= LayoutEnd, NEW h \in Heads PROVE EndOf(h) <= at'
        <5>1. EndOf(h) <= last
          BY <1>2, <1>3, <4>8, AllHeadsRead
        <5>2. EndOf(h) \in Nat
          BY <1>3, Places DEF Heads
        <5>3. QED
          BY <1>3, <3>1, <4>7, <5>1, <5>2
      <4>9. QED
        BY <4>2, <4>6, <4>7, <4>8
    <3>7. QED
      BY <3>2, <3>3, <3>4, <3>5, <3>6 DEF IInv
  <2>8. QED
    BY <2>3, <2>5, <2>6, <2>7
<1>10. QED
  BY <1>6, <1>7, <1>8, <1>9

----------------------------------------------------------------------------
(* The steps of the iteration.                                             *)

(* They leave alone what read_body() has found out.                        *)
LEMMA IteratingKeeps ==
    ASSUME IInv, phase \in {"ready", "iterate"}, UNCHANGED readVars,
           phase' \in {"iterate", "done", "failed"}, visited' \in Seq(Blocks),
           phase' = "failed" => result' \in IterationFailures,
           phase' # "failed" => result' = "none"
    PROVE  /\ TypeOK' /\ Fresh' /\ Scanned' /\ IndexRight' /\ AllThere'
           /\ VerdictJustified' /\ PointerPlaced'
<1>1. /\ UNCHANGED segment /\ at' = at /\ index' = index /\ have' = have /\ last' = last
      /\ UNCHANGED <<segment, index, have>>
  BY DEF readVars
<1>2. TypeOK'
  BY <1>1, Still DEF IInv, TypeOK, Phases
<1>3. Fresh' /\ Scanned'
  BY DEF Fresh, Scanned
<1>4. ReadReturned
  BY DEF ReadReturned
<1>5. IndexRight'
  BY <1>1, IndexKept DEF IInv
<1>6. AllThere'
  BY <1>1, <1>4 DEF IInv, AllThere
<1>7. VerdictJustified'
  <2>1. /\ result' # "NoSegmentInfo" /\ result' # "NoTracks" /\ result' # "NoClusters"
        /\ result' # "ReadError" /\ result' # "MultipleSeekHeads"
        /\ result' \notin {"InvalidVarInt", "InvalidEBMLID"}
    BY DEF IterationFailures
  <2>2. Has("Info") /\ \A k \in Wanted : Has(k) \/ \E i \in Heads : k \in NamedBy(i)
    BY <1>4 DEF IInv, VerdictJustified
  <2>3. /\ Heads' = Heads
        /\ \A k : Has(k)' <=> Has(k)
        /\ \A h : NamedBy(h)' = NamedBy(h)
    BY <1>1, Still
  <2>4. Has("Info")'
    BY <2>2, <2>3
  <2>5. QED
    BY <2>1, <2>2, <2>3, <2>4 DEF VerdictJustified
<1>8. PointerPlaced'
  BY <1>1, <1>4, Still DEF IInv, PointerPlaced
<1>9. QED
  BY <1>2, <1>3, <1>5, <1>6, <1>7, <1>8

(* An iteration that meets no cluster has failed.                          *)
LEMMA NoClusterFails ==
    ASSUME NEW p, NoClusterAt(p)
    PROVE  phase' = "failed" /\ result' \in IterationFailures
<1>1. PICK why \in Misread(p) : Fail(InIteration[why])
  BY DEF NoClusterAt
<1>2. why \in {"OtherId", "ReadError", "InvalidVarInt", "InvalidEBMLID"}
  BY DEF Misread
<1>3. InIteration[why] \in IterationFailures
  <2>1. /\ InIteration["OtherId"] \in IterationFailures
        /\ InIteration["ReadError"] \in IterationFailures
        /\ InIteration["InvalidVarInt"] \in IterationFailures
        /\ InIteration["InvalidEBMLID"] \in IterationFailures
    BY DEF InIteration, IterationFailures
  <2>2. QED
    BY <1>2, <2>1
<1>4. QED
  BY <1>1, <1>3 DEF Fail

LEMMA BlocksAre ==
    ASSUME SegmentOK
    PROVE  /\ \A x \in Blocks : \E i \in 1..Len(layout) : \E b \in 1..layout[i].blocks :
                  x = <<i, b>> /\ layout[i].kind = "Cluster"
           /\ \A i \in 1..Len(layout) : \A b \in 1..layout[i].blocks :
                  layout[i].kind = "Cluster" => <<i, b>> \in Blocks
           /\ \A i \in 1..Len(layout) : layout[i].blocks \in Nat
<1>1. DOMAIN layout = 1..Len(layout) /\ \A i \in 1..Len(layout) : layout[i] \in Elements
  BY Places
<1>2. \A i \in 1..Len(layout) : layout[i].blocks \in Nat
  BY <1>1 DEF Elements
<1>3. QED
  BY <1>1, <1>2 DEF Blocks

(* Nothing lies before the first cluster.                                  *)
LEMMA BelowFirst ==
    ASSUME SegmentOK, Has("Cluster")
    PROVE  Below(FirstOf("Cluster"), 1) = {}
<1> DEFINE f == FirstOf("Cluster")
<1>1. f \in 1..Len(layout) /\ \A j \in 1..Len(layout) : layout[j].kind = "Cluster" => f <= j
  BY FirstThere
<1> HIDE DEF f
<1>2. ASSUME NEW x \in Blocks, Precedes(x, <<f, 1>>) PROVE FALSE
  <2>1. PICK i \in 1..Len(layout) : \E b \in 1..layout[i].blocks :
                  x = <<i, b>> /\ layout[i].kind = "Cluster"
    BY BlocksAre
  <2>2. PICK b \in 1..layout[i].blocks : x = <<i, b>>
    BY <2>1
  <2>3. i < f \/ (i = f /\ b < 1)
    BY <1>2, <2>2 DEF Precedes
  <2>4. f <= i /\ f \in Nat /\ i \in Nat
    BY <1>1, <2>1
  <2>5. b \in Nat /\ ~(b < 1)
    BY BlocksAre
  <2>6. QED
    BY <2>3, <2>4, <2>5
<1>3. QED
  BY <1>2 DEF Below, f

(* Behind all blocks of a cluster, the next element begins.                *)
LEMMA BelowNext ==
    ASSUME SegmentOK, NEW c \in 1..Len(layout), NEW b \in Nat, b > layout[c].blocks
    PROVE  /\ Below(c + 1, 1) = Below(c, b)
           /\ \A x \in Blocks : x \in Below(c, b) \/ x[1] > c
<1>1. ASSUME NEW x \in Blocks
      PROVE  /\ Precedes(x, <<c + 1, 1>>) <=> Precedes(x, <<c, b>>)
             /\ Precedes(x, <<c, b>>) \/ x[1] > c
  <2>1. PICK i \in 1..Len(layout) : \E d \in 1..layout[i].blocks : x = <<i, d>>
    BY BlocksAre
  <2>2. PICK d \in 1..layout[i].blocks : x = <<i, d>>
    BY <2>1
  <2>3. layout[i].blocks \in Nat
    BY BlocksAre
  <2>4. /\ Precedes(x, <<c + 1, 1>>) <=> i < c + 1 \/ (i = c + 1 /\ d < 1)
        /\ Precedes(x, <<c, b>>) <=> i < c \/ (i = c /\ d < b)
        /\ x[1] = i
    BY <2>2 DEF Precedes
  <2>5. ~(d < 1) /\ d \in Nat /\ (i = c => d < b)
    BY <2>3
  <2>6. i \in Nat /\ c \in Nat
    OBVIOUS
  <2>7. QED
    BY <2>4, <2>5, <2>6
<1>2. QED
  BY <1>1 DEF Below

LEMMA BeginKeeps ==
    ASSUME IInv, Begin
    PROVE  IInv'
<1>1. /\ phase = "ready" /\ UNCHANGED readVars /\ UNCHANGED segment /\ visited' = visited
      /\ SegmentOK /\ visited = <<>> /\ result = "none" /\ IndexRight /\ Wanted \subseteq have
  BY DEF Begin, iterVars, readVars, IInv, TypeOK, Fresh, AllThere, ReadReturned
<1> DEFINE place == PlaceOf(Find(index, "Cluster"))
<1>2. ASSUME NamesLead, LateIndexComplete
      PROVE  /\ Found(index, "Cluster") # {} /\ Has("Cluster")
             /\ place = At(FirstOf("Cluster")) /\ IsAt("Cluster", place)
             /\ ElementAt(place) = FirstOf("Cluster")
  <2>1. Found(index, "Cluster") # {} /\ Has("Cluster") /\ place = At(FirstOf("Cluster"))
    BY <1>1, <1>2 DEF IndexRight, Leads, Wanted
  <2>2. FirstOf("Cluster") \in 1..Len(layout) /\ layout[FirstOf("Cluster")].kind = "Cluster"
    BY <1>1, <2>1, FirstThere
  <2>3. QED
    BY <1>1, <2>1, <2>2, PlaceTells
<1>3. /\ Visited' = {} /\ InOrder' /\ visited' \in Seq(Blocks)
      /\ \A c, b : Below(c, b)' = Below(c, b)
      /\ NamesLead' <=> NamesLead
      /\ LateIndexComplete' <=> LateIndexComplete
  BY <1>1, Still DEF Visited, InOrder
<1>4. Below(0, 0) = {}
  <2>1. ASSUME NEW x \in Blocks, Precedes(x, <<0, 0>>) PROVE FALSE
    <3>1. PICK i \in 1..Len(layout) : \E b \in 1..layout[i].blocks : x = <<i, b>>
      BY <1>1, BlocksAre
    <3>2. i < 0 \/ i = 0
      BY <2>1, <3>1 DEF Precedes
    <3>3. QED
      BY <3>2
  <2>2. QED
    BY <2>1 DEF Below
<1>5. CASE Found(index, "Cluster") = {}
  <2>1. phase' = "done" /\ result' = result
    BY <1>5 DEF Begin
  <2>2. /\ TypeOK' /\ Fresh' /\ Scanned' /\ IndexRight' /\ AllThere'
        /\ VerdictJustified' /\ PointerPlaced'
    BY <1>1, <1>3, <2>1, IteratingKeeps
  <2>3. OnCluster' /\ InStep'
    BY <1>2, <1>3, <1>5, <2>1 DEF OnCluster, InStep
  <2>4. QED
    BY <2>2, <2>3 DEF IInv
<1>6. CASE Found(index, "Cluster") # {} /\ IsAt("Cluster", place)
  <2>1. /\ phase' = "iterate" /\ cur' = ElementAt(place) /\ blk' = 1 /\ result' = result
    BY <1>6 DEF Begin
  <2>2. /\ TypeOK' /\ Fresh' /\ Scanned' /\ IndexRight' /\ AllThere'
        /\ VerdictJustified' /\ PointerPlaced'
    BY <1>1, <1>3, <2>1, IteratingKeeps
  <2>3. PICK i \in 1..Len(layout) : At(i) = place /\ layout[i].kind = "Cluster"
    BY <1>1, <1>6, Places DEF IsAt
  <2>4. cur' = i /\ layout' = layout
    BY <1>1, <2>1, <2>3, PlaceTells, Still
  <2>5. OnCluster'
    <3>1. layout[i].blocks \in Nat
      BY <1>1, BlocksAre
    <3>2. 1 \in 1..(layout[i].blocks + 1)
      BY <3>1
    <3>3. QED
      BY <2>1, <2>3, <2>4, <3>2 DEF OnCluster
  <2>6. InStep'
    <3>1. ASSUME LateIndexComplete, NamesLead PROVE Below(cur', blk') = {} /\ cur' \in Nat /\ blk' \in Nat
      BY <1>1, <1>2, <2>1, <2>4, <3>1, BelowFirst
    <3>2. result' \notin IterationFailures /\ phase' # "done"
      BY <1>1, <2>1 DEF IterationFailures
    <3>3. QED
      BY <1>3, <3>1, <3>2 DEF InStep
  <2>7. QED
    BY <2>2, <2>5, <2>6 DEF IInv
<1>7. CASE Found(index, "Cluster") # {} /\ ~IsAt("Cluster", place)
  <2>1. NoClusterAt(place)
    BY <1>7 DEF Begin
  <2>2. phase' = "failed" /\ result' \in IterationFailures
    BY <2>1, NoClusterFails
  <2>3. /\ TypeOK' /\ Fresh' /\ Scanned' /\ IndexRight' /\ AllThere'
        /\ VerdictJustified' /\ PointerPlaced'
    BY <1>1, <1>3, <2>2, IteratingKeeps
  <2>4. OnCluster' /\ InStep'
    BY <1>2, <1>3, <1>7, <2>2 DEF OnCluster, InStep
  <2>5. QED
    BY <2>3, <2>4 DEF IInv
<1>8. QED
  BY <1>5, <1>6, <1>7

LEMMA VisitBlockKeeps ==
    ASSUME IInv, VisitBlock
    PROVE  IInv'
<1> DEFINE new == <<cur, blk>>
<1>1. /\ phase = "iterate" /\ phase' = "iterate" /\ result' = result /\ result = "none"
      /\ UNCHANGED readVars /\ UNCHANGED segment /\ cur' = cur /\ blk' = blk + 1
      /\ visited' = Append(visited, new) /\ blk <= layout[cur].blocks
      /\ SegmentOK /\ visited \in Seq(Blocks)
  BY DEF VisitBlock, IInv, TypeOK, Fresh, readVars
<1>2. /\ cur \in 1..Len(layout) /\ layout[cur].kind = "Cluster"
      /\ blk \in 1..(layout[cur].blocks + 1) /\ layout[cur].blocks \in Nat
      /\ cur \in Nat /\ blk \in Nat /\ blk \in 1..layout[cur].blocks
  <2>1. /\ cur \in 1..Len(layout) /\ layout[cur].kind = "Cluster"
        /\ blk \in 1..(layout[cur].blocks + 1)
    BY <1>1 DEF IInv, OnCluster
  <2>2. layout[cur].blocks \in Nat
    BY <1>1, <2>1, BlocksAre
  <2>3. QED
    BY <1>1, <2>1, <2>2
<1>3. new \in Blocks
  BY <1>1, <1>2, BlocksAre
<1> HIDE DEF new
<1>4. /\ visited' \in Seq(Blocks) /\ Len(visited') = Len(visited) + 1
      /\ Len(visited) \in Nat /\ visited'[Len(visited) + 1] = new
      /\ \A n \in 1..Len(visited) : visited'[n] = visited[n]
      /\ DOMAIN visited = 1..Len(visited) /\ DOMAIN visited' = 1..(Len(visited) + 1)
  BY <1>1, <1>3
<1>5. /\ TypeOK' /\ Fresh' /\ Scanned' /\ IndexRight' /\ AllThere'
      /\ VerdictJustified' /\ PointerPlaced'
  BY <1>1, <1>4, IteratingKeeps
<1>6. OnCluster'
  <2>1. layout' = layout
    BY <1>1, Still
  <2>2. blk + 1 \in 1..(layout[cur].blocks + 1)
    BY <1>2
  <2>3. QED
    BY <1>1, <1>2, <2>1, <2>2 DEF OnCluster
<1>7. ASSUME LateIndexComplete, NamesLead, ClustersWide
      PROVE  InOrder' /\ Visited' = Below(cur, blk + 1)
  <2>1. InOrder /\ Visited = Below(cur, blk)
    BY <1>1, <1>7 DEF IInv, InStep
  <2>2. Visited' = Visited \cup {new}
    <3>1. \A n \in DOMAIN visited' : n \in DOMAIN visited \/ n = Len(visited) + 1
      BY <1>4
    <3>2. \A n \in DOMAIN visited : n \in DOMAIN visited'
      BY <1>4
    <3>3. Len(visited) + 1 \in DOMAIN visited'
      BY <1>4
    <3>4. QED
      BY <1>4, <3>1, <3>2, <3>3 DEF Visited
  <2>3. Below(cur, blk + 1) = Below(cur, blk) \cup {new}
    <3>1. ASSUME NEW x \in Blocks
          PROVE  Precedes(x, <<cur, blk + 1>>) <=> Precedes(x, <<cur, blk>>) \/ x = new
      <4>1. PICK i \in 1..Len(layout) : \E d \in 1..layout[i].blocks : x = <<i, d>>
        BY <1>1, BlocksAre
      <4>2. PICK d \in 1..layout[i].blocks : x = <<i, d>>
        BY <4>1
      <4>3. /\ Precedes(x, <<cur, blk + 1>>) <=> i < cur \/ (i = cur /\ d < blk + 1)
            /\ Precedes(x, <<cur, blk>>) <=> i < cur \/ (i = cur /\ d < blk)
        BY <4>2 DEF Precedes
      <4>4. x = new <=> i = cur /\ d = blk
        BY <4>2 DEF new
      <4>5. d \in Nat /\ i \in Nat
        BY <1>1, BlocksAre
      <4>6. QED
        BY <1>2, <4>3, <4>4, <4>5
    <3>2. QED
      BY <1>3, <3>1 DEF Below
  <2>4. InOrder'
    <3> SUFFICES ASSUME NEW n \in DOMAIN visited'
                 PROVE  /\ visited'[n] \in Blocks
                        /\ \A x \in {visited'[m] : m \in 1..(n - 1)} : Precedes(x, visited'[n])
      BY <1>1, Still DEF InOrder, VisitedBefore
    <3>1. n \in 1..Len(visited) \/ n = Len(visited) + 1
      BY <1>4
    <3>2. \A m \in 1..(n - 1) : m \in 1..Len(visited) /\ visited'[m] = visited[m]
      BY <1>4
    <3>3. CASE n \in 1..Len(visited)
      <4>1. /\ visited[n] \in Blocks /\ visited'[n] = visited[n]
            /\ \A m \in 1..(n - 1) : Precedes(visited[m], visited[n])
        BY <1>4, <2>1, <3>3 DEF InOrder, VisitedBefore
      <4>2. QED
        BY <3>2, <4>1
    <3>4. CASE n = Len(visited) + 1
      <4>1. \A m \in 1..(n - 1) : visited[m] \in Below(cur, blk)
        BY <1>4, <2>1, <3>2 DEF Visited
      <4>2. \A m \in 1..(n - 1) : Precedes(visited[m], new)
        BY <4>1 DEF Below, new
      <4>3. QED
        BY <1>3, <1>4, <3>2, <3>4, <4>2
    <3>5. QED
      BY <3>1, <3>3, <3>4
  <2>5. QED
    BY <2>1, <2>2, <2>3, <2>4
<1>8. InStep'
  <2>1. result' \notin IterationFailures /\ phase' # "done"
    BY <1>1 DEF IterationFailures
  <2>2. cur' \in Nat /\ blk' \in Nat
    BY <1>1, <1>2
  <2>3. /\ LateIndexComplete' <=> LateIndexComplete
        /\ NamesLead' <=> NamesLead
        /\ ClustersWide' <=> ClustersWide
        /\ \A c, b : Below(c, b)' = Below(c, b)
    BY <1>1, Still
  <2>4. QED
    BY <1>1, <1>2, <1>7, <2>1, <2>2, <2>3 DEF InStep
<1>9. QED
  BY <1>5, <1>6, <1>8 DEF IInv

LEMMA NextClusterKeeps ==
    ASSUME IInv, NextCluster
    PROVE  IInv'
<1> DEFINE p == Behind(cur)
<1>1. /\ phase = "iterate" /\ UNCHANGED readVars /\ UNCHANGED segment /\ visited' = visited
      /\ result = "none" /\ blk > layout[cur].blocks
      /\ SegmentOK /\ visited \in Seq(Blocks)
  BY DEF NextCluster, IInv, TypeOK, Fresh, readVars
<1>2. /\ cur \in 1..Len(layout) /\ layout[cur].kind = "Cluster"
      /\ cur \in Nat /\ blk \in Nat /\ layout[cur].blocks \in Nat
      /\ layout[cur].narrow \in Nat /\ EndOf(cur) \in Nat
  <2>1. cur \in 1..Len(layout) /\ layout[cur].kind = "Cluster" /\ blk \in 1..(layout[cur].blocks + 1)
    BY <1>1 DEF IInv, OnCluster
  <2>2. layout[cur] \in Elements /\ EndOf(cur) \in Nat
    BY <1>1, <2>1, Places
  <2>3. layout[cur].blocks \in Nat /\ layout[cur].narrow \in Nat
    BY <2>2 DEF Elements
  <2>4. QED
    BY <2>1, <2>2, <2>3
<1>3. /\ LateIndexComplete' <=> LateIndexComplete
      /\ NamesLead' <=> NamesLead
      /\ ClustersWide' <=> ClustersWide
      /\ ClustersLast' <=> ClustersLast
      /\ \A c, b : Below(c, b)' = Below(c, b)
      /\ Blocks' = Blocks /\ LayoutEnd' = LayoutEnd /\ declared' = declared /\ layout' = layout
      /\ Visited' = Visited
  BY <1>1, Still DEF Visited
<1>4. InOrder' <=> InOrder
  BY <1>1, Still DEF InOrder, VisitedBefore
<1>5. ASSUME LateIndexComplete, NamesLead, ClustersWide
      PROVE  /\ InOrder /\ Visited = Below(cur, blk) /\ Below(cur + 1, 1) = Below(cur, blk)
             /\ p = EndOf(cur)
             /\ \A i \in 1..Len(layout) : At(i) = p => i = cur + 1
  <2>1. InOrder /\ Visited = Below(cur, blk)
    BY <1>1, <1>5 DEF IInv, InStep
  <2>2. Below(cur + 1, 1) = Below(cur, blk)
    BY <1>1, <1>2, BelowNext
  <2>3. p = EndOf(cur)
    <3>1. layout[cur].narrow = 0
      BY <1>1, <1>2, <1>5, Places DEF ClustersWide
    <3>2. QED
      BY <1>2, <3>1 DEF Behind
  <2>4. ASSUME NEW i \in 1..Len(layout), At(i) = p PROVE i = cur + 1
    <3>1. cur < i
      <4>1. i = cur => At(i) < EndOf(cur)
        BY <1>1, <1>2, Places
      <4>2. i < cur => At(i) < At(cur) /\ At(cur) < EndOf(cur) /\ At(cur) \in Nat
        BY <1>1, <1>2, PlacesGrow, Places
      <4>3. At(i) \in Nat /\ At(i) = EndOf(cur)
        BY <1>1, <2>3, <2>4, Places
      <4>4. ~(i = cur) /\ ~(i < cur)
        BY <1>2, <4>1, <4>2, <4>3
      <4>5. QED
        BY <1>2, <4>4
    <3>2. cur + 1 \in 1..Len(layout) /\ At(cur + 1) = EndOf(cur)
      BY <1>1, <1>2, <3>1, Places
    <3>3. QED
      BY <1>1, <2>3, <2>4, <3>2, PlaceTells
  <2>5. QED
    BY <2>1, <2>2, <2>3, <2>4
(* With the size right and clusters last, another cluster follows, or      *)
(* every block has been visited.                                           *)
<1>6. ASSUME LateIndexComplete, NamesLead, ClustersWide,
             ClustersLast, declared = LayoutEnd
      PROVE  /\ PastEnd(p) => Blocks \subseteq Visited
             /\ ~PastEnd(p) => IsAt("Cluster", p)
  <2>1. CASE cur = Len(layout)
    <3>1. p = LayoutEnd /\ LayoutEnd \in Nat
      BY <1>1, <1>5, <1>6, <2>1, Places
    <3>2. PastEnd(p)
      <4>1. narrow \in 0..7
        BY <1>1 DEF SegmentOK
      <4>2. QED
        BY <1>6, <3>1, <4>1 DEF PastEnd, HeaderLen
    <3>3. ASSUME NEW x \in Blocks PROVE x \in Below(cur, blk)
      <4>1. PICK i \in 1..Len(layout) : \E d \in 1..layout[i].blocks : x = <<i, d>>
        BY <1>1, BlocksAre
      <4>2. x[1] = i /\ ~(i > cur)
        BY <1>2, <2>1, <4>1
      <4>3. QED
        BY <1>1, <1>2, <4>2, BelowNext
    <3>4. QED
      BY <1>5, <1>6, <3>2, <3>3
  <2>2. CASE cur # Len(layout)
    <3>1. cur + 1 \in 1..Len(layout) /\ EndOf(cur) = At(cur + 1)
      <4>1. cur < Len(layout)
        <5> DEFINE n == Len(layout)
        <5>1. n \in Nat /\ cur \in 1..n /\ cur # n
          BY <1>1, <1>2, <2>2, Places
        <5> HIDE DEF n
        <5>2. cur < n
          BY <5>1
        <5>3. QED
          BY <5>2 DEF n
      <4>2. QED
        BY <1>1, <1>2, <4>1, Places
    <3>2. layout[cur + 1].kind = "Cluster" /\ layout[cur + 1].narrow = 0
      <4>1. DOMAIN layout = 1..Len(layout) /\ cur < cur + 1
        BY <1>1, <1>2, Places
      <4>2. QED
        BY <1>2, <1>6, <3>1, <4>1 DEF ClustersLast, ClustersWide
    <3>3. layout[cur + 1].len + layout[cur + 1].narrow > HeaderLen
      BY <1>1, <3>1, <3>2 DEF SegmentOK
    <3>4. layout[cur + 1].len \in Nat
      <4>1. layout[cur + 1] \in Elements
        BY <1>1, <3>1, Places
      <4>2. QED
        BY <4>1 DEF Elements
    <3>5. layout[cur + 1].len > 12
      BY <3>2, <3>3, <3>4 DEF HeaderLen
    <3>6. /\ EndOf(cur + 1) = EndOf(cur) + layout[cur + 1].len
          /\ EndOf(cur + 1) <= LayoutEnd /\ EndOf(cur + 1) \in Nat /\ LayoutEnd \in Nat
      BY <1>1, <3>1, Places DEF EndOf
    <3>7. narrow \in 0..7
      BY <1>1 DEF SegmentOK
    <3>8. EndOf(cur) + 12 - narrow < LayoutEnd
      <4> DEFINE l == layout[cur + 1].len
                 q == EndOf(cur)
                 z == EndOf(cur + 1)
      <4>1. l \in Nat /\ q \in Nat /\ z \in Nat /\ l > 12 /\ z = q + l /\ z <= LayoutEnd
        BY <1>2, <3>4, <3>5, <3>6
      <4> HIDE DEF l, q, z
      <4>2. q + 12 - narrow < LayoutEnd
        BY <3>6, <3>7, <4>1
      <4>3. QED
        BY <4>2 DEF q
    <3>9. p = EndOf(cur)
      BY <1>5, <1>6
    <3> HIDE DEF p
    <3>10. ~PastEnd(p)
      <4>1. ~(EndOf(cur) + 12 - narrow >= declared)
        BY <1>2, <1>6, <3>6, <3>7, <3>8
      <4>2. QED
        BY <3>9, <4>1 DEF PastEnd, HeaderLen
    <3>11. IsAt("Cluster", p)
      BY <1>1, <3>1, <3>2, <3>9, PlaceTells
    <3>12. QED
      BY <3>10, <3>11
  <2>3. QED
    BY <2>1, <2>2
<1> HIDE DEF p
<1>7. CASE PastEnd(p) /\ visited # <<>> /\ phase' = "done" /\ result' = result
  <2>1. /\ TypeOK' /\ Fresh' /\ Scanned' /\ IndexRight' /\ AllThere'
        /\ VerdictJustified' /\ PointerPlaced'
    BY <1>1, <1>7, IteratingKeeps
  <2>2. OnCluster'
    BY <1>7 DEF OnCluster
  <2>3. result' \notin IterationFailures
    BY <1>1, <1>7 DEF IterationFailures
  <2>4. InStep'
    BY <1>2, <1>3, <1>4, <1>5, <1>6, <1>7, <2>3 DEF InStep
  <2>5. QED
    BY <2>1, <2>2, <2>4 DEF IInv
<1>8. CASE PastEnd(p) /\ visited = <<>> /\ Fail("undefined in iteration")
  <2>1. phase' = "failed" /\ result' \in IterationFailures
    BY <1>8 DEF Fail, IterationFailures
  <2>2. /\ TypeOK' /\ Fresh' /\ Scanned' /\ IndexRight' /\ AllThere'
        /\ VerdictJustified' /\ PointerPlaced'
    BY <1>1, <2>1, IteratingKeeps
  <2>3. OnCluster'
    BY <2>1 DEF OnCluster
  <2>4. Visited = {}
    <3>1. DOMAIN visited = {}
      <4>1. visited = <<>>
        BY <1>8
      <4>2. QED
        BY <4>1
    <3>2. QED
      BY <3>1 DEF Visited
  <2>5. InStep'
    BY <1>2, <1>3, <1>4, <1>5, <1>6, <1>8, <2>1, <2>4 DEF InStep
  <2>6. QED
    BY <2>2, <2>3, <2>5 DEF IInv
<1>9. CASE /\ ~PastEnd(p) /\ IsAt("Cluster", p)
           /\ cur' = ElementAt(p) /\ blk' = 1 /\ phase' = phase /\ result' = result
  <2>1. /\ TypeOK' /\ Fresh' /\ Scanned' /\ IndexRight' /\ AllThere'
        /\ VerdictJustified' /\ PointerPlaced'
    BY <1>1, <1>9, IteratingKeeps
  <2>2. PICK i \in 1..Len(layout) : At(i) = p /\ layout[i].kind = "Cluster"
    BY <1>1, <1>9, Places DEF IsAt
  <2>3. cur' = i
    BY <1>1, <1>9, <2>2, PlaceTells
  <2>4. OnCluster'
    <3>1. layout[i].blocks \in Nat
      BY <1>1, BlocksAre
    <3>2. 1 \in 1..(layout[i].blocks + 1)
      BY <3>1
    <3>3. QED
      BY <1>3, <1>9, <2>2, <2>3, <3>2 DEF OnCluster
  <2>5. InStep'
    <3>1. ASSUME LateIndexComplete, NamesLead, ClustersWide
          PROVE  Visited = Below(cur', blk') /\ cur' \in Nat /\ blk' \in Nat
      BY <1>5, <1>9, <2>2, <2>3, <3>1
    <3>2. result' \notin IterationFailures /\ phase' # "done"
      BY <1>1, <1>9 DEF IterationFailures
    <3>3. QED
      BY <1>3, <1>4, <1>5, <3>1, <3>2 DEF InStep
  <2>6. QED
    BY <2>1, <2>4, <2>5 DEF IInv
<1>10. CASE ~PastEnd(p) /\ ~IsAt("Cluster", p) /\ NoClusterAt(p)
  <2>1. phase' = "failed" /\ result' \in IterationFailures
    BY <1>10, NoClusterFails
  <2>2. /\ TypeOK' /\ Fresh' /\ Scanned' /\ IndexRight' /\ AllThere'
        /\ VerdictJustified' /\ PointerPlaced'
    BY <1>1, <2>1, IteratingKeeps
  <2>3. OnCluster'
    BY <2>1 DEF OnCluster
  <2>4. InStep'
    BY <1>2, <1>3, <1>4, <1>5, <1>6, <1>10, <2>1 DEF InStep
  <2>5. QED
    BY <2>2, <2>3, <2>4 DEF IInv
<1>11. QED
  BY <1>7, <1>8, <1>9, <1>10 DEF NextCluster, p

----------------------------------------------------------------------------
LEMMA Invariance == Spec => []IInv
<1>1. Init => IInv
  BY InitOK
<1>2. IInv /\ [Next]_vars => IInv'
  <2> SUFFICES ASSUME IInv, [Next]_vars PROVE IInv'
    OBVIOUS
  <2>1. CASE RefuseBody
    BY <2>1, RefuseKeeps
  <2>2. CASE ReadFirst
    BY <2>2, ReadFirstKeeps
  <2>3. CASE MeetSeekHead
    BY <2>3, MeetSeekHeadKeeps
  <2>4. CASE MeetInfoOrTracks
    BY <2>4, MeetInfoOrTracksKeeps
  <2>5. CASE MeetCluster
    BY <2>5, MeetClusterKeeps
  <2>6. CASE MeetOther
    BY <2>6, MeetOtherKeeps
  <2>7. CASE MeetStranger \/ MeetEnd
    BY <2>7, SearchFailsKeeps
  <2>8. CASE StopSearching
    BY <2>8, StopSearchingKeeps
  <2>9. CASE Check
    BY <2>9, CheckKeeps
  <2>10. CASE Begin
    BY <2>10, BeginKeeps
  <2>11. CASE VisitBlock
    BY <2>11, VisitBlockKeeps
  <2>12. CASE NextCluster
    BY <2>12, NextClusterKeeps
  <2>13. CASE UNCHANGED vars
    <3>1. /\ UNCHANGED segment /\ at' = at /\ index' = index /\ have' = have /\ last' = last
          /\ phase' = phase /\ result' = result /\ cur' = cur /\ blk' = blk
          /\ visited' = visited /\ UNCHANGED <<segment, index, have>>
      BY <2>13 DEF vars, readVars, iterVars
    <3>2. TypeOK' /\ Fresh' /\ AllThere' /\ OnCluster'
      BY <3>1, Still DEF IInv, TypeOK, Fresh, AllThere, ReadReturned, OnCluster
    <3>3. IndexRight'
      BY <3>1, IndexKept DEF IInv
    <3>4. Scanned'
      <4>1. \A m : Behind1(m)' <=> Behind1(m)
        BY <3>1, Still DEF Behind1
      <4>2. Searching' <=> Searching
        BY <3>1, Still DEF Searching
      <4>3. QED
        BY <3>1, <4>1, <4>2, Still DEF IInv, Scanned
    <3>5. VerdictJustified'
      BY <3>1, Still DEF IInv, VerdictJustified, ReadReturned
    <3>6. PointerPlaced'
      BY <3>1, Still DEF IInv, PointerPlaced, ReadReturned
    <3>7. InStep'
      <4>1. /\ Visited' = Visited
            /\ InOrder' <=> InOrder
        BY <3>1, Still DEF Visited, InOrder, VisitedBefore
      <4>2. QED
        BY <3>1, <4>1, Still DEF IInv, InStep
    <3>8. QED
      BY <3>2, <3>3, <3>4, <3>5, <3>6, <3>7 DEF IInv
  <2>14. QED
    BY <2>1, <2>2, <2>3, <2>4, <2>5, <2>6, <2>7, <2>8, <2>9, <2>10, <2>11, <2>12, <2>13
       DEF Next, Read, Iterate, Finished
<1>3. QED
  BY <1>1, <1>2, PTL DEF Spec

(* VerdictJustified holds, of segments of any elements: read_body() takes  *)
(* what it should, and what it throws is true.                             *)
THEOREM VerdictIsTrue == Spec => []VerdictJustified
<1>1. IInv => VerdictJustified
  BY DEF IInv
<1>2. QED
  BY <1>1, Invariance, PTL

(* PointerPlaced holds: the read position is left at the end of the        *)
(* SegmentInfo or the SeekHead, whichever is last.                         *)
THEOREM PointerIsPlaced == Spec => []PointerPlaced
<1>1. IInv => PointerPlaced
  BY DEF IInv
<1>2. QED
  BY <1>1, Invariance, PTL

(* IndexGuaranteedIfComplete holds: whatever the SeekHeads name, and       *)
(* wherever they lie, the index leads to the first of each kind that the   *)
(* examples look up in it, if what SeekHeads say is true and a late one    *)
(* leaves nothing out that came before.                                    *)
THEOREM IndexIsGuaranteed == Spec => []IndexGuaranteedIfComplete
<1>1. ASSUME IInv PROVE IndexGuaranteedIfComplete
  <2> SUFFICES ASSUME LateIndexComplete, NamesLead, ReadReturned, NEW k \in Wanted
               PROVE  Found(index, k) # {} /\ PlaceOf(Find(index, k)) = At(FirstOf(k))
    BY DEF IndexGuaranteedIfComplete, IndexGuaranteed
  <2>1. k \in have
    BY <1>1 DEF IInv, AllThere
  <2>2. QED
    BY <1>1, <2>1 DEF IInv, IndexRight, Leads
<1>2. QED
  BY <1>1, Invariance, PTL

(* IterationComplete holds, of any number of clusters of any number of     *)
(* blocks: the iteration leaves none out, and comes to the last.           *)
THEOREM IterationIsComplete == Spec => []IterationComplete
<1>1. ASSUME IInv PROVE IterationComplete
  <2> SUFFICES ASSUME LateIndexComplete, NamesLead, ClustersWide
               PROVE  /\ InOrder /\ NoneLeftOut
                      /\ ClustersLast /\ Blocks # {} /\ declared = LayoutEnd =>
                          /\ phase = "done" =>
                                \A x \in Blocks : \E n \in DOMAIN visited : visited[n] = x
                          /\ result \notin IterationFailures
    BY DEF IterationComplete
  <2>1. /\ InOrder
        /\ ClustersLast /\ Blocks # {} /\ declared = LayoutEnd =>
              /\ phase = "done" => Blocks \subseteq Visited
              /\ result \notin IterationFailures
    BY <1>1 DEF IInv, InStep
  <2>2. PICK c \in Nat, b \in Nat : Visited = Below(c, b)
    BY <1>1 DEF IInv, InStep
  <2>3. SegmentOK /\ visited \in Seq(Blocks)
    BY <1>1 DEF IInv, TypeOK
  <2>4. ASSUME NEW x \in Blocks, NEW y \in Blocks
        PROVE  /\ ~(Precedes(x, y) /\ Precedes(y, x)) /\ ~Precedes(x, x)
               /\ Precedes(x, y) /\ Precedes(y, <<c, b>>) => Precedes(x, <<c, b>>)
    <3>1. PICK i \in 1..Len(layout) : \E d \in 1..layout[i].blocks : x = <<i, d>>
      BY <2>3, BlocksAre
    <3>2. PICK d \in 1..layout[i].blocks : x = <<i, d>>
      BY <3>1
    <3>3. PICK j \in 1..Len(layout) : \E f \in 1..layout[j].blocks : y = <<j, f>>
      BY <2>3, BlocksAre
    <3>4. PICK f \in 1..layout[j].blocks : y = <<j, f>>
      BY <3>3
    <3>5. i \in Nat /\ d \in Nat /\ j \in Nat /\ f \in Nat
      BY <2>3, BlocksAre
    <3>6. /\ Precedes(x, y) <=> i < j \/ (i = j /\ d < f)
          /\ Precedes(y, x) <=> j < i \/ (j = i /\ f < d)
          /\ Precedes(x, x) <=> i < i \/ d < d
          /\ Precedes(y, <<c, b>>) <=> j < c \/ (j = c /\ f < b)
          /\ Precedes(x, <<c, b>>) <=> i < c \/ (i = c /\ d < b)
      BY <3>2, <3>4 DEF Precedes
    <3>7. QED
      BY <3>5, <3>6
  <2>5. NoneLeftOut
    <3> SUFFICES ASSUME NEW n \in DOMAIN visited, NEW x \in Blocks, Precedes(x, visited[n])
                 PROVE  x \in VisitedBefore(n)
      BY DEF NoneLeftOut
    <3>1. visited[n] \in Blocks /\ Precedes(visited[n], <<c, b>>)
      BY <2>1, <2>2 DEF InOrder, Visited, Below
    <3>2. x \in Visited
      BY <2>2, <2>4, <3>1 DEF Below
    <3>3. PICK m \in DOMAIN visited : visited[m] = x
      BY <3>2 DEF Visited
    <3>4. DOMAIN visited = 1..Len(visited) /\ Len(visited) \in Nat
      BY <2>3
    <3>5. ~(m = n)
      BY <2>4, <3>3
    <3>6. ~(n < m)
      <4> SUFFICES ASSUME n < m PROVE FALSE
        OBVIOUS
      <4>1. n \in 1..(m - 1)
        BY <3>4
      <4>2. Precedes(visited[n], visited[m])
        BY <2>1, <4>1 DEF InOrder, VisitedBefore
      <4>3. QED
        BY <2>4, <3>1, <3>3, <4>2
    <3>7. m \in 1..(n - 1)
      BY <3>4, <3>5, <3>6
    <3>8. QED
      BY <3>3, <3>7 DEF VisitedBefore
  <2>6. QED
    BY <2>1, <2>5 DEF Visited
<1>2. QED
  BY <1>1, Invariance, PTL

=============================================================================
