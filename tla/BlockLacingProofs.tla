-------------------------- MODULE BlockLacingProofs --------------------------
(***************************************************************************)
(* For frames of any number and length, every order of edits, every lacing *)
(* and whatever blocks other programs leave: the size a block declares is  *)
(* the size written, what is written comes back, no lace header leads the  *)
(* reader out of the block, and what is read can be written.  The          *)
(* argument: the reader's counts, and the lengths it has still to take,    *)
(* add up to the body at every step; and of a block of this library's, the *)
(* frames taken and the lengths waiting are together the frames written.   *)
(***************************************************************************)
EXTENDS BlockLacing, SequenceTheorems, WellFoundedInduction, TLAPS

----------------------------------------------------------------------------
(* Sizes of frames, and their differences.                                 *)

(* The least-number principle, for a set.                                  *)
LEMMA LeastOf ==
    ASSUME NEW T, T \subseteq Nat, T # {}
    PROVE  \E x \in T : \A y \in T : x <= y
<1> DEFINE R == OpToRel(<, Nat)
<1>1. \A x, y \in Nat : <<y, x>> \in R <=> y < x
  BY DEF OpToRel
<1>2. IsWellFoundedOn(R, Nat)
  BY NatLessThanWellFounded
<1> HIDE DEF R
<1>3. PICK x \in T : \A y \in T : <<y, x>> \notin R
  BY <1>2, WFMin
<1>4. ASSUME NEW y \in T PROVE x <= y
  <2>1. x \in Nat /\ y \in Nat
    OBVIOUS
  <2>2. ~(y < x)
    BY <1>1, <1>3, <2>1
  <2>3. QED
    BY <2>1, <2>2
<1>5. QED
  BY <1>4

LEMMA WidthsAre ==
    /\ Len(VintLimit) \in 2..8
    /\ Widths = 1..Len(VintLimit)
    /\ \A k \in Widths : VintLimit[k] \in Nat
BY VintLimitAssumption DEF Widths

(* Of two widths the wider one's limit is larger by more than 8.           *)
LEMMA LimitsGrow ==
    ASSUME NEW j \in Widths, NEW k \in Widths, j < k
    PROVE  VintLimit[j] + 8 < VintLimit[k]
<1> DEFINE Bad == {l \in Widths : j < l /\ ~(VintLimit[j] + 8 < VintLimit[l])}
<1> SUFFICES ASSUME Bad # {} PROVE FALSE
  OBVIOUS
<1>1. Bad \subseteq Nat
  BY WidthsAre
<1>2. PICK l \in Bad : \A m \in Bad : l <= m
  BY <1>1, LeastOf
<1>3. /\ l - 1 \in Widths /\ j <= l - 1
      /\ VintLimit[l - 1] + 8 < VintLimit[l]
  <2>1. l - 1 \in 1..(Len(VintLimit) - 1) /\ j <= l - 1
    BY <1>2, WidthsAre
  <2>2. VintLimit[l - 1] + 8 < VintLimit[(l - 1) + 1]
    BY <2>1, VintLimitAssumption
  <2>3. QED
    BY <2>1, <2>2, WidthsAre
<1>4. l - 1 \notin Bad
  BY <1>2, <1>3, WidthsAre
<1>5. QED
  BY <1>2, <1>3, <1>4, WidthsAre

(* Every value the format holds has a size, and it is the least width      *)
(* whose limit exceeds it.                                                 *)
LEMMA VintSizeIs ==
    ASSUME NEW n, IsVint(n)
    PROVE  /\ VintSize(n) \in Widths
           /\ n < VintLimit[VintSize(n)]
           /\ \A j \in Widths : j < VintSize(n) => VintLimit[j] <= n
<1> DEFINE Fits == {k \in Widths : FitsIn(n, k)}
           Least(k) == FitsIn(n, k) /\ \A j \in 1..(k - 1) : ~FitsIn(n, j)
<1>1. n \in Nat /\ Fits \subseteq Nat /\ Fits # {}
  BY WidthsAre DEF IsVint, FitsIn
<1>2. PICK k \in Fits : \A j \in Fits : k <= j
  BY <1>1, LeastOf
<1>3. Least(k)
  BY <1>2, WidthsAre
<1>4. VintSize(n) \in Widths /\ Least(VintSize(n))
  BY <1>2, <1>3 DEF VintSize
<1>5. QED
  BY <1>1, <1>4, WidthsAre, SMTT(30) DEF FitsIn

(* A difference of frame sizes that some width holds is stored in one that *)
(* can hold it, as a value that field can carry, and comes back unchanged  *)
(* from s_to_u() and u_to_s().                                             *)
THEOREM DifferenceExact ==
    ASSUME NEW d, IsDiff(d)
    PROVE  /\ SToU(d).width \in DiffWidths
           /\ SToU(d).value \in Nat
           /\ FitsIn(SToU(d).value, SToU(d).width)
           /\ UToS(SToU(d)) = d
<1> DEFINE Fits == {k \in DiffWidths : DiffFitsIn(d, k)}
           Least(k) == DiffFitsIn(d, k) /\ \A j \in 1..(k - 1) : ~DiffFitsIn(d, j)
           w == CHOOSE k \in DiffWidths : Least(k)
<1>1. d \in Int /\ Fits \subseteq Nat /\ Fits # {}
  BY WidthsAre, SMTT(30) DEF IsDiff, DiffWidths
<1>2. PICK k \in Fits : \A j \in Fits : k <= j
  BY <1>1, LeastOf
<1>3. Least(k)
  BY <1>2, WidthsAre DEF DiffWidths
<1>4. w \in DiffWidths /\ DiffFitsIn(d, w)
  BY <1>2, <1>3
<1>5. SToU(d) = [value |-> d + DiffLimit(w), width |-> w]
  BY DEF SToU
<1> HIDE DEF w
<1>6. w \in Widths /\ VintLimit[w] \in Nat
  BY <1>4, WidthsAre DEF DiffWidths
<1>7. DiffLimit(w) \in Int /\ 2 * DiffLimit(w) < VintLimit[w]
  BY <1>6 DEF DiffLimit
<1>8. -DiffLimit(w) <= d /\ d <= DiffLimit(w)
  BY <1>4 DEF DiffFitsIn
<1>9. d + DiffLimit(w) \in Nat /\ d + DiffLimit(w) < VintLimit[w]
  BY <1>1, <1>6, <1>7, <1>8
<1>10. (d + DiffLimit(w)) - DiffLimit(w) = d
  BY <1>1, <1>7
<1>11. QED
  BY <1>4, <1>5, <1>9, <1>10 DEF FitsIn, UToS

----------------------------------------------------------------------------
(* Sums of lengths.                                                        *)

(* The recursive definition has the one solution it should have.           *)
LEMMA SumsStep ==
    ASSUME NEW ns \in Seq(Nat)
    PROVE  /\ Sums(ns) \in [0..Len(ns) -> Nat] /\ Sums(ns)[0] = 0
           /\ \A i \in 1..Len(ns) : Sums(ns)[i] = Sums(ns)[i - 1] + ns[i]
<1> DEFINE Adds(f, n) == f[0] = 0 /\ \A i \in 1..n : f[i] = f[i - 1] + ns[i]
           Without == {n \in 0..Len(ns) : ~ \E f \in [0..n -> Nat] : Adds(f, n)}
<1>0. Len(ns) \in Nat /\ \A i \in 1..Len(ns) : ns[i] \in Nat
  OBVIOUS
<1>1. Without = {}
  <2> SUFFICES ASSUME Without # {} PROVE FALSE
    OBVIOUS
  <2>1. PICK m \in Without : \A n \in Without : m <= n
    <3>1. Without \subseteq Nat
      OBVIOUS
    <3>2. QED
      BY <3>1, LeastOf
  <2>2. m # 0
    <3>1. Adds([i \in 0..0 |-> 0], 0) /\ [i \in 0..0 |-> 0] \in [0..0 -> Nat]
      OBVIOUS
    <3>2. QED
      BY <3>1
  <2>3. m - 1 \in 0..Len(ns) /\ m - 1 \notin Without
    <3>1. m \in 0..Len(ns)
      OBVIOUS
    <3> HIDE DEF Without
    <3>2. QED
      BY <1>0, <2>1, <2>2, <3>1
  <2>4. PICK f \in [0..(m - 1) -> Nat] : Adds(f, m - 1)
    BY <2>3
  <2> DEFINE g == [i \in 0..m |-> IF i = m THEN f[m - 1] + ns[m] ELSE f[i]]
  <2>5. g \in [0..m -> Nat] /\ Adds(g, m)
    <3>1. m \in 1..Len(ns) /\ f[m - 1] \in Nat /\ ns[m] \in Nat
      BY <1>0, <2>1, <2>2, <2>3, <2>4
    <3>2. g \in [0..m -> Nat]
      BY <2>4, <3>1
    <3>3. \A i \in 0..(m - 1) : g[i] = f[i]
      BY <3>1
    <3>4. g[m] = g[m - 1] + ns[m]
      BY <3>1, <3>3
    <3>5. g[0] = 0
      BY <2>4, <3>1, <3>3
    <3> HIDE DEF g
    <3>6. \A i \in 1..m : i # m => g[i] = g[i - 1] + ns[i]
      <4> SUFFICES ASSUME NEW i \in 1..m, i # m PROVE g[i] = g[i - 1] + ns[i]
        OBVIOUS
      <4>1. i \in 1..(m - 1) /\ i \in 0..(m - 1) /\ i - 1 \in 0..(m - 1)
        BY <3>1
      <4>2. g[i] = f[i] /\ g[i - 1] = f[i - 1]
        BY <3>3, <4>1
      <4>3. f[i] = f[i - 1] + ns[i]
        BY <2>4, <4>1
      <4>4. QED
        BY <4>2, <4>3
    <3>7. QED
      BY <3>2, <3>4, <3>5, <3>6
  <2>6. QED
    BY <2>1, <2>5
<1>2. PICK f \in [0..Len(ns) -> Nat] : Adds(f, Len(ns))
  BY <1>1
<1>3. f = [i \in 0..Len(ns) |-> IF i = 0 THEN 0 ELSE f[i - 1] + ns[i]]
  BY <1>2
<1> DEFINE S == Sums(ns)
<1>4. S = [i \in 0..Len(ns) |-> IF i = 0 THEN 0 ELSE S[i - 1] + ns[i]]
  BY <1>3 DEF Sums
<1> HIDE DEF S
<1>5. \A i \in 0..Len(ns) : S[i] \in Nat
  <2> DEFINE Not == {n \in 0..Len(ns) : S[n] \notin Nat}
  <2> SUFFICES ASSUME Not # {} PROVE FALSE
    OBVIOUS
  <2>1. PICK m \in Not : \A n \in Not : m <= n
    <3>1. Not \subseteq Nat
      OBVIOUS
    <3>2. QED
      BY <3>1, LeastOf
  <2>2. m # 0
    BY <1>4
  <2>3. m \in 1..Len(ns) /\ m - 1 \in 0..Len(ns) /\ S[m - 1] \in Nat
    BY <2>1, <2>2
  <2>4. S[m] = S[m - 1] + ns[m]
    <3>1. m \in 0..Len(ns) /\ ~(m = 0)
      BY <2>1, <2>2
    <3>2. S[m] = IF m = 0 THEN 0 ELSE S[m - 1] + ns[m]
      BY <1>4, <3>1
    <3>3. QED
      BY <3>1, <3>2
  <2>5. QED
    BY <2>3, <2>4, <1>0
<1>6. S \in [0..Len(ns) -> Nat]
  BY <1>4, <1>5
<1>7. 0 \in 0..Len(ns) /\ \A i \in 1..Len(ns) : i \in 0..Len(ns) /\ i # 0
  OBVIOUS
<1>8. S[0] = 0 /\ \A i \in 1..Len(ns) : S[i] = S[i - 1] + ns[i]
  BY <1>4, <1>7
<1>9. QED
  BY <1>6, <1>8 DEF S

LEMMA SumsAgree ==
    ASSUME NEW ns \in Seq(Nat), NEW ms \in Seq(Nat), Len(ns) <= Len(ms),
           \A i \in 1..Len(ns) : ms[i] = ns[i]
    PROVE  Sums(ms)[Len(ns)] = Sums(ns)[Len(ns)]
<1> DEFINE Off == {n \in 0..Len(ns) : Sums(ms)[n] # Sums(ns)[n]}
<1>1. Off = {}
  <2> SUFFICES ASSUME Off # {} PROVE FALSE
    OBVIOUS
  <2>1. PICK m \in Off : \A n \in Off : m <= n
    <3>1. Off \subseteq Nat
      OBVIOUS
    <3>2. QED
      BY <3>1, LeastOf
  <2>2. m # 0
    BY <2>1, SumsStep
  <2>3. Len(ns) \in Nat /\ Len(ms) \in Nat
    OBVIOUS
  <2>4. m \in 1..Len(ns) /\ m \in 1..Len(ms) /\ m - 1 \in 0..Len(ns)
    BY <2>1, <2>2, <2>3
  <2>5. Sums(ms)[m - 1] = Sums(ns)[m - 1]
    BY <2>1, <2>4
  <2>6. Sums(ms)[m] = Sums(ms)[m - 1] + ms[m] /\ Sums(ns)[m] = Sums(ns)[m - 1] + ns[m]
    BY <2>4, SumsStep
  <2>7. QED
    BY <2>1, <2>4, <2>5, <2>6
<1>2. Len(ns) \in 0..Len(ns)
  OBVIOUS
<1>3. QED
  BY <1>1, <1>2

LEMMA SumsNat ==
    ASSUME NEW ns \in Seq(Nat)
    PROVE  \A i \in 0..Len(ns) : Sums(ns)[i] \in Nat
<1>1. Sums(ns) \in [0..Len(ns) -> Nat]
  BY SumsStep
<1> DEFINE f == Sums(ns)
<1> HIDE DEF f
<1>2. f \in [0..Len(ns) -> Nat] => \A i \in 0..Len(ns) : f[i] \in Nat
  OBVIOUS
<1>3. QED
  BY <1>1, <1>2 DEF f

LEMMA TotalIs ==
    ASSUME NEW ns \in Seq(Nat), NEW n \in Nat
    PROVE  /\ Total(ns) \in Nat /\ Total(<<>>) = 0
           /\ Append(ns, n) \in Seq(Nat) /\ Total(Append(ns, n)) = Total(ns) + n
<1> DEFINE ms == Append(ns, n)
<1>1. /\ ms \in Seq(Nat) /\ Len(ms) = Len(ns) + 1 /\ Len(ns) \in Nat
      /\ \A i \in 1..Len(ns) : ms[i] = ns[i]
      /\ ms[Len(ms)] = n
  OBVIOUS
<1>2. <<>> \in Seq(Nat) /\ Len(<<>>) = 0
  OBVIOUS
<1> HIDE DEF ms
<1>3. Total(<<>>) = 0
  BY <1>2, SumsStep DEF Total
<1>4. Sums(ns)[Len(ns)] \in Nat
  <2>1. Len(ns) \in 0..Len(ns)
    BY <1>1
  <2>2. QED
    BY <2>1, SumsNat
<1>5. Sums(ms)[Len(ns)] = Sums(ns)[Len(ns)]
  <2>1. Len(ns) <= Len(ms)
    BY <1>1
  <2>2. QED
    BY <1>1, <2>1, SumsAgree
<1>6. Sums(ms)[Len(ms)] = Sums(ms)[Len(ns)] + n
  <2>1. Len(ms) \in 1..Len(ms) /\ Len(ms) - 1 = Len(ns)
    BY <1>1
  <2>2. QED
    BY <1>1, <2>1, SumsStep
<1>7. QED
  BY <1>1, <1>3, <1>4, <1>5, <1>6 DEF Total, ms

(* Longer beginnings have larger sums.                                     *)
LEMMA SumsGrow ==
    ASSUME NEW ns \in Seq(Nat), NEW i \in 0..Len(ns), NEW j \in 0..Len(ns), i <= j
    PROVE  Sums(ns)[i] <= Sums(ns)[j]
<1> DEFINE Off == {k \in 0..Len(ns) : i <= k /\ ~(Sums(ns)[i] <= Sums(ns)[k])}
<1> SUFFICES ASSUME Off # {} PROVE FALSE
  OBVIOUS
<1>1. PICK k \in Off : \A l \in Off : k <= l
  <2>1. Off \subseteq Nat
    OBVIOUS
  <2>2. QED
    BY <2>1, LeastOf
<1>2. Len(ns) \in Nat /\ Sums(ns)[i] \in Nat
  BY SumsNat
<1>3. k # i
  BY <1>1, <1>2
<1>4. k \in 1..Len(ns) /\ k - 1 \in 0..Len(ns) /\ i <= k - 1 /\ ns[k] \in Nat
  BY <1>1, <1>2, <1>3
<1>5. Sums(ns)[k] = Sums(ns)[k - 1] + ns[k] /\ Sums(ns)[k - 1] \in Nat
  BY <1>4, SumsStep, SumsNat
<1>6. Sums(ns)[i] <= Sums(ns)[k - 1]
  <2>1. k - 1 \notin Off
    <3> HIDE DEF Off
    <3>1. QED
      BY <1>1, <1>4
  <2>2. QED
    BY <2>1, <1>4
<1>7. ~(Sums(ns)[i] <= Sums(ns)[k])
  BY <1>1
<1>8. QED
  BY <1>2, <1>4, <1>5, <1>6, <1>7

LEMMA TotalTail ==
    ASSUME NEW ns \in Seq(Nat), ns # <<>>
    PROVE  /\ Head(ns) \in Nat /\ Tail(ns) \in Seq(Nat)
           /\ Total(ns) = Head(ns) + Total(Tail(ns))
<1> DEFINE ms == Tail(ns)
           Off == {k \in 0..Len(ms) : Sums(ns)[k + 1] # Head(ns) + Sums(ms)[k]}
<1>1. /\ Len(ns) \in Nat /\ Len(ns) > 0 /\ ms \in Seq(Nat) /\ Len(ms) = Len(ns) - 1
      /\ Head(ns) \in Nat /\ ns[1] = Head(ns)
      /\ \A i \in 1..Len(ms) : ms[i] = ns[i + 1]
  OBVIOUS
<1> HIDE DEF ms
<1>2. Off = {}
  <2> SUFFICES ASSUME Off # {} PROVE FALSE
    OBVIOUS
  <2>1. PICK k \in Off : \A l \in Off : k <= l
    <3>1. Off \subseteq Nat
      OBVIOUS
    <3>2. QED
      BY <3>1, LeastOf
  <2>2. k \in 0..Len(ms) /\ Sums(ns)[k + 1] # Head(ns) + Sums(ms)[k]
    BY <2>1
  <2>3. k # 0
    <3>1. Sums(ns)[1] = Sums(ns)[0] + ns[1] /\ Sums(ns)[0] = 0 /\ Sums(ms)[0] = 0
      <4>1. 1 \in 1..Len(ns) /\ 1 - 1 = 0
        BY <1>1
      <4>2. QED
        BY <1>1, <4>1, SumsStep
    <3>2. Sums(ns)[0 + 1] = Head(ns) + Sums(ms)[0]
      BY <1>1, <3>1
    <3>3. QED
      BY <2>2, <3>2
  <2>4. k \in 1..Len(ms) /\ k - 1 \in 0..Len(ms) /\ k + 1 \in 1..Len(ns) /\ (k + 1) - 1 = k
    BY <1>1, <2>2, <2>3
  <2>5. Sums(ns)[(k - 1) + 1] = Head(ns) + Sums(ms)[k - 1]
    <3>1. k - 1 \notin Off
      <4> HIDE DEF Off
      <4>1. QED
        BY <1>1, <2>1, <2>4
    <3>2. QED
      BY <2>4, <3>1
  <2>6. /\ Sums(ns)[k + 1] = Sums(ns)[k] + ns[k + 1]
        /\ Sums(ms)[k] = Sums(ms)[k - 1] + ms[k]
    BY <1>1, <2>4, SumsStep
  <2>7. ms[k] = ns[k + 1] /\ ms[k] \in Nat /\ Sums(ms)[k - 1] \in Nat
    <3>1. ms[k] = ns[k + 1] /\ ms[k] \in Nat
      <4>1. ms[k] = ns[k + 1]
        BY <1>1, <2>4
      <4>2. ns[k + 1] \in Nat
        BY <2>4
      <4>3. QED
        BY <4>1, <4>2
    <3>2. QED
      BY <1>1, <2>4, <3>1, SumsNat
  <2>8. (k - 1) + 1 = k
    BY <2>4
  <2>9. Sums(ns)[k] = Head(ns) + Sums(ms)[k - 1]
    BY <2>5, <2>8
  <2>10. Sums(ns)[k + 1] = Head(ns) + Sums(ms)[k]
    <3> DEFINE h == Head(ns)
               x == ns[k + 1]
               before == Sums(ms)[k - 1]
    <3>1. h \in Nat /\ x \in Nat /\ before \in Nat
      BY <1>1, <2>7
    <3>2. Sums(ns)[k + 1] = (h + before) + x /\ Sums(ms)[k] = before + x
      BY <2>6, <2>7, <2>9
    <3> HIDE DEF h, x, before
    <3>3. Sums(ns)[k + 1] = h + Sums(ms)[k]
      BY <3>1, <3>2
    <3>4. QED
      BY <3>3 DEF h
  <2> HIDE DEF Off
  <2>11. QED
    BY <2>2, <2>10
<1>3. Len(ms) \in 0..Len(ms) /\ Len(ms) + 1 = Len(ns)
  BY <1>1
<1>4. Sums(ns)[Len(ms) + 1] = Head(ns) + Sums(ms)[Len(ms)]
  BY <1>2, <1>3
<1>5. Total(ns) = Head(ns) + Total(ms)
  BY <1>3, <1>4 DEF Total
<1>6. QED
  BY <1>1, <1>5 DEF ms

(* Equal lengths.                                                          *)
LEMMA TotalEqual ==
    ASSUME NEW ns \in Seq(Nat), NEW a \in Nat, \A i \in 1..Len(ns) : ns[i] = a
    PROVE  Total(ns) = Len(ns) * a
<1> DEFINE Off == {k \in 0..Len(ns) : Sums(ns)[k] # k * a}
<1>1. Off = {}
  <2> SUFFICES ASSUME Off # {} PROVE FALSE
    OBVIOUS
  <2>1. PICK k \in Off : \A l \in Off : k <= l
    <3>1. Off \subseteq Nat
      OBVIOUS
    <3>2. QED
      BY <3>1, LeastOf
  <2>2. k \in 0..Len(ns) /\ Sums(ns)[k] # k * a
    BY <2>1
  <2>3. k # 0
    <3>1. Sums(ns)[0] = 0 /\ 0 * a = 0
      BY SumsStep
    <3>2. QED
      BY <2>2, <3>1
  <2>4. Len(ns) \in Nat /\ k \in 1..Len(ns) /\ k - 1 \in 0..Len(ns)
    BY <2>2, <2>3
  <2>5. Sums(ns)[k - 1] = (k - 1) * a
    <3>1. k - 1 \notin Off
      <4> HIDE DEF Off
      <4>1. QED
        BY <2>1, <2>4
    <3>2. QED
      BY <2>4, <3>1
  <2>6. Sums(ns)[k] = Sums(ns)[k - 1] + a
    BY <2>4, SumsStep
  <2>7. (k - 1) * a + a = k * a
    BY <2>4
  <2>8. QED
    BY <2>2, <2>5, <2>6, <2>7
<1>2. Len(ns) \in 0..Len(ns)
  OBVIOUS
<1>3. QED
  BY <1>1, <1>2 DEF Total

----------------------------------------------------------------------------
(* Sizes.                                                                  *)
LEMMA Constants ==
    /\ CountValues \in Nat /\ CountValues > 4 /\ CountValues % 2 = 0
    /\ IntValues \in Nat /\ IntValues > 4 /\ IntValues % 2 = 0
    /\ \A n \in FrameSizes : n \in Nat /\ n > 0
    /\ \A t \in Tracks : t \in Numbers
    /\ \A s \in Foreign : s \in StoredBlocks /\ s.by = "another" /\ s.written = <<>>
    /\ \A s \in Garbage : s \in StoredSizes
BY LaceAssumption

LEMMA NumbersAre ==
    /\ \A n \in Numbers : IsVint(n)
    /\ \A n : IsVint(n) => n \in Numbers
    /\ 0 \in Numbers /\ Numbers \subseteq Nat
<1>1. Len(VintLimit) \in Widths /\ VintLimit[Len(VintLimit)] \in Nat
  BY WidthsAre
<1>2. VintLimit[Len(VintLimit)] > 0
  <2>1. VintLimit[1] > 8 /\ 1 \in Widths /\ 1 < Len(VintLimit)
    <3>1. VintLimit[1] > 8
      BY VintLimitAssumption
    <3> DEFINE n == Len(VintLimit)
    <3>2. n \in 2..8 /\ Widths = 1..n
      BY WidthsAre
    <3> HIDE DEF n
    <3>3. 1 \in Widths /\ 1 < n
      BY <3>2
    <3>4. QED
      BY <3>1, <3>3 DEF n
  <2>2. VintLimit[1] + 8 < VintLimit[Len(VintLimit)]
    BY <1>1, <2>1, LimitsGrow
  <2>3. QED
    BY <1>1, <2>1, <2>2, WidthsAre
<1>3. QED
  BY <1>1, <1>2 DEF Numbers, IsVint

LEMMA HeadLenIs ==
    ASSUME NEW t \in Numbers
    PROVE  HeadLen(t) \in Nat /\ HeadLen(t) > 0
BY NumbersAre, VintSizeIs, WidthsAre DEF HeadLen

LEMMA StoredTypes ==
    ASSUME NEW s \in StoredSizes
    PROVE  s.value \in Nat /\ s.width \in Nat /\ s.width > 0 /\ UToS(s) \in Int
<1>1. s.value \in Nat /\ s.width \in Widths
  BY DEF StoredSizes
<1>2. s.width \in Nat /\ s.width > 0 /\ VintLimit[s.width] \in Nat
  BY <1>1, WidthsAre
<1>3. DiffLimit(s.width) \in Int
  BY <1>2 DEF DiffLimit
<1>4. QED
  BY <1>1, <1>2, <1>3 DEF UToS

WidthsOf(sizes) == [i \in DOMAIN sizes |-> sizes[i].width]

LEMMA WidestIs ==
    ASSUME NEW sizes \in Seq(StoredSizes)
    PROVE  /\ WidthsOf(sizes) \in Seq(Nat) /\ Len(WidthsOf(sizes)) = Len(sizes)
           /\ \A i \in 1..Len(sizes) : WidthsOf(sizes)[i] = sizes[i].width
           /\ Widest(sizes) = Sums(WidthsOf(sizes))[Len(sizes)]
           /\ Widest(sizes) \in Nat /\ Widest(<<>>) = 0
<1>1. \A i \in 1..Len(sizes) : sizes[i].width \in Nat
  <2>1. \A i \in 1..Len(sizes) : sizes[i] \in StoredSizes
    OBVIOUS
  <2>2. QED
    BY <2>1, StoredTypes
<1>2. WidthsOf(sizes) \in [1..Len(sizes) -> Nat] /\ Len(sizes) \in Nat
  BY <1>1 DEF WidthsOf
<1>3. /\ WidthsOf(sizes) \in Seq(Nat) /\ Len(WidthsOf(sizes)) = Len(sizes)
      /\ \A i \in 1..Len(sizes) : WidthsOf(sizes)[i] = sizes[i].width
  <2>1. WidthsOf(sizes) \in Seq(Nat)
    BY <1>2
  <2>2. DOMAIN WidthsOf(sizes) = 1..Len(sizes)
    BY <1>2
  <2>3. \A i \in 1..Len(sizes) : WidthsOf(sizes)[i] = sizes[i].width
    BY DEF WidthsOf
  <2>4. QED
    BY <1>2, <2>1, <2>2, <2>3
<1>4. Widest(sizes) = Total(WidthsOf(sizes))
  BY DEF Widest, WidthsOf
<1>5. Widest(<<>>) = 0
  <2>1. [i \in DOMAIN <<>> |-> (<<>>)[i].width] = <<>>
    OBVIOUS
  <2>2. <<>> \in Seq(Nat) /\ 0 \in Nat
    OBVIOUS
  <2>3. Total(<<>>) = 0
    BY <2>2, TotalIs
  <2>4. Widest(<<>>) = Total([i \in DOMAIN <<>> |-> (<<>>)[i].width])
    BY DEF Widest
  <2>5. QED
    BY <2>1, <2>3, <2>4
<1>6. QED
  BY <1>3, <1>4, <1>5, TotalIs DEF Total

(* Arithmetic of counts and shares.                                        *)
LEMMA Small ==
    ASSUME NEW n \in Nat, NEW m \in Nat, n < m
    PROVE  n % m = n
OBVIOUS

LEMMA Remainder ==
    ASSUME NEW n \in Int, NEW m \in Nat, m > 0
    PROVE  n % m \in 0..(m - 1) /\ n \div m \in Int /\ n = m * (n \div m) + (n % m)
OBVIOUS

LEMMA Halves ==
    ASSUME NEW m \in Nat, m > 4
    PROVE  m \div 2 \in Nat /\ m \div 2 > 0 /\ m \div 2 < m
OBVIOUS

LEMMA AtMost ==
    ASSUME NEW m \in Nat, NEW n \in Nat, NEW a \in Nat, m <= n
    PROVE  m * a <= n * a /\ m * a \in Nat
OBVIOUS

LEMMA LastOrBefore ==
    ASSUME NEW n \in Nat, NEW i \in 1..(n + 1)
    PROVE  i = n + 1 \/ i \in 1..n
OBVIOUS

LEMMA Quotient ==
    ASSUME NEW n \in Nat, NEW a \in Nat, n > 0
    PROVE  (n * a) % n = 0 /\ (n * a) \div n = a
OBVIOUS

----------------------------------------------------------------------------
(* The inductive invariant.                                                *)
BlockTypes == [track : Numbers, lacing : Lacings, frames : Seq(Nat)]
Readers ==
    [pc : {"idle", "count", "sizes", "laced", "frames"}, base : Nat, size : Int,
     read : Nat, count : Int, sizes : Seq(Nat), left : Int]

TypeOK ==
    /\ block \in BlockTypes /\ stored \in StoredBlocks /\ rd \in Readers

(* What write() takes, as validate() and the lace header demand it.        *)
Positive(s) == \A i \in 1..Len(s) : s[i] > 0

Writable(lacing, f) ==
    /\ f # <<>> /\ Positive(f)
    /\ lacing = "none" => Len(f) = 1
    /\ lacing = "fixed" => \A i \in 1..Len(f) : f[i] = f[1]
    /\ lacing = "ebml" => Len(f) > 1

Storable(f) == IsVint(f[1]) /\ \A i \in 2..(Len(f) - 1) : IsDiff(f[i] - f[i - 1])

(* What write() leaves.                                                    *)
CountLen(lacing) == IF lacing = "none" THEN 0 ELSE 1

BeforeFrames == HeadLen(stored.track) + CountLen(stored.lacing) + Widest(stored.sizes)

AsWritten ==
    Ours => /\ stored.lacing \in Lacings /\ Writable(stored.lacing, stored.written)
            /\ stored.lacing = "ebml" => Storable(stored.written)
            /\ stored.sizes = IF stored.lacing = "ebml" THEN LaceSizes(stored.written) ELSE <<>>
            /\ stored.count = CountByte(Len(stored.written))
            /\ stored.present = BeforeFrames + Total(stored.written)
            /\ stored.body = BeforeFrames + AsInt(Total(stored.written))

(* What read() has made of the header, and what it returns.                *)
HeaderRead ==
    Reading => /\ outcome = "reading"
               /\ block.track = stored.track /\ block.lacing = LacingRead
               /\ HeadLen(stored.track) < stored.body

Returned == outcome = "read" => Writable(block.lacing, block.frames)

(* Where the reader stands and what is left of the body.                   *)
AtCount ==
    rd.pc = "count" =>
        /\ block.lacing # "none" /\ block.frames = <<>> /\ rd.sizes = <<>>
        /\ rd.base = HeadLen(stored.track) /\ rd.read = 0
        /\ rd.base + rd.size = stored.body

AtSizes ==
    rd.pc = "sizes" =>
        /\ block.lacing = "ebml" /\ block.frames = <<>> /\ Positive(rd.sizes)
        /\ rd.base = HeadLen(stored.track) /\ rd.read > 0
        /\ rd.base + rd.size = stored.body
        /\ rd.sizes # <<>> => rd.left = rd.size - rd.read - Total(rd.sizes)

AtLaced ==
    rd.pc = "laced" =>
        /\ block.lacing = "ebml" /\ Positive(rd.sizes) /\ Positive(block.frames)
        /\ Len(block.frames) + Len(rd.sizes) > 1
        /\ rd.base = HeadLen(stored.track)
        /\ Total(block.frames) <= rd.read
        /\ Position + Total(rd.sizes) = stored.body

(* Of equal frames, each has its share.                                    *)
AtFrames ==
    rd.pc = "frames" =>
        /\ block.lacing # "ebml" /\ rd.sizes = <<>>
        /\ block.lacing = "none" => rd.count = 1
        /\ rd.base >= HeadLen(stored.track) /\ rd.size >= 0
        /\ rd.base + rd.size = stored.body
        /\ rd.read = Total(block.frames)
        /\ block.frames # <<>> =>
            /\ rd.count > 0 /\ ~Uneven /\ Len(block.frames) <= rd.count /\ Share > 0
            /\ \A i \in 1..Len(block.frames) : block.frames[i] = Share

(* A block of this library's, on the way back.                             *)
OwnSizes ==
    Sound /\ rd.pc = "sizes" =>
        /\ rd.count = Len(stored.written) /\ Len(rd.sizes) < Len(stored.written)
        /\ \A i \in 1..Len(rd.sizes) : rd.sizes[i] = stored.written[i]
        /\ rd.read = 1 + Sums(WidthsOf(stored.sizes))[Len(rd.sizes)]

OwnLaced ==
    Sound /\ rd.pc = "laced" =>
        /\ Len(block.frames) + Len(rd.sizes) = Len(stored.written)
        /\ \A i \in 1..Len(block.frames) : block.frames[i] = stored.written[i]
        /\ \A i \in 1..Len(rd.sizes) :
              rd.sizes[i] = stored.written[Len(block.frames) + i]
        /\ rd.read = 1 + Widest(stored.sizes) + Total(block.frames)
        /\ rd.size = Total(stored.written)

OwnFrames ==
    Sound /\ rd.pc = "frames" =>
        /\ rd.count = Len(stored.written) /\ rd.size = Total(stored.written)
        /\ \A i \in 1..Len(block.frames) : block.frames[i] = stored.written[i]

IInv ==
    /\ TypeOK /\ AsWritten /\ HeaderRead /\ Returned
    /\ AtCount /\ AtSizes /\ AtLaced /\ AtFrames
    /\ OwnSizes /\ OwnLaced /\ OwnFrames

LEMMA AppendIs ==
    ASSUME NEW f \in Seq(Nat), NEW n \in Nat
    PROVE  /\ Append(f, n) \in Seq(Nat) /\ Len(Append(f, n)) = Len(f) + 1
           /\ Append(f, n)[Len(f) + 1] = n
           /\ \A i \in 1..Len(f) : Append(f, n)[i] = f[i]
           /\ Append(f, n) # <<>>
           /\ Positive(f) /\ n > 0 => Positive(Append(f, n))
<1> DEFINE a == Append(f, n)
           m == Len(f)
<1>1. /\ a \in Seq(Nat) /\ Len(a) = m + 1 /\ a[m + 1] = n /\ m \in Nat
      /\ \A i \in 1..m : a[i] = f[i]
  OBVIOUS
<1> HIDE DEF a, m
<1>2. a # <<>>
  BY <1>1
<1>3. ASSUME \A i \in 1..m : f[i] > 0, n > 0
      PROVE  \A i \in 1..(m + 1) : a[i] > 0
  BY <1>1, <1>3, LastOrBefore
<1>4. Positive(f) /\ n > 0 => Positive(a)
  BY <1>1, <1>3 DEF Positive, m
<1>5. QED
  BY <1>1, <1>2, <1>4 DEF a, m

----------------------------------------------------------------------------
(* The lace header.                                                        *)
LEMMA LaceIs ==
    ASSUME NEW f \in Seq(Nat), Len(f) > 1, Storable(f)
    PROVE  /\ LaceSizes(f) \in Seq(StoredSizes) /\ Len(LaceSizes(f)) = Len(f) - 1
           /\ LaceSizes(f)[1].value = f[1]
           /\ \A i \in 2..(Len(f) - 1) : /\ UToS(LaceSizes(f)[i]) = f[i] - f[i - 1]
                                         /\ LaceSizes(f)[i].width \in DiffWidths
<1> DEFINE first == [value |-> f[1], width |-> VintSize(f[1])]
           rest == [i \in 1..(Len(f) - 2) |-> SToU(f[i + 1] - f[i])]
<1>1. /\ Len(f) \in Nat /\ Len(f) - 2 \in Nat
      /\ IsVint(f[1]) /\ \A i \in 2..(Len(f) - 1) : IsDiff(f[i] - f[i - 1])
  BY DEF Storable
<1>2. first \in StoredSizes
  BY <1>1, VintSizeIs DEF StoredSizes, IsVint
<1>3. \A i \in 1..(Len(f) - 2) :
        /\ SToU(f[i + 1] - f[i]) \in StoredSizes
        /\ UToS(SToU(f[i + 1] - f[i])) = f[i + 1] - f[i]
        /\ SToU(f[i + 1] - f[i]).width \in DiffWidths
  <2> SUFFICES ASSUME NEW i \in 1..(Len(f) - 2)
               PROVE  /\ SToU(f[i + 1] - f[i]) \in StoredSizes
                      /\ UToS(SToU(f[i + 1] - f[i])) = f[i + 1] - f[i]
                      /\ SToU(f[i + 1] - f[i]).width \in DiffWidths
    OBVIOUS
  <2> DEFINE d == f[i + 1] - f[i]
  <2>1. IsDiff(d)
    <3>1. i + 1 \in 2..(Len(f) - 1) /\ (i + 1) - 1 = i
      BY <1>1
    <3>2. QED
      BY <1>1, <3>1
  <2> HIDE DEF d
  <2>2. /\ SToU(d).width \in DiffWidths /\ SToU(d).value \in Nat /\ UToS(SToU(d)) = d
    BY <2>1, DifferenceExact
  <2>3. SToU(d) \in StoredSizes
    <3>1. \E v, w : SToU(d) = [value |-> v, width |-> w]
      BY DEF SToU
    <3>2. SToU(d).width \in Widths
      BY <2>2, WidthsAre DEF DiffWidths
    <3>3. QED
      BY <2>2, <3>1, <3>2 DEF StoredSizes
  <2>4. QED
    BY <2>2, <2>3 DEF d
<1>4. rest \in Seq(StoredSizes) /\ Len(rest) = Len(f) - 2
      /\ \A i \in 1..(Len(f) - 2) : rest[i] = SToU(f[i + 1] - f[i])
  <2>1. \A i \in 1..(Len(f) - 2) : rest[i] = SToU(f[i + 1] - f[i])
    OBVIOUS
  <2>2. rest \in [1..(Len(f) - 2) -> StoredSizes]
    BY <1>3
  <2> DEFINE n == Len(f) - 2
  <2>3. n \in Nat
    BY <1>1
  <2>4. rest \in [1..n -> StoredSizes]
    BY <2>2
  <2> HIDE DEF rest, n
  <2>5. rest \in Seq(StoredSizes) /\ Len(rest) = n
    BY <2>3, <2>4
  <2>6. QED
    BY <2>1, <2>5 DEF n
<1>5. LaceSizes(f) = <<first>> \o rest
  BY DEF LaceSizes
<1> HIDE DEF first, rest
<1>6. /\ <<first>> \in Seq(StoredSizes) /\ Len(<<first>>) = 1 /\ (<<first>>)[1] = first
  BY <1>2
<1>7. /\ LaceSizes(f) \in Seq(StoredSizes) /\ Len(LaceSizes(f)) = Len(f) - 1
      /\ LaceSizes(f)[1] = first
      /\ \A i \in 2..(Len(f) - 1) : LaceSizes(f)[i] = rest[i - 1]
  BY <1>1, <1>4, <1>5, <1>6
<1>8. ASSUME NEW i \in 2..(Len(f) - 1)
      PROVE  /\ UToS(LaceSizes(f)[i]) = f[i] - f[i - 1]
             /\ LaceSizes(f)[i].width \in DiffWidths
  <2>1. i - 1 \in 1..(Len(f) - 2) /\ (i - 1) + 1 = i
    BY <1>1
  <2>2. LaceSizes(f)[i] = SToU(f[i] - f[i - 1])
    BY <1>4, <1>7, <2>1
  <2>3. QED
    BY <1>3, <2>1, <2>2
<1>9. QED
  BY <1>7, <1>8 DEF first

(* What size() and write() go through without an exception.                *)
LEMMA LaceHolds ==
    ASSUME NEW b \in BlockTypes, ~Undefined(b), ~TooBig(b)
    PROVE  /\ Size(b) \in Numbers
           /\ b.lacing = "ebml" /\ b.frames # <<>> =>
                 Len(b.frames) > 1 /\ Storable(b.frames)
<1> DEFINE f == b.frames
           Bad == {i \in Walked(b) : f[i] = NoFrame \/ Oversized(b, i)}
<1>1. f \in Seq(Nat) /\ Len(f) \in Nat
  BY DEF BlockTypes
<1>2. \A i \in Walked(b) : ~LaceFailsAt(b, i)
  BY DEF Undefined, TooBig
<1>3. Size(b) \in Numbers
  BY <1>2 DEF TooBig
<1>4. Bad = {}
  <2> SUFFICES ASSUME Bad # {} PROVE FALSE
    OBVIOUS
  <2>1. PICK i \in Bad : \A j \in Bad : i <= j
    <3>1. Bad \subseteq Nat
      BY <1>1 DEF Walked
    <3> HIDE DEF Bad
    <3>2. QED
      BY <3>1, LeastOf
  <2>2. i \in Walked(b) /\ i \in Nat
    BY <1>1, <2>1 DEF Walked
  <2>3. \A j \in 1..(i - 1) : j \in Walked(b)
    BY <1>1, <2>2 DEF Walked
  <2>4. \A j \in 1..(i - 1) : j \notin Bad
    <3> HIDE DEF Bad
    <3>1. QED
      BY <2>1, <2>2
  <2>5. LaceFailsAt(b, i)
    BY <2>1, <2>3, <2>4 DEF LaceFailsAt
  <2>6. QED
    BY <1>2, <2>2, <2>5
<1>5. ASSUME b.lacing = "ebml", f # <<>>
      PROVE  Len(f) > 1 /\ Storable(f)
  <2>1. Len(f) > 0
    BY <1>1, <1>5
  <2>2. 1 \in Walked(b)
    BY <1>5 DEF Walked
  <2>3. Len(f) # 1
    BY <1>2, <1>5, <2>2 DEF Undefined
  <2>4. IsVint(f[1])
    BY <1>4, <2>2 DEF Oversized
  <2>5. ASSUME NEW i \in 2..(Len(f) - 1) PROVE IsDiff(f[i] - f[i - 1])
    <3>1. i \in Walked(b)
      BY <1>5, <2>5 DEF Walked
    <3>2. i # 1
      BY <1>1, <2>5
    <3>3. QED
      BY <1>4, <3>1, <3>2 DEF Oversized
  <2>6. Storable(f)
    BY <2>4, <2>5 DEF Storable
  <2>7. Len(f) > 1
    <3> DEFINE n == Len(f)
    <3>1. n \in Nat /\ n > 0 /\ n # 1
      BY <1>1, <2>1, <2>3
    <3> HIDE DEF n
    <3>2. n > 1
      BY <3>1
    <3>3. QED
      BY <3>2 DEF n
  <2>8. QED
    BY <2>6, <2>7
<1>6. QED
  BY <1>3, <1>5

(* validate() accepts what can be written, and only that.                  *)
LEMMA FaultIs ==
    ASSUME NEW b \in BlockTypes
    PROVE  /\ Fault(b) = "ok" /\ ~Undefined(b) /\ ~TooBig(b) =>
                 Writable(b.lacing, b.frames)
           /\ Writable(b.lacing, b.frames) => Fault(b) = "ok" /\ ~Undefined(b)
<1> DEFINE f == b.frames
<1>1. f \in Seq(Nat) /\ Len(f) \in Nat /\ \A i \in 1..Len(f) : f[i] \in Nat
  BY DEF BlockTypes
<1>2. ASSUME Fault(b) = "ok", ~Undefined(b), ~TooBig(b)
      PROVE  Writable(b.lacing, f)
  <2>1. f # <<>> /\ ~(b.lacing = "none" /\ Len(f) # 1)
    BY <1>2 DEF Fault
  <2>2. \A i \in DOMAIN f : ~Faulty(b, i)
    BY <1>2, <2>1 DEF Fault
  <2>3. \A i \in 1..Len(f) : f[i] # NoFrame /\ (b.lacing = "fixed" => f[i] = f[1])
    BY <1>1, <2>2 DEF Faulty
  <2>4. Positive(f)
    BY <1>1, <2>3 DEF Positive, NoFrame
  <2>5. b.lacing = "ebml" => Len(f) > 1
    BY <1>2, <2>1, LaceHolds
  <2>6. QED
    BY <2>1, <2>3, <2>4, <2>5 DEF Writable
<1>3. ASSUME Writable(b.lacing, f)
      PROVE  Fault(b) = "ok" /\ ~Undefined(b)
  <2>1. /\ f # <<>> /\ \A i \in 1..Len(f) : f[i] # NoFrame
        /\ b.lacing = "none" => Len(f) = 1
        /\ b.lacing = "fixed" => \A i \in 1..Len(f) : f[i] = f[1]
        /\ b.lacing = "ebml" => Len(f) > 1
    BY <1>1, <1>3 DEF Writable, Positive, NoFrame
  <2>2. \A i \in DOMAIN f : ~Faulty(b, i)
    BY <1>1, <2>1 DEF Faulty
  <2>3. Fault(b) = "ok"
    BY <2>1, <2>2 DEF Fault
  <2>4. \A i \in Walked(b) : f[i] # NoFrame
    <3>1. Walked(b) \subseteq 1..Len(f)
      BY <1>1, <2>1 DEF Walked
    <3>2. QED
      BY <2>1, <3>1
  <2>5. ~Undefined(b)
    BY <1>1, <2>1, <2>4 DEF Undefined
  <2>6. QED
    BY <2>3, <2>5
<1>4. QED
  BY <1>2, <1>3

----------------------------------------------------------------------------
LEMMA TypeFacts ==
    ASSUME TypeOK
    PROVE  /\ block.track \in Numbers /\ block.lacing \in Lacings
           /\ block.frames \in Seq(Nat) /\ Len(block.frames) \in Nat
           /\ stored.track \in Numbers /\ stored.count \in Counts
           /\ stored.sizes \in Seq(StoredSizes) /\ Len(stored.sizes) \in Nat
           /\ stored.body \in Nat /\ stored.present \in Nat
           /\ stored.written \in Seq(Nat) /\ Len(stored.written) \in Nat
           /\ rd.base \in Nat /\ rd.size \in Int /\ rd.read \in Nat /\ rd.count \in Int
           /\ rd.sizes \in Seq(Nat) /\ Len(rd.sizes) \in Nat /\ rd.left \in Int
           /\ Position \in Nat /\ HeadLen(stored.track) \in Nat
<1>1. /\ block.track \in Numbers /\ block.lacing \in Lacings
      /\ block.frames \in Seq(Nat) /\ Len(block.frames) \in Nat
  BY DEF TypeOK, BlockTypes
<1>2. /\ stored.track \in Numbers /\ stored.count \in Counts
      /\ stored.sizes \in Seq(StoredSizes) /\ Len(stored.sizes) \in Nat
      /\ stored.body \in Nat /\ stored.present \in Nat
      /\ stored.written \in Seq(Nat) /\ Len(stored.written) \in Nat
  BY DEF TypeOK, StoredBlocks
<1>3. /\ rd.base \in Nat /\ rd.size \in Int /\ rd.read \in Nat /\ rd.count \in Int
      /\ rd.sizes \in Seq(Nat) /\ Len(rd.sizes) \in Nat /\ rd.left \in Int
  BY DEF TypeOK, Readers
<1>4. Position \in Nat
  BY <1>3 DEF Position
<1>5. HeadLen(stored.track) \in Nat
  BY <1>2, HeadLenIs
<1>6. QED
  BY <1>1, <1>2, <1>3, <1>4, <1>5


EmptyHanded ==
    /\ HeaderRead /\ AtCount /\ AtSizes /\ AtLaced /\ AtFrames
    /\ OwnSizes /\ OwnLaced /\ OwnFrames

LEMMA AtRest ==
    ASSUME rd'.pc = "idle"
    PROVE  EmptyHanded'
BY DEF EmptyHanded, HeaderRead, Reading, AtCount, AtSizes, AtLaced, AtFrames, OwnSizes,
       OwnLaced, OwnFrames

LEMMA WrittenStays ==
    ASSUME UNCHANGED stored
    PROVE  /\ AsWritten' <=> AsWritten
           /\ Sound' <=> Sound
           /\ BeforeFrames' = BeforeFrames
           /\ LacingRead' = LacingRead
BY DEF AsWritten, Ours, BeforeFrames, Sound, LacingRead

LEMMA WithFrames ==
    ASSUME NEW b \in BlockTypes, NEW f \in Seq(Nat)
    PROVE  /\ [b EXCEPT !.frames = f] \in BlockTypes
           /\ [b EXCEPT !.frames = f].frames = f
           /\ [b EXCEPT !.frames = f].lacing = b.lacing
           /\ [b EXCEPT !.frames = f].track = b.track
BY DEF BlockTypes

LEMMA EmptyType ==
    ASSUME NEW t \in Numbers, NEW l \in Lacings
    PROVE  Empty(t, l) \in BlockTypes
BY DEF Empty, BlockTypes

LEMMA StoppedType == Stopped \in Readers /\ Stopped.pc = "idle"
BY DEF Stopped, Readers

LEMMA LacingReadIs == LacingRead \in Lacings
BY DEF LacingRead, Lacings

----------------------------------------------------------------------------
LEMMA Starts == Init => IInv
<1> SUFFICES ASSUME Init PROVE IInv
  OBVIOUS
<1>1. PICK t \in Tracks, l \in Lacings : block = Empty(t, l)
  BY DEF Init
<1>2. block \in BlockTypes
  BY <1>1, Constants, EmptyType
<1>3. Nothing \in StoredBlocks /\ Nothing.by = "nobody"
  <2>1. 0 \in Counts
    BY Constants DEF Counts
  <2>2. <<>> \in Seq(StoredSizes) /\ <<>> \in Seq(Nat)
    OBVIOUS
  <2>3. Nothing = [track |-> 0, lacing |-> "none", count |-> 0, sizes |-> <<>>, body |-> 0,
                   present |-> 0, written |-> <<>>, by |-> "nobody"]
    BY DEF Nothing, Torn
  <2>4. 0 \in Numbers /\ "none" \in StoredLacings
    BY NumbersAre DEF StoredLacings, Lacings
  <2>5. QED
    BY <2>1, <2>2, <2>3, <2>4 DEF StoredBlocks
<1>4. stored \in StoredBlocks /\ ~Ours
  BY <1>3, Constants DEF Init, Ours
<1>5. rd = Stopped /\ outcome = "ok"
  BY DEF Init
<1>6. TypeOK /\ AsWritten /\ Returned
  <2>1. outcome # "read"
    BY <1>5
  <2>2. TypeOK
    BY <1>2, <1>4, <1>5, StoppedType DEF TypeOK
  <2>3. QED
    BY <1>4, <2>1, <2>2 DEF AsWritten, Returned
<1>7. rd.pc = "idle"
  BY <1>5, StoppedType
<1>8. QED
  BY <1>6, <1>7 DEF IInv, HeaderRead, Reading, AtCount, AtSizes, AtLaced, AtFrames,
                    OwnSizes, OwnLaced, OwnFrames

(* The client's edits leave the stream alone and the block of its type.    *)
LEMMA EditKeeps ==
    ASSUME IInv, rd.pc = "idle", UNCHANGED <<stored, rd>>,
           block' \in BlockTypes, outcome' \in {"edited", "dead"} \/ UNCHANGED <<block, outcome>>
    PROVE  IInv'
<1>1. TypeOK'
  BY DEF IInv, TypeOK
<1>2. AsWritten'
  BY WrittenStays DEF IInv
<1>3. Returned'
  BY DEF IInv, Returned
<1>4. EmptyHanded'
  BY AtRest
<1>5. QED
  BY <1>1, <1>2, <1>3, <1>4 DEF IInv, EmptyHanded

LEMMA EditsKeep ==
    ASSUME IInv,
           SetLacing \/ Clear \/ PushBack \/ PushRefused \/ PushUndefined \/ Resize
    PROVE  IInv'
<1>0. /\ block \in BlockTypes /\ block.frames \in Seq(Nat) /\ Len(block.frames) \in Nat
  BY TypeFacts DEF IInv, TypeOK
<1>1. CASE SetLacing
  <2>1. PICK l \in Lacings : Edits([block EXCEPT !.lacing = l])
    BY <1>1 DEF SetLacing
  <2>2. block' \in BlockTypes
    BY <1>0, <2>1 DEF Edits, BlockTypes
  <2>3. QED
    BY <1>1, <2>1, <2>2, EditKeeps DEF SetLacing, Filling, Idle, Edits
<1>2. CASE Clear
  <2>1. block' = [block EXCEPT !.frames = <<>>] /\ <<>> \in Seq(Nat)
    BY <1>2 DEF Clear, Edits
  <2>2. block' \in BlockTypes
    BY <1>0, <2>1, WithFrames
  <2>3. QED
    BY <1>2, <2>2, EditKeeps DEF Clear, Filling, Idle, Edits
<1>3. CASE PushBack
  <2>1. PICK n \in FrameSizes : Edits([block EXCEPT !.frames = Append(@, n)])
    BY <1>3 DEF PushBack
  <2>2. Append(block.frames, n) \in Seq(Nat)
    BY <1>0, Constants
  <2>3. block' \in BlockTypes
    BY <1>0, <2>1, <2>2, WithFrames DEF Edits
  <2>4. QED
    BY <1>3, <2>1, <2>3, EditKeeps DEF PushBack, Filling, Idle, Edits
<1>4. CASE PushRefused
  BY <1>0, <1>4, EditKeeps DEF PushRefused, Filling, Idle, vars
<1>5. CASE PushUndefined
  BY <1>0, <1>5, EditKeeps DEF PushUndefined, Filling, Idle
<1>6. CASE Resize
  <2>1. PICK n \in 0..2 :
            Edits([block EXCEPT !.frames =
                [i \in 1..n |-> IF i <= Len(@) THEN @[i] ELSE NoFrame]])
    BY <1>6 DEF Resize
  <2> DEFINE f == [i \in 1..n |-> IF i <= Len(block.frames) THEN block.frames[i] ELSE NoFrame]
  <2>2. f \in Seq(Nat)
    <3>1. \A i \in 1..n : f[i] \in Nat
      BY <1>0 DEF NoFrame
    <3>2. f \in [1..n -> Nat] /\ n \in Nat
      BY <3>1
    <3> HIDE DEF f
    <3>3. QED
      BY <3>2
  <2>3. block' = [block EXCEPT !.frames = f]
    BY <2>1 DEF Edits
  <2> HIDE DEF f
  <2>4. block' \in BlockTypes
    BY <1>0, <2>2, <2>3, WithFrames
  <2>5. QED
    BY <1>6, <2>1, <2>4, EditKeeps DEF Resize, Filling, Idle, Edits
<1>7. QED
  BY <1>1, <1>2, <1>3, <1>4, <1>5, <1>6

----------------------------------------------------------------------------
(* Writing.                                                                *)
LEMMA AsIntIs ==
    ASSUME NEW n \in Nat
    PROVE  AsInt(n) \in Int /\ (InRange(n) => AsInt(n) = n)
<1>1. n % IntValues \in Nat /\ IntValues \in Nat /\ IntValues \div 2 < IntValues
      /\ IntValues \div 2 \in Nat
  BY Constants, Remainder, Halves
<1>2. AsInt(n) \in Int
  BY <1>1 DEF AsInt
<1>3. ASSUME InRange(n) PROVE AsInt(n) = n
  <2>1. n < IntValues
    BY <1>1, <1>3 DEF InRange
  <2>2. n % IntValues = n
    BY <1>1, <2>1, Small
  <2>3. QED
    BY <1>3, <2>2 DEF AsInt
<1>4. QED
  BY <1>2, <1>3

LEMMA CountByteIs ==
    ASSUME NEW n \in Nat
    PROVE  CountByte(n) \in Counts
<1>1. n % CountValues \in 0..(CountValues - 1)
  BY Constants, Remainder
<1>2. QED
  BY <1>1 DEF CountByte, Counts

LEMMA WriteKeeps ==
    ASSUME IInv, Write
    PROVE  IInv'
<1> DEFINE f == block.frames
           sizes == IF block.lacing = "ebml" THEN LaceSizes(f) ELSE <<>>
           count == IF block.lacing = "none" THEN 0 ELSE 1
<1>1. /\ block \in BlockTypes /\ f \in Seq(Nat) /\ Len(f) \in Nat
      /\ block.track \in Numbers /\ block.lacing \in Lacings /\ rd \in Readers
  BY TypeFacts DEF IInv, TypeOK
<1>2. /\ ~Undefined(block) /\ ~TooBig(block) /\ Fault(block) = "ok" /\ rd.pc = "idle"
      /\ rd' = rd /\ block' = block /\ outcome' = "ok"
      /\ stored' = [track |-> block.track, lacing |-> block.lacing,
                    count |-> CountByte(Len(f)), sizes |-> sizes, body |-> Size(block),
                    present |-> HeadLen(block.track) + count + Widest(sizes) + Total(f),
                    written |-> f, by |-> "us"]
  BY DEF Write, Idle
<1>3. Writable(block.lacing, f) /\ Size(block) \in Nat
  BY <1>1, <1>2, FaultIs, LaceHolds, NumbersAre
<1>4. f # <<>> /\ (block.lacing = "ebml" => Len(f) > 1 /\ Storable(f))
  BY <1>1, <1>2, <1>3, LaceHolds DEF Writable
<1>5. sizes \in Seq(StoredSizes)
  BY <1>1, <1>4, LaceIs
<1>6. /\ Widest(sizes) \in Nat /\ Total(f) \in Nat /\ HeadLen(block.track) \in Nat
      /\ count \in Nat
  BY <1>1, <1>5, WidestIs, TotalIs, HeadLenIs
<1>7. CountByte(Len(f)) \in Counts
  BY <1>1, CountByteIs
<1>8. Size(block) = HeadLen(block.track) + count + Widest(sizes) + AsInt(Total(f))
  <2>1. LaceLen(block) = count + Widest(sizes)
    <3>1. Widest(<<>>) = 0
      BY <1>5, WidestIs
    <3>2. CASE block.lacing = "none"
      BY <3>1, <3>2 DEF LaceLen
    <3>3. CASE block.lacing = "fixed"
      BY <3>1, <3>3 DEF LaceLen
    <3>4. CASE block.lacing = "ebml"
      BY <1>4, <3>4 DEF LaceLen
    <3>5. QED
      BY <1>1, <3>2, <3>3, <3>4 DEF Lacings
  <2> HIDE DEF sizes, count
  <2>2. AsInt(Total(f)) \in Int
    BY <1>6, AsIntIs
  <2>3. Size(block) = HeadLen(block.track) + (count + Widest(sizes)) + AsInt(Total(f))
    BY <2>1 DEF Size
  <2>4. QED
    BY <1>6, <2>2, <2>3
<1> HIDE DEF sizes, count
<1>9. stored' \in StoredBlocks
  <2>1. HeadLen(block.track) + count + Widest(sizes) + Total(f) \in Nat
    BY <1>6
  <2>2. block.lacing \in StoredLacings
    BY <1>1 DEF StoredLacings
  <2>3. QED
    BY <1>1, <1>2, <1>3, <1>5, <1>7, <2>1, <2>2 DEF StoredBlocks
<1>10. TypeOK'
  BY <1>1, <1>2, <1>9 DEF TypeOK
<1>11. AsWritten'
  <2>1. /\ stored'.lacing = block.lacing /\ stored'.written = f /\ stored'.sizes = sizes
        /\ stored'.track = block.track /\ stored'.count = CountByte(Len(f))
        /\ stored'.body = Size(block)
        /\ stored'.present = HeadLen(block.track) + count + Widest(sizes) + Total(f)
    BY <1>2
  <2>2. BeforeFrames' = HeadLen(block.track) + count + Widest(sizes)
    BY <2>1 DEF BeforeFrames, CountLen, count
  <2>3. stored'.present = BeforeFrames' + Total(f)
        /\ stored'.body = BeforeFrames' + AsInt(Total(f))
    BY <1>8, <2>1, <2>2
  <2>4. sizes = IF block.lacing = "ebml" THEN LaceSizes(f) ELSE <<>>
    BY DEF sizes
  <2>5. QED
    BY <1>1, <1>3, <1>4, <2>1, <2>3, <2>4 DEF AsWritten
<1>12. Returned'
  BY <1>2 DEF Returned
<1>13. EmptyHanded'
  BY <1>2, AtRest
<1>14. QED
  BY <1>10, <1>11, <1>12, <1>13 DEF IInv, EmptyHanded

LEMMA TornType ==
    ASSUME NEW t \in Numbers, NEW l \in Lacings, NEW n \in Nat
    PROVE  Torn(t, l, n) \in StoredBlocks /\ Torn(t, l, n).by = "nobody"
<1>1. 0 \in Counts
  BY Constants DEF Counts
<1>2. <<>> \in Seq(StoredSizes) /\ <<>> \in Seq(Nat) /\ l \in StoredLacings
  BY DEF StoredLacings
<1>3. QED
  BY <1>1, <1>2 DEF Torn, StoredBlocks

LEMMA WriteEndsKeeps ==
    ASSUME IInv, WriteFails \/ WriteTooBig \/ WriteUndefined
    PROVE  IInv'
<1>1. /\ block \in BlockTypes /\ rd \in Readers /\ stored \in StoredBlocks
      /\ block.track \in Numbers /\ block.lacing \in Lacings
  BY TypeFacts DEF IInv, TypeOK
<1>2. rd.pc = "idle" /\ UNCHANGED <<block, rd>>
  BY DEF WriteFails, WriteTooBig, WriteUndefined, Idle
<1>3. outcome' # "read"
  BY DEF WriteFails, WriteTooBig, WriteUndefined, Fault
<1>4. stored' \in StoredBlocks /\ (stored' = stored \/ stored'.by = "nobody")
  <2>1. CASE WriteFails
    <3>1. Size(block) \in Nat
      BY <1>1, <2>1, LaceHolds, NumbersAre DEF WriteFails
    <3>2. stored' = Torn(block.track, block.lacing, Size(block))
      BY <2>1 DEF WriteFails
    <3>3. QED
      BY <1>1, <3>1, <3>2, TornType
  <2>2. CASE WriteTooBig
    BY <1>1, <2>2, TornType DEF WriteTooBig
  <2>3. CASE WriteUndefined
    BY <1>1, <2>3 DEF WriteUndefined
  <2>4. QED
    BY <2>1, <2>2, <2>3
<1>5. TypeOK'
  BY <1>1, <1>2, <1>4 DEF TypeOK
<1>6. AsWritten'
  <2>1. CASE stored' = stored
    BY <2>1, WrittenStays DEF IInv
  <2>2. CASE stored'.by = "nobody"
    BY <2>2 DEF AsWritten, Ours
  <2>3. QED
    BY <1>4, <2>1, <2>2
<1>7. Returned'
  BY <1>3 DEF Returned
<1>8. EmptyHanded'
  BY <1>2, AtRest
<1>9. QED
  BY <1>5, <1>6, <1>7, <1>8 DEF IInv, EmptyHanded

----------------------------------------------------------------------------
(* Reading.                                                                *)
LEMMA StopKeeps ==
    ASSUME IInv, stored' = stored, rd' = Stopped, block' \in BlockTypes,
           outcome' = "read" => Writable(block'.lacing, block'.frames)
    PROVE  IInv'
<1>1. TypeOK'
  BY StoppedType DEF IInv, TypeOK
<1>2. AsWritten'
  BY WrittenStays DEF IInv
<1>3. Returned'
  BY DEF Returned
<1>4. EmptyHanded'
  BY StoppedType, AtRest
<1>5. QED
  BY <1>1, <1>2, <1>3, <1>4 DEF IInv, EmptyHanded

LEMMA FailsKeep ==
    ASSUME IInv, NEW o, Fails(o), o # "read"
    PROVE  IInv'
BY StopKeeps DEF Fails, IInv, TypeOK

(* When the reader has all frames, they are what write() takes.            *)
LEMMA DoneWritable ==
    ASSUME IInv, AllFrames
    PROVE  Writable(block.lacing, block.frames)
<1> DEFINE f == block.frames
<1>1. f \in Seq(Nat) /\ Len(f) \in Nat /\ block.lacing \in Lacings /\ rd.sizes \in Seq(Nat)
      /\ rd.count \in Int
  BY TypeFacts DEF IInv
<1>2. CASE rd.pc = "laced" /\ rd.sizes = <<>>
  <2>1. block.lacing = "ebml" /\ Positive(f) /\ Len(f) + Len(rd.sizes) > 1
    BY <1>2 DEF IInv, AtLaced
  <2>2. Len(rd.sizes) = 0
    BY <1>2
  <2>3. Len(f) > 1
    BY <1>1, <2>1, <2>2
  <2>4. f # <<>>
    BY <1>1, <2>3
  <2>5. QED
    BY <2>1, <2>3, <2>4 DEF Writable
<1>3. CASE rd.pc = "frames" /\ rd.count > 0 /\ Len(f) = rd.count
  <2>1. f # <<>> /\ block.lacing # "ebml" /\ (block.lacing = "none" => Len(f) = 1)
    BY <1>1, <1>3 DEF IInv, AtFrames
  <2>2. Share > 0 /\ \A i \in 1..Len(f) : f[i] = Share
    BY <1>3, <2>1 DEF IInv, AtFrames
  <2>3. 1 \in 1..Len(f)
    BY <1>1, <2>1
  <2>4. Positive(f) /\ \A i \in 1..Len(f) : f[i] = f[1]
    BY <2>2, <2>3 DEF Positive
  <2>5. QED
    BY <2>1, <2>4 DEF Writable
<1>4. QED
  BY <1>2, <1>3 DEF AllFrames

LEMMA ReadEndsKeeps ==
    ASSUME IInv,
           ReadHeaderFails \/ ReadSizeFails \/ ReadFramesFails \/ ReadDone
    PROVE  IInv'
<1>1. block \in BlockTypes
  BY DEF IInv, TypeOK
<1>2. CASE ReadHeaderFails
  <2>1. stored' = stored /\ rd' = rd /\ rd.pc = "idle" /\ outcome' # "read"
    BY <1>2 DEF ReadHeaderFails, Idle, HeaderFault
  <2>2. block' \in BlockTypes
    <3>1. 0 \in Numbers /\ "none" \in Lacings /\ stored.track \in Numbers
      BY NumbersAre, TypeFacts DEF Lacings, IInv
    <3>2. Empty(0, "none") \in BlockTypes /\ Empty(stored.track, LacingRead) \in BlockTypes
      BY <3>1, EmptyType, LacingReadIs
    <3>3. QED
      BY <1>2, <3>2 DEF ReadHeaderFails
  <2>3. TypeOK' /\ AsWritten' /\ Returned'
    BY <2>1, <2>2, WrittenStays DEF IInv, TypeOK, Returned
  <2>4. EmptyHanded'
    BY <2>1, AtRest
  <2>5. QED
    BY <2>3, <2>4 DEF IInv, EmptyHanded
<1>3. CASE ReadSizeFails
  BY <1>3, FailsKeep DEF ReadSizeFails
<1>4. CASE ReadFramesFails
  BY <1>4, FailsKeep DEF ReadFramesFails
<1>5. CASE ReadDone
  <2>1. Writable(block.lacing, block.frames) /\ block' = block
    BY <1>5, DoneWritable DEF ReadDone
  <2>2. QED
    BY <1>1, <1>5, <2>1, StopKeeps DEF ReadDone
<1>6. QED
  BY <1>2, <1>3, <1>4, <1>5

(* What is known of a block of this library's that is read.                *)
LEMMA OwnIs ==
    ASSUME IInv, Sound
    PROVE  /\ LacingRead = stored.lacing /\ Writable(stored.lacing, stored.written)
           /\ Len(stored.written) > 0 /\ \A i \in 1..Len(stored.written) : stored.written[i] \in Nat
           /\ Total(stored.written) \in Nat /\ Widest(stored.sizes) \in Nat
           /\ stored.body = HeadLen(stored.track) + CountLen(stored.lacing)
                                + Widest(stored.sizes) + Total(stored.written)
           /\ stored.present = stored.body
           /\ stored.lacing # "none" => Signed(stored.count) = Len(stored.written)
<1> DEFINE w == stored.written
<1>1. /\ w \in Seq(Nat) /\ Len(w) \in Nat /\ stored.sizes \in Seq(StoredSizes)
      /\ HeadLen(stored.track) \in Nat
  BY TypeFacts DEF IInv
<1>2. /\ stored.lacing \in Lacings /\ Writable(stored.lacing, w)
      /\ stored.count = CountByte(Len(w))
      /\ stored.present = BeforeFrames + Total(w)
      /\ stored.body = BeforeFrames + AsInt(Total(w))
  BY DEF IInv, AsWritten, Sound
<1>3. LacingRead = stored.lacing
  BY <1>2 DEF LacingRead
<1>4. Total(w) \in Nat /\ Widest(stored.sizes) \in Nat
  BY <1>1, TotalIs, WidestIs
<1>5. AsInt(Total(w)) = Total(w)
  BY <1>4, AsIntIs DEF Sound
<1>6. BeforeFrames = HeadLen(stored.track) + CountLen(stored.lacing) + Widest(stored.sizes)
  BY DEF BeforeFrames
<1>7. Len(w) > 0
  <2>1. w # <<>>
    BY <1>2 DEF Writable
  <2>2. QED
    BY <1>1, <2>1
<1>8. \A i \in 1..Len(w) : w[i] \in Nat
  BY <1>1
<1>9. ASSUME stored.lacing # "none" PROVE Signed(stored.count) = Len(w)
  <2>1. Len(w) < CountValues \div 2
    BY <1>9 DEF Sound
  <2>2. CountValues \in Nat /\ CountValues \div 2 < CountValues /\ CountValues \div 2 \in Nat
    BY Constants, Halves
  <2>3. Len(w) % CountValues = Len(w)
    <3>1. Len(w) < CountValues
      BY <1>1, <2>1, <2>2
    <3>2. QED
      BY <1>1, <2>2, <3>1, Small
  <2>4. QED
    BY <1>2, <2>1, <2>3 DEF CountByte, Signed
<1>10. QED
  BY <1>2, <1>3, <1>4, <1>5, <1>6, <1>7, <1>8, <1>9

LEMMA OwnLaceIs ==
    ASSUME IInv, Sound, stored.lacing = "ebml"
    PROVE  /\ Len(stored.written) > 1 /\ Len(stored.sizes) = Len(stored.written) - 1
           /\ stored.sizes[1].value = stored.written[1]
           /\ \A i \in 2..(Len(stored.written) - 1) :
                /\ UToS(stored.sizes[i]) = stored.written[i] - stored.written[i - 1]
                /\ stored.sizes[i].width \in DiffWidths
           /\ stored.written[Len(stored.written)] > 1 + Widest(stored.sizes)
<1>1. /\ stored.written \in Seq(Nat) /\ Len(stored.written) > 1 /\ Storable(stored.written)
      /\ stored.sizes = LaceSizes(stored.written)
  BY TypeFacts DEF IInv, AsWritten, Sound, Writable
<1>2. stored.written[Len(stored.written)] > 1 + Widest(stored.sizes)
  BY DEF Sound, Last
<1>3. QED
  BY <1>1, <1>2, LaceIs

LEMMA OwnEqualIs ==
    ASSUME IInv, Sound, stored.lacing # "ebml"
    PROVE  /\ Widest(stored.sizes) = 0
           /\ \A i \in 1..Len(stored.written) : stored.written[i] = stored.written[1]
           /\ Total(stored.written) = Len(stored.written) * stored.written[1]
<1> DEFINE w == stored.written
<1>1. w \in Seq(Nat) /\ Writable(stored.lacing, w) /\ stored.sizes = <<>>
      /\ stored.lacing \in Lacings
  BY TypeFacts DEF IInv, AsWritten, Sound
<1>2. Widest(stored.sizes) = 0
  BY <1>1, WidestIs, TypeFacts DEF IInv
<1>3. \A i \in 1..Len(w) : w[i] = w[1]
  BY <1>1 DEF Writable, Lacings
<1>4. w[1] \in Nat
  <2>1. w # <<>>
    BY <1>1 DEF Writable
  <2>2. QED
    BY <1>1, <2>1
<1>5. Total(w) = Len(w) * w[1]
  BY <1>1, <1>3, <1>4, TotalEqual
<1>6. QED
  BY <1>2, <1>3, <1>5

LEMMA SignedIs == ASSUME NEW n \in Counts PROVE Signed(n) \in Int
BY Constants DEF Signed, Counts

----------------------------------------------------------------------------
(* The header and the count.                                               *)
LEMMA ReadHeaderKeeps ==
    ASSUME IInv, ReadHeader
    PROVE  IInv'
<1> DEFINE h == HeadLen(stored.track)
           pc == IF LacingRead = "none" THEN "frames" ELSE "count"
<1>1. /\ stored.track \in Numbers /\ stored.body \in Nat /\ h \in Nat
      /\ stored.sizes \in Seq(StoredSizes) /\ stored \in StoredBlocks
  BY TypeFacts DEF IInv, TypeOK
<1>2. /\ h < stored.body /\ block' = Empty(stored.track, LacingRead) /\ stored' = stored
      /\ outcome' = "reading"
      /\ rd' = [Stopped EXCEPT !.pc = pc, !.base = h, !.size = stored.body - h, !.count = 1]
  BY DEF ReadHeader
<1>3. /\ rd' = [pc |-> pc, base |-> h, size |-> stored.body - h, read |-> 0, count |-> 1,
                sizes |-> <<>>, left |-> 0]
      /\ block' = [track |-> stored.track, lacing |-> LacingRead, frames |-> <<>>]
  BY <1>2 DEF Stopped, Empty
<1>4. TypeOK'
  <2>1. block' \in BlockTypes
    BY <1>1, <1>2, EmptyType, LacingReadIs
  <2>2. <<>> \in Seq(Nat) /\ stored.body - h \in Int
    BY <1>1
  <2>3. rd' \in Readers
    BY <1>1, <1>3, <2>2 DEF Readers
  <2>4. QED
    BY <1>1, <1>2, <2>1, <2>3 DEF TypeOK
<1> HIDE DEF h
<1>5. /\ AsWritten' /\ Returned'
      /\ Sound' <=> Sound
  BY <1>2, WrittenStays DEF IInv, Returned
<1>6. HeaderRead'
  <2>1. LacingRead' = LacingRead
    BY <1>2, WrittenStays
  <2>2. HeadLen(stored.track)' = h
    BY <1>2 DEF h
  <2>3. QED
    BY <1>2, <1>3, <2>1, <2>2 DEF HeaderRead
<1>7. /\ h' = h /\ rd'.base + rd'.size = stored'.body /\ rd'.size > 0
      /\ rd'.pc = pc /\ rd'.base = h /\ rd'.read = 0 /\ rd'.count = 1 /\ rd'.sizes = <<>>
      /\ block'.lacing = LacingRead /\ block'.frames = <<>> /\ rd'.size = stored.body - h
  <2>1. h' = h
    BY <1>2 DEF h
  <2>2. h + (stored.body - h) = stored.body /\ stored.body - h > 0
    BY <1>1, <1>2
  <2>3. /\ rd'.pc = pc /\ rd'.base = h /\ rd'.read = 0 /\ rd'.count = 1 /\ rd'.sizes = <<>>
        /\ rd'.size = stored.body - h
    BY <1>3
  <2>4. block'.lacing = LacingRead /\ block'.frames = <<>>
    BY <1>3
  <2>5. rd'.base + rd'.size = stored'.body /\ rd'.size > 0
    BY <1>2, <2>2, <2>3
  <2>6. QED
    BY <2>1, <2>3, <2>4, <2>5
<1>8. AtCount'
  BY <1>7 DEF AtCount, h
<1>9. AtSizes' /\ AtLaced' /\ OwnSizes' /\ OwnLaced'
  BY <1>7 DEF AtSizes, AtLaced, OwnSizes, OwnLaced
<1>10. AtFrames'
  <2>1. Total(<<>>) = 0
    BY TotalIs, EmptySeq
  <2>2. QED
    BY <1>1, <1>7, <2>1 DEF AtFrames, h
<1>11. OwnFrames'
  <2> SUFFICES ASSUME Sound, pc = "frames"
               PROVE  /\ rd'.count = Len(stored.written) /\ rd'.size = Total(stored.written)
                      /\ \A i \in 1..Len(block'.frames) :
                            block'.frames[i] = stored.written[i]
    BY <1>2, <1>5, <1>7 DEF OwnFrames
  <2>1. stored.lacing = "none"
    BY OwnIs
  <2>2. Len(stored.written) = 1
    BY <2>1, OwnIs DEF Writable
  <2>3. stored.body = h + Total(stored.written) /\ Total(stored.written) \in Nat
    <3>1. CountLen(stored.lacing) = 0 /\ Widest(stored.sizes) = 0
      BY <2>1, OwnEqualIs DEF CountLen
    <3>2. QED
      BY <1>1, <3>1, OwnIs DEF h
  <2>4. QED
    BY <1>1, <1>7, <2>2, <2>3
<1>12. QED
  BY <1>4, <1>5, <1>6, <1>8, <1>9, <1>10, <1>11 DEF IInv

(* A step inside of a read.                                                *)
LEMMA ReadingGoes ==
    ASSUME IInv, Reading, stored' = stored, outcome' = outcome,
           block'.track = block.track, block'.lacing = block.lacing
    PROVE  /\ HeaderRead' /\ AsWritten' /\ Returned'
           /\ Sound' <=> Sound
<1>1. /\ AsWritten' /\ LacingRead' = LacingRead
      /\ Sound' <=> Sound
  BY WrittenStays DEF IInv
<1>2. outcome = "reading" /\ block.track = stored.track /\ block.lacing = LacingRead
      /\ HeadLen(stored.track) < stored.body
  BY DEF IInv, HeaderRead
<1>3. HeadLen(stored.track)' = HeadLen(stored.track)
  OBVIOUS
<1>4. HeaderRead'
  BY <1>1, <1>2, <1>3 DEF HeaderRead
<1>5. Returned'
  BY <1>2 DEF Returned
<1>6. QED
  BY <1>1, <1>4, <1>5

LEMMA ReadCountKeeps ==
    ASSUME IInv, ReadCount
    PROVE  IInv'
<1> DEFINE h == HeadLen(stored.track)
           n == Signed(stored.count)
           ebml == block.lacing = "ebml"
<1>1. /\ rd.pc = "count" /\ block' = block /\ stored' = stored /\ outcome' = outcome
      /\ block.lacing # "none" /\ block.frames = <<>> /\ rd.sizes = <<>>
      /\ rd.base = h /\ rd.read = 0 /\ rd.base + rd.size = stored.body /\ h < stored.body
      /\ block.lacing = LacingRead
  BY DEF ReadCount, Goes, IInv, AtCount, HeaderRead, Reading
<1>2. /\ rd \in Readers /\ stored.body \in Nat /\ h \in Nat /\ rd.size \in Int /\ n \in Int
      /\ stored.sizes \in Seq(StoredSizes)
  BY TypeFacts, SignedIs DEF IInv, TypeOK
<1>3. rd' = IF ebml THEN [rd EXCEPT !.pc = "sizes", !.read = 1, !.count = n]
            ELSE [rd EXCEPT !.pc = "frames", !.base = @ + 1, !.size = @ - 1, !.count = n]
  BY DEF ReadCount, Goes
<1> HIDE DEF h, n
<1>4. HeaderRead' /\ AsWritten' /\ Returned' /\ (Sound' <=> Sound)
  BY <1>1, ReadingGoes DEF Reading
<1>5. rd.size > 0
  BY <1>1, <1>2
<1>6. HeadLen(stored.track)' = h
  BY <1>1 DEF h
<1>7. CASE ebml
  <2>1. /\ rd'.pc = "sizes" /\ rd'.read = 1 /\ rd'.count = n /\ rd'.base = h
        /\ rd'.size = rd.size /\ rd'.sizes = <<>> /\ rd' \in Readers
    BY <1>1, <1>2, <1>3, <1>7 DEF Readers
  <2>2. TypeOK'
    BY <1>1, <2>1 DEF TypeOK, IInv
  <2>3. AtCount' /\ AtLaced' /\ AtFrames' /\ OwnLaced' /\ OwnFrames'
    BY <2>1 DEF AtCount, AtLaced, AtFrames, OwnLaced, OwnFrames
  <2>4. AtSizes'
    BY <1>1, <1>6, <1>7, <2>1 DEF AtSizes, Positive
  <2>5. OwnSizes'
    <3> SUFFICES ASSUME Sound
                 PROVE  /\ rd'.count = Len(stored.written)
                        /\ Len(rd'.sizes) < Len(stored.written)
                        /\ \A i \in 1..Len(rd'.sizes) : rd'.sizes[i] = stored.written[i]
                        /\ rd'.read = 1 + Sums(WidthsOf(stored.sizes))[Len(rd'.sizes)]
      BY <1>1, <1>4 DEF OwnSizes
    <3>1. n = Len(stored.written) /\ Len(stored.written) > 0
      BY <1>1, OwnIs DEF n
    <3>2. Sums(WidthsOf(stored.sizes))[0] = 0
      BY <1>2, WidestIs, SumsStep
    <3>3. QED
      BY <2>1, <3>1, <3>2
  <2>6. QED
    BY <1>4, <2>2, <2>3, <2>4, <2>5 DEF IInv
<1>8. CASE ~ebml
  <2>1. /\ rd'.pc = "frames" /\ rd'.base = h + 1 /\ rd'.size = rd.size - 1 /\ rd'.count = n
        /\ rd'.read = 0 /\ rd'.sizes = <<>> /\ rd' \in Readers
    <3>1. rd' = [rd EXCEPT !.pc = "frames", !.base = rd.base + 1, !.size = rd.size - 1,
                           !.count = n]
      BY <1>3, <1>8
    <3>2. rd.base + 1 \in Nat /\ rd.size - 1 \in Int
      BY <1>1, <1>2
    <3>3. rd' \in Readers
      BY <1>2, <3>1, <3>2 DEF Readers
    <3>4. /\ rd'.pc = "frames" /\ rd'.base = rd.base + 1 /\ rd'.size = rd.size - 1
          /\ rd'.count = n /\ rd'.read = rd.read /\ rd'.sizes = rd.sizes
      BY <1>2, <3>1 DEF Readers
    <3>5. QED
      BY <1>1, <3>3, <3>4
  <2>2. TypeOK'
    BY <1>1, <2>1 DEF TypeOK, IInv
  <2>3. AtCount' /\ AtLaced' /\ AtSizes' /\ OwnLaced' /\ OwnSizes'
    BY <2>1 DEF AtCount, AtLaced, AtSizes, OwnLaced, OwnSizes
  <2>4. rd'.base >= h /\ rd'.size >= 0 /\ rd'.base + rd'.size = stored.body
    BY <1>1, <1>2, <1>5, <2>1
  <2>5. AtFrames'
    <3>1. Total(<<>>) = 0
      BY TotalIs, EmptySeq
    <3>2. QED
      BY <1>1, <1>6, <1>8, <2>1, <2>4, <3>1 DEF AtFrames
  <2>6. OwnFrames'
    <3> SUFFICES ASSUME Sound
                 PROVE  rd'.count = Len(stored.written) /\ rd'.size = Total(stored.written)
      BY <1>1, <1>4 DEF OwnFrames
    <3>1. n = Len(stored.written) /\ Total(stored.written) \in Nat
      BY <1>1, OwnIs DEF n
    <3>2. stored.lacing # "ebml" /\ stored.lacing # "none"
      BY <1>1, <1>8, OwnIs
    <3>3. CountLen(stored.lacing) = 1 /\ Widest(stored.sizes) = 0
      BY <3>2, OwnEqualIs DEF CountLen
    <3>4. stored.body = h + 1 + Total(stored.written)
      BY <1>2, <3>1, <3>3, OwnIs DEF h
    <3>5. QED
      BY <1>1, <1>2, <2>1, <3>1, <3>4
  <2>7. QED
    BY <1>4, <2>2, <2>3, <2>5, <2>6 DEF IInv
<1>9. QED
  BY <1>7, <1>8

----------------------------------------------------------------------------
(* The sizes in the lace header.                                           *)
LEMMA NextIs ==
    ASSUME IInv, NEW s \in Next1
    PROVE  /\ s \in StoredSizes /\ Decoded(s) \in Int
           /\ Len(rd.sizes) < Len(stored.sizes) => s = stored.sizes[Len(rd.sizes) + 1]
<1>1. /\ rd.sizes \in Seq(Nat) /\ Len(rd.sizes) \in Nat
      /\ stored.sizes \in Seq(StoredSizes) /\ Len(stored.sizes) \in Nat
  BY TypeFacts DEF IInv
<1>2. Len(rd.sizes) < Len(stored.sizes) => s = stored.sizes[Len(rd.sizes) + 1]
  BY <1>1 DEF Next1
<1>3. s \in StoredSizes
  <2>1. CASE Len(rd.sizes) + 1 <= Len(stored.sizes)
    <3>1. Len(rd.sizes) + 1 \in 1..Len(stored.sizes)
      BY <1>1, <2>1
    <3>2. stored.sizes[Len(rd.sizes) + 1] \in StoredSizes
      BY <1>1, <3>1
    <3>3. QED
      BY <2>1, <3>2 DEF Next1
  <2>2. CASE ~(Len(rd.sizes) + 1 <= Len(stored.sizes))
    BY <2>2, Constants DEF Next1
  <2>3. QED
    BY <2>1, <2>2
<1>4. Decoded(s) \in Int
  <2>1. s.value \in Int /\ UToS(s) \in Int
    BY <1>3, StoredTypes
  <2>2. ASSUME rd.sizes # <<>> PROVE Last(rd.sizes) \in Int
    <3>1. Len(rd.sizes) \in 1..Len(rd.sizes)
      BY <1>1, <2>2
    <3>2. QED
      BY <1>1, <3>1 DEF Last
  <2>3. QED
    BY <2>1, <2>2 DEF Decoded
<1>5. QED
  BY <1>2, <1>3, <1>4

(* A lace header of this library's says what it should.                    *)
LEMMA OwnNextIs ==
    ASSUME IInv, Sound, rd.pc = "sizes", MoreSizes, NEW s \in Next1
    PROVE  LET k == Len(rd.sizes) + 1 IN
           /\ k \in 1..(Len(stored.written) - 1) /\ s.width = WidthsOf(stored.sizes)[k]
           /\ Decoded(s) = stored.written[k] /\ stored.written[k] > 0
           /\ ~TooWide(s) /\ Has(s.width)
           /\ rd.read + s.width = 1 + Sums(WidthsOf(stored.sizes))[k]
<1> DEFINE w == stored.written
           n == Len(rd.sizes)
           k == n + 1
           ws == WidthsOf(stored.sizes)
<1>1. /\ rd.sizes \in Seq(Nat) /\ n \in Nat /\ w \in Seq(Nat) /\ Len(w) \in Nat
      /\ stored.sizes \in Seq(StoredSizes) /\ rd.read \in Nat /\ rd.base \in Nat
      /\ HeadLen(stored.track) \in Nat
  BY TypeFacts DEF IInv
<1>2. block.lacing = "ebml" /\ stored.lacing = "ebml" /\ rd.base = HeadLen(stored.track)
  BY OwnIs DEF IInv, AtSizes, HeaderRead, Reading
<1>3. /\ Len(w) > 1 /\ Len(stored.sizes) = Len(w) - 1
      /\ stored.sizes[1].value = w[1]
      /\ \A i \in 2..(Len(w) - 1) : /\ UToS(stored.sizes[i]) = w[i] - w[i - 1]
                                    /\ stored.sizes[i].width \in DiffWidths
  BY <1>2, OwnLaceIs
<1>4. /\ rd.count = Len(w) /\ n < Len(w) /\ rd.read = 1 + Sums(ws)[n]
      /\ \A i \in 1..n : rd.sizes[i] = w[i]
  BY DEF IInv, OwnSizes
<1>5. k \in 1..(Len(w) - 1) /\ n < Len(stored.sizes)
  <2>1. CASE rd.sizes = <<>>
    BY <1>1, <1>3, <2>1
  <2>2. CASE n < rd.count - 1
    BY <1>1, <1>3, <1>4, <2>2
  <2>3. QED
    BY <2>1, <2>2 DEF MoreSizes
<1>6. s = stored.sizes[k] /\ s \in StoredSizes
  BY <1>5, NextIs
<1>7. /\ ws \in Seq(Nat) /\ Len(ws) = Len(stored.sizes) /\ s.width = ws[k]
      /\ Widest(stored.sizes) = Sums(ws)[Len(ws)] /\ s.width \in Nat
  <2>1. k \in 1..Len(stored.sizes)
    BY <1>3, <1>5
  <2>2. QED
    BY <1>1, <1>6, <2>1, WidestIs, StoredTypes
<1>8. w[k] \in Nat /\ w[k] > 0 /\ (k > 1 => w[k - 1] \in Nat)
  <2>1. k \in 1..Len(w) /\ (k > 1 => k - 1 \in 1..Len(w))
    <3> DEFINE m == Len(w)
    <3>1. m \in Nat /\ k \in 1..(m - 1)
      BY <1>1, <1>5
    <3> HIDE DEF m, k
    <3>2. k \in 1..m /\ (k > 1 => k - 1 \in 1..m)
      BY <3>1
    <3>3. QED
      BY <3>2 DEF m
  <2>2. Positive(w)
    BY OwnIs DEF Writable
  <2>3. w[k] \in Nat /\ (k > 1 => w[k - 1] \in Nat)
    <3>1. \A i \in 1..Len(w) : w[i] \in Nat
      BY <1>1
    <3> HIDE DEF k, w
    <3>2. QED
      BY <2>1, <3>1
  <2>4. w[k] > 0
    BY <2>1, <2>2 DEF Positive
  <2>5. QED
    BY <2>3, <2>4
<1>9. Decoded(s) = w[k] /\ ~TooWide(s)
  <2>1. CASE rd.sizes = <<>>
    <3>1. k = 1
      BY <2>1
    <3>2. QED
      BY <1>3, <1>6, <2>1, <3>1 DEF Decoded, TooWide
  <2>2. CASE rd.sizes # <<>>
    <3>1. n > 0
      BY <1>1, <2>2
    <3>2. k \in 2..(Len(w) - 1) /\ k - 1 = n /\ n \in 1..n
      <4> DEFINE m == Len(w)
      <4>1. m \in Nat /\ n \in Nat /\ n > 0 /\ n + 1 \in 1..(m - 1)
        BY <1>1, <1>5, <3>1
      <4> HIDE DEF m, n
      <4>2. n + 1 \in 2..(m - 1) /\ (n + 1) - 1 = n /\ n \in 1..n
        BY <4>1
      <4>3. QED
        BY <4>2 DEF m
    <3>3. Last(rd.sizes) = w[k - 1]
      BY <1>4, <3>2 DEF Last
    <3>4. UToS(s) = w[k] - w[k - 1] /\ s.width \in DiffWidths
      BY <1>3, <1>6, <3>2
    <3>5. w[k - 1] + (w[k] - w[k - 1]) = w[k]
      BY <1>8, <3>2
    <3>6. QED
      BY <2>2, <3>3, <3>4, <3>5 DEF Decoded, TooWide
  <2>3. QED
    BY <2>1, <2>2
<1>10. rd.read + s.width = 1 + Sums(ws)[k] /\ Sums(ws)[k] <= Widest(stored.sizes)
  <2>1. /\ k \in 1..Len(ws) /\ k - 1 = n /\ n \in 0..Len(ws) /\ k \in 0..Len(ws)
        /\ Len(ws) \in 0..Len(ws) /\ k <= Len(ws)
    <3> DEFINE m == Len(ws)
    <3>1. m = Len(w) - 1 /\ k \in 1..m /\ n \in Nat /\ m \in Nat
      BY <1>1, <1>3, <1>5, <1>7
    <3> HIDE DEF m, w
    <3>2. k - 1 = n /\ n \in 0..m /\ k \in 0..m /\ m \in 0..m /\ k <= m
      BY <3>1
    <3>3. QED
      BY <3>1, <3>2 DEF m
  <2>2. Sums(ws)[k] = Sums(ws)[n] + ws[k] /\ Sums(ws)[n] \in Nat /\ Sums(ws)[k] \in Nat
    BY <1>7, <2>1, SumsStep, SumsNat
  <2>3. Sums(ws)[k] <= Sums(ws)[Len(ws)]
    BY <1>7, <2>1, SumsGrow
  <2> DEFINE a == Sums(ws)[k]
             b == Sums(ws)[n]
  <2>4. /\ a = b + s.width /\ b \in Nat /\ a \in Nat /\ rd.read = 1 + b
        /\ a <= Widest(stored.sizes)
    BY <1>4, <1>7, <2>2, <2>3
  <2>5. s.width \in Nat
    BY <1>7
  <2> HIDE DEF a, b
  <2>6. rd.read + s.width = 1 + a
    BY <2>4, <2>5
  <2>7. QED
    BY <2>4, <2>6 DEF a
<1>11. Has(s.width)
  <2>1. /\ stored.present = HeadLen(stored.track) + 1 + Widest(stored.sizes) + Total(w)
        /\ Total(w) \in Nat /\ Widest(stored.sizes) \in Nat
    <3>1. CountLen(stored.lacing) = 1
      BY <1>2 DEF CountLen
    <3>2. QED
      BY <3>1, OwnIs
  <2>2. Sums(ws)[k] \in Nat
    <3>1. k \in 0..Len(ws)
      BY <1>1, <1>3, <1>5, <1>7
    <3>2. QED
      BY <1>7, <3>1, SumsNat
  <2> DEFINE a == Sums(ws)[k]
             t == Total(w)
             v == Widest(stored.sizes)
  <2> HIDE DEF a, t, v, w, ws, k
  <2>3. (rd.base + rd.read) + s.width <= stored.present
    <3>1. rd.read + s.width = 1 + a /\ a <= v /\ a \in Nat /\ v \in Nat /\ t \in Nat
      BY <1>10, <2>1, <2>2 DEF a, t, v
    <3>2. stored.present = rd.base + 1 + v + t
      BY <1>2, <2>1 DEF t, v
    <3>3. rd.base \in Nat /\ rd.read \in Nat /\ s.width \in Nat
      BY <1>1, <1>7
    <3>4. QED
      BY <3>1, <3>2, <3>3
  <2>4. QED
    BY <2>3 DEF Has, Position
<1>12. QED
  BY <1>5, <1>7, <1>8, <1>9, <1>10, <1>11

LEMMA ReadSizeKeeps ==
    ASSUME IInv, ReadSize
    PROVE  IInv'
<1> DEFINE k == Len(rd.sizes) + 1
<1>1. /\ rd \in Readers /\ rd.sizes \in Seq(Nat) /\ Len(rd.sizes) \in Nat
      /\ rd.size \in Int /\ rd.read \in Nat /\ rd.left \in Int /\ rd.base \in Nat
      /\ stored.sizes \in Seq(StoredSizes) /\ stored.written \in Seq(Nat)
  BY TypeFacts DEF IInv, TypeOK
<1>2. /\ rd.pc = "sizes" /\ MoreSizes
      /\ block.lacing = "ebml" /\ block.frames = <<>> /\ Positive(rd.sizes)
      /\ rd.base = HeadLen(stored.track) /\ rd.read > 0
      /\ rd.base + rd.size = stored.body
      /\ rd.sizes # <<>> => rd.left = rd.size - rd.read - Total(rd.sizes)
  BY DEF ReadSize, IInv, AtSizes
<1>3. PICK s \in Next1 :
        /\ IsLength(s)
        /\ Goes([rd EXCEPT !.read = @ + s.width,
                           !.sizes = Append(@, Decoded(s)),
                           !.left = (IF rd.sizes = <<>> THEN rd.size - rd.read ELSE @)
                                       - s.width - Decoded(s)])
  BY DEF ReadSize
<1> DEFINE d == Decoded(s)
           rest == IF rd.sizes = <<>> THEN rd.size - rd.read ELSE rd.left
<1>4. d \in Nat /\ d > 0 /\ s.width \in Nat
  <2>1. d \in Int /\ s \in StoredSizes
    BY NextIs
  <2>2. d > 0
    BY <1>3 DEF IsLength
  <2>3. s.width \in Nat
    BY <2>1, StoredTypes
  <2> HIDE DEF d
  <2>4. QED
    BY <2>1, <2>2, <2>3
<1>5. /\ rd' = [rd EXCEPT !.read = rd.read + s.width, !.sizes = Append(rd.sizes, d),
                          !.left = rest - s.width - d]
      /\ block' = block /\ stored' = stored /\ outcome' = outcome
  BY <1>3 DEF Goes
<1> HIDE DEF d, rest
<1>6. /\ Append(rd.sizes, d) \in Seq(Nat) /\ rest - s.width - d \in Int /\ rest \in Int
      /\ rd.read + s.width \in Nat
  <2>1. rest \in Int
    BY <1>1 DEF rest
  <2>2. rest - s.width - d \in Int /\ rd.read + s.width \in Nat
    BY <1>1, <1>4, <2>1
  <2>3. QED
    BY <1>1, <1>4, <2>1, <2>2, AppendIs
<1>7. /\ rd' \in Readers /\ rd'.pc = "sizes" /\ rd'.base = rd.base /\ rd'.size = rd.size
      /\ rd'.read = rd.read + s.width /\ rd'.sizes = Append(rd.sizes, d)
      /\ rd'.left = rest - s.width - d /\ rd'.count = rd.count
  BY <1>1, <1>2, <1>5, <1>6 DEF Readers
<1>8. TypeOK'
  BY <1>5, <1>7 DEF TypeOK, IInv
<1>9. HeaderRead' /\ AsWritten' /\ Returned' /\ (Sound' <=> Sound)
  BY <1>2, <1>5, ReadingGoes DEF Reading
<1>10. /\ AtCount' /\ AtLaced' /\ AtFrames' /\ OwnLaced' /\ OwnFrames'
  BY <1>7 DEF AtCount, AtLaced, AtFrames, OwnLaced, OwnFrames
<1>11. AtSizes'
  <2>1. Positive(Append(rd.sizes, d))
    BY <1>1, <1>2, <1>4, AppendIs
  <2>2. Total(rd.sizes) \in Nat /\ Total(Append(rd.sizes, d)) = Total(rd.sizes) + d
        /\ Total(<<>>) = 0
    BY <1>1, <1>4, TotalIs
  <2>3. rest = rd.size - rd.read - Total(rd.sizes)
    BY <1>1, <1>2, <2>2 DEF rest
  <2>4. rd'.left = rd'.size - rd'.read - Total(rd'.sizes)
    BY <1>1, <1>4, <1>7, <2>2, <2>3
  <2>5. rd'.read > 0
    BY <1>1, <1>2, <1>4, <1>7
  <2>6. HeadLen(stored.track)' = HeadLen(stored.track)
    BY <1>5
  <2>7. QED
    BY <1>2, <1>5, <1>7, <2>1, <2>4, <2>5, <2>6 DEF AtSizes
<1>12. OwnSizes'
  <2> SUFFICES ASSUME Sound
               PROVE  /\ rd'.count = Len(stored.written)
                      /\ Len(rd'.sizes) < Len(stored.written)
                      /\ \A i \in 1..Len(rd'.sizes) : rd'.sizes[i] = stored.written[i]
                      /\ rd'.read = 1 + Sums(WidthsOf(stored.sizes))[Len(rd'.sizes)]
    BY <1>5, <1>9 DEF OwnSizes
  <2>1. /\ k \in 1..(Len(stored.written) - 1) /\ d = stored.written[k]
        /\ rd.read + s.width = 1 + Sums(WidthsOf(stored.sizes))[k]
    BY <1>2, OwnNextIs DEF d
  <2>2. /\ rd.count = Len(stored.written)
        /\ \A i \in 1..Len(rd.sizes) : rd.sizes[i] = stored.written[i]
    BY <1>2 DEF IInv, OwnSizes
  <2>3. /\ Len(rd'.sizes) = k /\ rd'.sizes[k] = d
        /\ \A i \in 1..Len(rd.sizes) : rd'.sizes[i] = rd.sizes[i]
    BY <1>1, <1>4, <1>7, AppendIs
  <2>4. \A i \in 1..k : i # k => i \in 1..Len(rd.sizes)
    BY <1>1, LastOrBefore
  <2>5. k < Len(stored.written)
    BY <1>1, <2>1
  <2>6. QED
    BY <1>7, <2>1, <2>2, <2>3, <2>4, <2>5
<1>13. QED
  BY <1>8, <1>9, <1>10, <1>11, <1>12 DEF IInv

(* What is left for the last frame of a lace of this library's is it.      *)
LEMMA OwnLeftIs ==
    ASSUME IInv, Sound, rd.pc = "sizes", ~MoreSizes
    PROVE  LET n == Len(stored.written) IN
           /\ Len(rd.sizes) = n - 1 /\ n > 1
           /\ \A i \in 1..(n - 1) : rd.sizes[i] = stored.written[i]
           /\ rd.left = stored.written[n] /\ stored.written[n] > 0
           /\ rd.read = 1 + Widest(stored.sizes)
           /\ rd.size - rd.read = Total(stored.written)
<1> DEFINE w == stored.written
           n == Len(w)
           ws == WidthsOf(stored.sizes)
<1>1. /\ rd.sizes \in Seq(Nat) /\ Len(rd.sizes) \in Nat /\ w \in Seq(Nat) /\ n \in Nat
      /\ stored.sizes \in Seq(StoredSizes) /\ rd.read \in Nat /\ rd.base \in Nat
      /\ HeadLen(stored.track) \in Nat /\ rd.size \in Int
  BY TypeFacts DEF IInv
<1>2. /\ block.lacing = "ebml" /\ stored.lacing = "ebml"
      /\ rd.base = HeadLen(stored.track) /\ rd.base + rd.size = stored.body
      /\ rd.sizes # <<>> => rd.left = rd.size - rd.read - Total(rd.sizes)
  BY OwnIs DEF IInv, AtSizes, HeaderRead, Reading
<1>3. n > 1 /\ Len(stored.sizes) = n - 1
  BY <1>2, OwnLaceIs
<1>4. /\ rd.count = n /\ Len(rd.sizes) < n /\ rd.read = 1 + Sums(ws)[Len(rd.sizes)]
      /\ \A i \in 1..Len(rd.sizes) : rd.sizes[i] = w[i]
  BY DEF IInv, OwnSizes
<1>5. rd.sizes # <<>> /\ ~(Len(rd.sizes) < n - 1)
  BY <1>4 DEF MoreSizes
<1>6. Len(rd.sizes) = n - 1
  <2> HIDE DEF n
  <2>1. QED
    BY <1>1, <1>4, <1>5
<1>7. rd.read = 1 + Widest(stored.sizes)
  <2>1. Widest(stored.sizes) = Sums(ws)[Len(stored.sizes)]
    BY <1>1, WidestIs
  <2>2. QED
    BY <1>3, <1>4, <1>6, <2>1
<1>8. Total(w) = Total(rd.sizes) + w[n] /\ w[n] \in Nat /\ Total(rd.sizes) \in Nat
  <2>1. n \in 1..n /\ n - 1 \in 0..n
    BY <1>1, <1>3
  <2>2. Sums(w)[n] = Sums(w)[n - 1] + w[n]
    BY <1>1, <2>1, SumsStep
  <2>3. Sums(w)[Len(rd.sizes)] = Sums(rd.sizes)[Len(rd.sizes)]
    <3>1. Len(rd.sizes) <= Len(w)
      <4> HIDE DEF w
      <4>1. QED
        BY <1>1, <1>4
    <3>2. QED
      BY <1>1, <1>4, <3>1, SumsAgree
  <2>4. Total(rd.sizes) \in Nat
    BY <1>1, TotalIs
  <2>5. w[n] \in Nat
    BY <1>1, <2>1
  <2>6. QED
    BY <1>6, <2>2, <2>3, <2>4, <2>5 DEF Total
<1>9. rd.size - rd.read = Total(w)
  <2>1. /\ stored.body = HeadLen(stored.track) + 1 + Widest(stored.sizes) + Total(w)
        /\ Total(w) \in Nat /\ Widest(stored.sizes) \in Nat
    <3>1. CountLen(stored.lacing) = 1
      BY <1>2 DEF CountLen
    <3>2. QED
      BY <3>1, OwnIs
  <2> DEFINE t == Total(w)
             v == Widest(stored.sizes)
             h == HeadLen(stored.track)
  <2>2. /\ rd.base = h /\ h + rd.size = stored.body /\ stored.body = h + 1 + v + t
        /\ t \in Nat /\ v \in Nat /\ h \in Nat /\ rd.read = 1 + v /\ rd.size \in Int
    BY <1>1, <1>2, <1>7, <2>1
  <2> HIDE DEF t, v, h
  <2>3. rd.size - rd.read = t
    BY <2>2
  <2>4. QED
    BY <2>3 DEF t
<1>10. rd.left = w[n]
  <2> DEFINE t == Total(w)
             u == Total(rd.sizes)
             v == w[n]
  <2>1. /\ rd.size - rd.read = t /\ t = u + v /\ u \in Nat /\ v \in Nat
        /\ rd.left = (rd.size - rd.read) - u
    BY <1>2, <1>5, <1>8, <1>9
  <2> HIDE DEF t, u, v
  <2>2. rd.left = v
    BY <2>1
  <2>3. QED
    BY <2>2 DEF v
<1>11. w[n] > 0
  <2>1. Positive(w) /\ n \in 1..n
    BY <1>1, <1>3, OwnIs DEF Writable
  <2>2. QED
    BY <2>1 DEF Positive
<1>12. QED
  BY <1>3, <1>4, <1>6, <1>7, <1>9, <1>10, <1>11

LEMMA LastSizeKeeps ==
    ASSUME IInv, LastSize
    PROVE  IInv'
<1> DEFINE n == Len(stored.written)
<1>1. /\ rd \in Readers /\ rd.sizes \in Seq(Nat) /\ Len(rd.sizes) \in Nat
      /\ rd.size \in Int /\ rd.read \in Nat /\ rd.left \in Int /\ rd.base \in Nat
      /\ stored.body \in Nat /\ block \in BlockTypes /\ HeadLen(stored.track) \in Nat
  BY TypeFacts DEF IInv, TypeOK
<1>2. /\ rd.pc = "sizes" /\ ~MoreSizes /\ rd.sizes # <<>>
      /\ block.lacing = "ebml" /\ block.frames = <<>> /\ Positive(rd.sizes)
      /\ rd.base = HeadLen(stored.track)
      /\ rd.base + rd.size = stored.body
      /\ rd.left = rd.size - rd.read - Total(rd.sizes)
  BY DEF LastSize, IInv, AtSizes, MoreSizes
<1>3. CASE ~(rd.left > 0)
  <2>1. Fails(IF rd.left = 0 THEN "EmptyFrame" ELSE "BadLacedFrameSize")
    BY <1>3 DEF LastSize, Leftover
  <2>2. QED
    BY <2>1, FailsKeep
<1>4. CASE rd.left > 0
  <2>1. /\ rd' = [rd EXCEPT !.pc = "laced", !.size = rd.size - rd.read,
                            !.sizes = Append(rd.sizes, rd.left)]
        /\ block' = block /\ stored' = stored /\ outcome' = outcome
    BY <1>4 DEF LastSize, Leftover, Goes
  <2>2. /\ rd.left \in Nat /\ Append(rd.sizes, rd.left) \in Seq(Nat)
        /\ rd.size - rd.read \in Int
    BY <1>1, <1>4
  <2>3. /\ rd' \in Readers /\ rd'.pc = "laced" /\ rd'.base = rd.base /\ rd'.read = rd.read
        /\ rd'.size = rd.size - rd.read /\ rd'.sizes = Append(rd.sizes, rd.left)
    BY <1>1, <2>1, <2>2 DEF Readers
  <2>4. TypeOK'
    BY <2>1, <2>3 DEF TypeOK, IInv
  <2>5. HeaderRead' /\ AsWritten' /\ Returned' /\ (Sound' <=> Sound)
    BY <1>2, <2>1, ReadingGoes DEF Reading
  <2>6. /\ AtCount' /\ AtSizes' /\ AtFrames' /\ OwnSizes' /\ OwnFrames'
    BY <2>3 DEF AtCount, AtSizes, AtFrames, OwnSizes, OwnFrames
  <2>7. AtLaced'
    <3>1. Positive(Append(rd.sizes, rd.left)) /\ Positive(<<>>)
      BY <1>1, <1>2, <1>4 DEF Positive
    <3>2. Len(<<>>) + Len(Append(rd.sizes, rd.left)) > 1
      <4>1. Len(rd.sizes) > 0
        BY <1>1, <1>2
      <4>2. QED
        BY <1>1, <4>1
    <3>3. /\ Total(<<>>) = 0 /\ Total(rd.sizes) \in Nat
          /\ Total(Append(rd.sizes, rd.left)) = Total(rd.sizes) + rd.left
      BY <1>1, <2>2, TotalIs
    <3>4. rd.base + rd.read + Total(Append(rd.sizes, rd.left)) = stored.body
      BY <1>1, <1>2, <3>3
    <3>5. HeadLen(stored.track)' = HeadLen(stored.track)
      BY <2>1
    <3>6. Position' = rd.base + rd.read
      BY <2>3 DEF Position
    <3>7. /\ block'.lacing = "ebml" /\ block'.frames = <<>> /\ rd'.sizes = Append(rd.sizes, rd.left)
          /\ rd'.base = HeadLen(stored.track)' /\ stored'.body = stored.body
          /\ rd'.read \in Nat
      BY <1>1, <1>2, <2>1, <2>3, <3>5
    <3>8. /\ Len(block'.frames) + Len(rd'.sizes) > 1 /\ Total(block'.frames) <= rd'.read
          /\ Position' + Total(rd'.sizes) = stored'.body
      BY <3>2, <3>3, <3>4, <3>6, <3>7
    <3>9. QED
      BY <3>1, <3>7, <3>8 DEF AtLaced
  <2>8. OwnLaced'
    <3> SUFFICES ASSUME Sound
                 PROVE  /\ Len(<<>>) + Len(rd'.sizes) = n
                        /\ \A i \in 1..Len(rd'.sizes) : rd'.sizes[i] = stored.written[0 + i]
                        /\ rd'.read = 1 + Widest(stored.sizes) + Total(<<>>)
                        /\ rd'.size = Total(stored.written)
      <4>1. stored' = stored /\ block'.frames = <<>> /\ (Sound' => Sound)
        BY <1>2, <2>1, <2>5
      <4>2. \A i \in 1..Len(<<>>) : (<<>>)[i] = stored.written[i]
        OBVIOUS
      <4>3. QED
        BY <4>1, <4>2 DEF OwnLaced
    <3>1. /\ Len(rd.sizes) = n - 1 /\ n > 1
          /\ \A i \in 1..(n - 1) : rd.sizes[i] = stored.written[i]
          /\ rd.left = stored.written[n]
          /\ rd.read = 1 + Widest(stored.sizes)
          /\ rd.size - rd.read = Total(stored.written)
      BY <1>2, OwnLeftIs
    <3>2. n \in Nat /\ Widest(stored.sizes) \in Nat /\ Total(<<>>) = 0
      BY OwnIs, TypeFacts, TotalIs, EmptySeq DEF IInv
    <3> HIDE DEF n
    <3>3. /\ Len(rd'.sizes) = n /\ rd'.sizes[n] = rd.left
          /\ \A i \in 1..(n - 1) : rd'.sizes[i] = rd.sizes[i]
      BY <1>1, <2>2, <2>3, <3>1, <3>2
    <3>4. \A i \in 1..n : rd'.sizes[i] = stored.written[i]
      <4>1. \A i \in 1..n : i = n \/ i \in 1..(n - 1)
        BY <3>2
      <4>2. QED
        BY <3>1, <3>3, <4>1
    <3>5. Len(<<>>) + n = n /\ \A i \in 1..n : 0 + i = i
      BY <3>2
    <3>6. rd'.read = 1 + Widest(stored.sizes) + Total(<<>>)
      BY <2>3, <3>1, <3>2
    <3>7. QED
      BY <2>3, <3>1, <3>3, <3>4, <3>5, <3>6
  <2>9. QED
    BY <2>4, <2>5, <2>6, <2>7, <2>8 DEF IInv
<1>5. QED
  BY <1>3, <1>4

----------------------------------------------------------------------------
(* The frames.                                                             *)
LEMMA ReadLacedFrameKeeps ==
    ASSUME IInv, ReadLacedFrame
    PROVE  IInv'
<1> DEFINE f == block.frames
           n == Head(rd.sizes)
           w == stored.written
<1>1. /\ rd \in Readers /\ rd.sizes \in Seq(Nat) /\ Len(rd.sizes) \in Nat
      /\ rd.read \in Nat /\ rd.base \in Nat /\ block \in BlockTypes
      /\ stored.body \in Nat /\ f \in Seq(Nat) /\ Len(f) \in Nat
  BY TypeFacts DEF IInv, TypeOK
<1>2. /\ rd.pc = "laced" /\ rd.sizes # <<>> /\ stored' = stored /\ outcome' = outcome
      /\ block' = [block EXCEPT !.frames = Append(f, n)]
      /\ rd' = [rd EXCEPT !.read = rd.read + n, !.sizes = Tail(rd.sizes)]
  BY DEF ReadLacedFrame, TakeFrame
<1>3. /\ block.lacing = "ebml" /\ Positive(rd.sizes) /\ Positive(f)
      /\ Len(f) + Len(rd.sizes) > 1
      /\ rd.base = HeadLen(stored.track)
      /\ Total(f) <= rd.read
      /\ rd.base + rd.read + Total(rd.sizes) = stored.body
  BY <1>2 DEF IInv, AtLaced, Position
<1>4. /\ n \in Nat /\ Tail(rd.sizes) \in Seq(Nat) /\ Total(Tail(rd.sizes)) \in Nat
      /\ Total(rd.sizes) = n + Total(Tail(rd.sizes))
  BY <1>1, <1>2, TotalTail, TotalIs
<1>5. /\ Total(f) \in Nat /\ Append(f, n) \in Seq(Nat) /\ Total(Append(f, n)) = Total(f) + n
  BY <1>1, <1>4, TotalIs
<1>6. /\ Len(rd.sizes) > 0 /\ rd.sizes[1] = n /\ Len(Tail(rd.sizes)) = Len(rd.sizes) - 1
      /\ \A i \in 1..Len(Tail(rd.sizes)) : Tail(rd.sizes)[i] = rd.sizes[i + 1]
  BY <1>1, <1>2
<1>7. /\ Len(Append(f, n)) = Len(f) + 1 /\ Append(f, n)[Len(f) + 1] = n
      /\ \A i \in 1..Len(f) : Append(f, n)[i] = f[i]
  BY <1>1, <1>4
<1> HIDE DEF n
<1>8. /\ block' \in BlockTypes /\ block'.frames = Append(f, n)
      /\ block'.lacing = block.lacing /\ block'.track = block.track
  BY <1>1, <1>2, <1>5, WithFrames
<1>9. /\ rd' \in Readers /\ rd'.pc = "laced" /\ rd'.base = rd.base /\ rd'.size = rd.size
      /\ rd'.read = rd.read + n /\ rd'.sizes = Tail(rd.sizes)
  <2>1. rd.read + n \in Nat
    BY <1>1, <1>4
  <2>2. QED
    BY <1>1, <1>2, <1>4, <2>1 DEF Readers
<1>10. Len(Append(f, n)) + Len(Tail(rd.sizes)) = Len(f) + Len(rd.sizes)
  <2> DEFINE k == Len(f)
             m == Len(rd.sizes)
             more == Len(Append(f, n))
             less == Len(Tail(rd.sizes))
  <2>1. k \in Nat /\ m \in Nat /\ more = k + 1 /\ less = m - 1
    BY <1>1, <1>6, <1>7
  <2> HIDE DEF k, m, more, less
  <2>2. more + less = k + m
    BY <2>1
  <2>3. QED
    BY <2>2 DEF k, m, more, less
<1>11. TypeOK'
  BY <1>2, <1>8, <1>9 DEF TypeOK, IInv
<1>12. HeaderRead' /\ AsWritten' /\ Returned' /\ (Sound' <=> Sound)
  BY <1>2, <1>8, ReadingGoes DEF Reading
<1>13. /\ AtCount' /\ AtSizes' /\ AtFrames' /\ OwnSizes' /\ OwnFrames'
  BY <1>9 DEF AtCount, AtSizes, AtFrames, OwnSizes, OwnFrames
<1>14. n > 0 /\ Positive(Tail(rd.sizes)) /\ Positive(Append(f, n))
  <2>1. 1 \in 1..Len(rd.sizes)
    BY <1>1, <1>6
  <2>2. n > 0
    BY <1>3, <1>6, <2>1 DEF Positive
  <2>3. \A i \in 1..Len(Tail(rd.sizes)) : i + 1 \in 1..Len(rd.sizes)
    BY <1>1, <1>6
  <2>4. Positive(Tail(rd.sizes))
    BY <1>3, <1>6, <2>3 DEF Positive
  <2>5. \A i \in 1..(Len(f) + 1) : i = Len(f) + 1 \/ i \in 1..Len(f)
    BY <1>1
  <2>6. Positive(Append(f, n))
    BY <1>3, <1>7, <2>2, <2>5 DEF Positive
  <2>7. QED
    BY <2>2, <2>4, <2>6
<1>15. AtLaced'
  <2>1. Len(block'.frames) + Len(rd'.sizes) > 1
    BY <1>1, <1>3, <1>8, <1>9, <1>10
  <2>2. Total(block'.frames) <= rd'.read
    BY <1>1, <1>3, <1>4, <1>5, <1>8, <1>9
  <2>3. Position' + Total(rd'.sizes) = stored'.body
    <3> DEFINE t == Total(Tail(rd.sizes))
               u == Total(rd.sizes)
    <3>1. u = n + t /\ t \in Nat /\ rd.base + rd.read + u = stored.body
      BY <1>3, <1>4
    <3> HIDE DEF t, u
    <3>2. (rd.base + (rd.read + n)) + t = stored.body
      BY <1>1, <1>4, <3>1
    <3>3. Position' = rd.base + (rd.read + n)
      BY <1>9 DEF Position
    <3>4. QED
      BY <1>2, <1>9, <3>2, <3>3 DEF t
  <2>4. rd'.base = HeadLen(stored'.track) /\ block'.lacing = "ebml"
    BY <1>2, <1>3, <1>8, <1>9
  <2>5. Positive(rd'.sizes) /\ Positive(block'.frames)
    BY <1>8, <1>9, <1>14
  <2>6. QED
    BY <2>1, <2>2, <2>3, <2>4, <2>5 DEF AtLaced
<1>16. OwnLaced'
  <2> SUFFICES ASSUME Sound
               PROVE  /\ Len(block'.frames) + Len(rd'.sizes) = Len(w)
                      /\ \A i \in 1..Len(block'.frames) : block'.frames[i] = w[i]
                      /\ \A i \in 1..Len(rd'.sizes) : rd'.sizes[i] = w[Len(block'.frames) + i]
                      /\ rd'.read = 1 + Widest(stored.sizes) + Total(block'.frames)
                      /\ rd'.size = Total(w)
    BY <1>2, <1>12 DEF OwnLaced
  <2>1. /\ Len(f) + Len(rd.sizes) = Len(w)
        /\ \A i \in 1..Len(f) : f[i] = w[i]
        /\ \A i \in 1..Len(rd.sizes) : rd.sizes[i] = w[Len(f) + i]
        /\ rd.read = 1 + Widest(stored.sizes) + Total(f)
        /\ rd.size = Total(w)
    BY <1>2 DEF IInv, OwnLaced
  <2>2. Len(block'.frames) + Len(rd'.sizes) = Len(w)
    BY <1>1, <1>8, <1>9, <1>10, <2>1
  <2>3. \A i \in 1..Len(block'.frames) : block'.frames[i] = w[i]
    <3>1. 1 \in 1..Len(rd.sizes)
      BY <1>1, <1>6
    <3>2. n = w[Len(f) + 1]
      BY <1>6, <2>1, <3>1
    <3>3. \A i \in 1..(Len(f) + 1) : i = Len(f) + 1 \/ i \in 1..Len(f)
      BY <1>1
    <3>4. QED
      BY <1>7, <1>8, <2>1, <3>2, <3>3
  <2>4. ASSUME NEW i \in 1..Len(rd'.sizes) PROVE rd'.sizes[i] = w[Len(block'.frames) + i]
    <3>1. i + 1 \in 1..Len(rd.sizes) /\ Len(f) + (i + 1) = (Len(f) + 1) + i
      <4> DEFINE k == Len(f)
                 m == Len(rd.sizes)
      <4>1. k \in Nat /\ m \in Nat /\ i \in 1..(m - 1)
        BY <1>1, <1>6, <1>9
      <4> HIDE DEF k, m
      <4>2. i + 1 \in 1..m /\ k + (i + 1) = (k + 1) + i
        BY <4>1
      <4>3. QED
        BY <4>2 DEF k, m
    <3>2. rd'.sizes[i] = rd.sizes[i + 1]
      BY <1>6, <1>9
    <3>3. rd.sizes[i + 1] = w[Len(f) + (i + 1)]
      BY <2>1, <3>1
    <3>4. QED
      BY <1>7, <1>8, <3>1, <3>2, <3>3
  <2>5. rd'.read = 1 + Widest(stored.sizes) + Total(block'.frames)
    <3>1. Widest(stored.sizes) \in Nat
      BY OwnIs
    <3>2. QED
      BY <1>1, <1>4, <1>5, <1>8, <1>9, <2>1, <3>1
  <2>6. QED
    BY <1>9, <2>1, <2>2, <2>3, <2>4, <2>5
<1>17. QED
  BY <1>11, <1>12, <1>13, <1>15, <1>16 DEF IInv

(* Equal frames fill the body.                                             *)
LEMMA ShareIs ==
    ASSUME IInv, rd.count > 0, ~Uneven
    PROVE  Share \in Int /\ rd.size = rd.count * Share
<1>1. rd.count \in Nat /\ rd.size \in Int
  BY TypeFacts DEF IInv
<1>2. rd.size % rd.count = 0 /\ Share = rd.size \div rd.count
  BY DEF Uneven, Share
<1>3. rd.size \div rd.count \in Int /\ rd.size = rd.count * (rd.size \div rd.count) + 0
  BY <1>1, <1>2, Remainder
<1>4. rd.count * (rd.size \div rd.count) \in Int
  BY <1>1, <1>3
<1>5. QED
  BY <1>2, <1>3, <1>4

LEMMA SharePositive ==
    ASSUME NEW n \in Nat, NEW a \in Int, n * a > 0
    PROVE  a > 0
OBVIOUS

(* The frames of a block without a lace, or with a fixed one, are equal.   *)
LEMMA OwnShareIs ==
    ASSUME IInv, Sound, rd.pc = "frames"
    PROVE  /\ ~Uneven /\ rd.count > 0 /\ rd.count = Len(stored.written)
           /\ \A i \in 1..Len(stored.written) : stored.written[i] = Share
           /\ Share > 0
<1> DEFINE w == stored.written
           n == Len(w)
           a == w[1]
<1>1. block.lacing # "ebml" /\ stored.lacing # "ebml"
  BY OwnIs DEF IInv, AtFrames, HeaderRead, Reading
<1>2. /\ n > 0 /\ n \in Nat /\ \A i \in 1..n : w[i] = a
      /\ Total(w) = n * a
  BY <1>1, OwnIs, OwnEqualIs, TypeFacts DEF IInv
<1>3. a \in Nat /\ a > 0
  <2>1. 1 \in 1..n
    BY <1>2
  <2>2. Positive(w) /\ \A i \in 1..n : w[i] \in Nat
    BY OwnIs DEF Writable
  <2>3. QED
    BY <2>1, <2>2 DEF Positive
<1>4. rd.count = n /\ rd.size = n * a
  BY <1>2 DEF IInv, OwnFrames
<1> HIDE DEF n, a
<1>5. (n * a) % n = 0 /\ (n * a) \div n = a
  BY <1>2, <1>3, Quotient
<1>6. ~Uneven /\ Share = a
  BY <1>2, <1>4, <1>5 DEF Uneven, Share
<1>7. QED
  BY <1>2, <1>3, <1>4, <1>6 DEF n

LEMMA ReadFixedFrameKeeps ==
    ASSUME IInv, ReadFixedFrame
    PROVE  IInv'
<1> DEFINE f == block.frames
           a == Share
           w == stored.written
<1>1. /\ rd \in Readers /\ rd.read \in Nat /\ rd.base \in Nat /\ rd.size \in Int
      /\ rd.count \in Int /\ block \in BlockTypes /\ f \in Seq(Nat) /\ Len(f) \in Nat
  BY TypeFacts DEF IInv, TypeOK
<1>2. /\ rd.pc = "frames" /\ rd.count > 0 /\ ~Uneven /\ Len(f) < rd.count
      /\ rd.read < rd.size /\ stored' = stored /\ outcome' = outcome
      /\ block' = [block EXCEPT !.frames = Append(f, a)]
      /\ rd' = [rd EXCEPT !.read = rd.read + a]
  BY DEF ReadFixedFrame, TakeFrame
<1>3. /\ block.lacing # "ebml" /\ rd.sizes = <<>>
      /\ block.lacing = "none" => rd.count = 1
      /\ rd.base >= HeadLen(stored.track) /\ rd.size >= 0
      /\ rd.base + rd.size = stored.body
      /\ rd.read = Total(f)
      /\ \A i \in 1..Len(f) : f[i] = a
  <2>1. f = <<>> => \A i \in 1..Len(f) : f[i] = a
    OBVIOUS
  <2>2. QED
    BY <1>2, <2>1 DEF IInv, AtFrames
<1>4. a \in Int /\ rd.size = rd.count * a
  BY <1>2, ShareIs
<1> HIDE DEF a
<1>5. a > 0 /\ a \in Nat
  <2>1. rd.count \in Nat /\ rd.count * a > 0
    BY <1>1, <1>2, <1>4
  <2>2. a > 0
    BY <1>4, <2>1, SharePositive
  <2>3. QED
    BY <1>4, <2>2
<1>6. /\ Append(f, a) \in Seq(Nat) /\ Total(Append(f, a)) = Total(f) + a
      /\ Len(Append(f, a)) = Len(f) + 1 /\ Append(f, a) # <<>>
      /\ Append(f, a)[Len(f) + 1] = a
      /\ \A i \in 1..Len(f) : Append(f, a)[i] = f[i]
  <2> HIDE DEF f
  <2>1. /\ Append(f, a) \in Seq(Nat) /\ Len(Append(f, a)) = Len(f) + 1
        /\ Append(f, a)[Len(f) + 1] = a
        /\ \A i \in 1..Len(f) : Append(f, a)[i] = f[i]
    BY <1>1, <1>5
  <2>2. Append(f, a) # <<>>
    BY <1>1, <2>1
  <2>3. Total(Append(f, a)) = Total(f) + a
    BY <1>1, <1>5, TotalIs
  <2>4. QED
    BY <2>1, <2>2, <2>3
<1>7. /\ block' \in BlockTypes /\ block'.frames = Append(f, a)
      /\ block'.lacing = block.lacing /\ block'.track = block.track
  BY <1>1, <1>2, <1>6, WithFrames
<1>8. /\ rd' \in Readers /\ rd'.pc = "frames" /\ rd'.base = rd.base /\ rd'.size = rd.size
      /\ rd'.read = rd.read + a /\ rd'.sizes = rd.sizes /\ rd'.count = rd.count
  <2>1. rd.read + a \in Nat
    BY <1>1, <1>5
  <2>2. QED
    BY <1>1, <1>2, <2>1 DEF Readers
<1>9. TypeOK'
  BY <1>2, <1>7, <1>8 DEF TypeOK, IInv
<1>10. HeaderRead' /\ AsWritten' /\ Returned' /\ (Sound' <=> Sound)
  BY <1>2, <1>7, ReadingGoes DEF Reading
<1>11. /\ AtCount' /\ AtSizes' /\ AtLaced' /\ OwnSizes' /\ OwnLaced'
  BY <1>8 DEF AtCount, AtSizes, AtLaced, OwnSizes, OwnLaced
<1>12. \A i \in 1..(Len(f) + 1) : i = Len(f) + 1 \/ i \in 1..Len(f)
  BY <1>1
<1>13. AtFrames'
  <2>1. Share' = a /\ (Uneven' <=> Uneven)
    BY <1>8 DEF Share, Uneven, a
  <2>2. \A i \in 1..Len(block'.frames) : block'.frames[i] = a
    BY <1>3, <1>6, <1>7, <1>12
  <2>3. Len(block'.frames) <= rd'.count /\ rd'.count > 0
    BY <1>1, <1>2, <1>6, <1>7, <1>8
  <2>4. rd'.read = Total(block'.frames)
    BY <1>3, <1>6, <1>7, <1>8
  <2>5. /\ block'.lacing # "ebml" /\ rd'.sizes = <<>>
        /\ block'.lacing = "none" => rd'.count = 1
        /\ rd'.base >= HeadLen(stored'.track) /\ rd'.size >= 0
        /\ rd'.base + rd'.size = stored'.body
    BY <1>2, <1>3, <1>7, <1>8
  <2>6. QED
    BY <1>2, <1>5, <2>1, <2>2, <2>3, <2>4, <2>5 DEF AtFrames
<1>14. OwnFrames'
  <2> SUFFICES ASSUME Sound
               PROVE  /\ rd'.count = Len(w) /\ rd'.size = Total(w)
                      /\ \A i \in 1..Len(block'.frames) : block'.frames[i] = w[i]
    BY <1>2, <1>10 DEF OwnFrames
  <2>1. /\ rd.count = Len(w) /\ rd.size = Total(w) /\ \A i \in 1..Len(f) : f[i] = w[i]
    BY <1>2 DEF IInv, OwnFrames
  <2>2. a = w[Len(f) + 1]
    <3>1. \A i \in 1..Len(w) : w[i] = a
      BY <1>2, OwnShareIs DEF a
    <3>2. Len(f) + 1 \in 1..Len(w)
      BY <1>1, <1>2, <2>1
    <3>3. QED
      BY <3>1, <3>2
  <2>3. QED
    BY <1>6, <1>7, <1>8, <1>12, <2>1, <2>2
<1>15. QED
  BY <1>9, <1>10, <1>11, <1>13, <1>14 DEF IInv

----------------------------------------------------------------------------
LEMMA Keeps == IInv /\ [Next]_vars => IInv'
<1> SUFFICES ASSUME IInv, [Next]_vars PROVE IInv'
  OBVIOUS
<1>1. CASE SetLacing \/ Clear \/ PushBack \/ PushRefused \/ PushUndefined \/ Resize
  BY <1>1, EditsKeep
<1>2. CASE Write
  BY <1>2, WriteKeeps
<1>3. CASE WriteFails \/ WriteTooBig \/ WriteUndefined
  BY <1>3, WriteEndsKeeps
<1>4. CASE ReadHeader
  BY <1>4, ReadHeaderKeeps
<1>5. CASE ReadCount
  BY <1>5, ReadCountKeeps
<1>6. CASE ReadSize
  BY <1>6, ReadSizeKeeps
<1>7. CASE LastSize
  BY <1>7, LastSizeKeeps
<1>8. CASE ReadLacedFrame
  BY <1>8, ReadLacedFrameKeeps
<1>9. CASE ReadFixedFrame
  BY <1>9, ReadFixedFrameKeeps
<1>10. CASE ReadHeaderFails \/ ReadSizeFails \/ ReadFramesFails \/ ReadDone
  BY <1>10, ReadEndsKeeps
<1>11. CASE UNCHANGED vars
  <2>1. block' = block /\ stored' = stored /\ rd' = rd /\ outcome' = outcome
    BY <1>11 DEF vars
  <2>2. TypeOK' /\ AsWritten' /\ (Sound' <=> Sound)
    BY <2>1, WrittenStays DEF IInv, TypeOK
  <2>3. HeaderRead' /\ Returned' /\ AtCount' /\ AtSizes' /\ AtLaced'
    BY <2>1 DEF IInv, HeaderRead, Reading, LacingRead, Returned, AtCount, AtSizes, AtLaced,
           Position
  <2>4. AtFrames'
    BY <2>1 DEF IInv, AtFrames, Uneven, Share
  <2>5. OwnSizes' /\ OwnLaced' /\ OwnFrames'
    BY <2>1, <2>2 DEF IInv, OwnSizes, OwnLaced, OwnFrames
  <2>6. QED
    BY <2>2, <2>3, <2>4, <2>5 DEF IInv
<1>12. QED
  BY <1>1, <1>2, <1>3, <1>4, <1>5, <1>6, <1>7, <1>8, <1>9, <1>10, <1>11 DEF Next

----------------------------------------------------------------------------
(* The counts and lengths of every read, and what was written, are as      *)
(* IInv says in every state that edits, writes and reads can reach.        *)
THEOREM InvariantHolds == Spec => []IInv
BY Starts, Keeps, PTL DEF Spec

(* size(), declared before the body, and write(), which counts the lace in *)
(* a loop of its own, agree: what is declared is what follows.             *)
THEOREM DeclaredIsWritten == Spec => []SizeIsWritten
<1>1. IInv => SizeIsWritten
  <2> SUFFICES ASSUME IInv, Ours, InRange(Total(stored.written))
               PROVE  stored.body = stored.present
    BY DEF SizeIsWritten
  <2>1. /\ stored.present = BeforeFrames + Total(stored.written)
        /\ stored.body = BeforeFrames + AsInt(Total(stored.written))
    BY DEF IInv, AsWritten
  <2>2. AsInt(Total(stored.written)) = Total(stored.written)
    <3>1. stored.written \in Seq(Nat)
      BY TypeFacts DEF IInv
    <3>2. Total(stored.written) \in Nat
      BY <3>1, TotalIs
    <3>3. QED
      BY <3>2, AsIntIs
  <2>3. QED
    BY <2>1, <2>2
<1>2. QED
  BY <1>1, InvariantHolds, PTL

(* Equal frames taken so far do not fill more than the body.               *)
LEMMA EqualFramesFit ==
    ASSUME IInv, rd.pc = "frames"
    PROVE  /\ Total(block.frames) \in Nat /\ Total(block.frames) <= rd.size
           /\ block.frames # <<>> => Total(block.frames) = Len(block.frames) * Share
<1> DEFINE f == block.frames
           n == Len(f)
           a == Share
<1>1. /\ f \in Seq(Nat) /\ n \in Nat /\ rd.size \in Int /\ rd.size >= 0 /\ rd.count \in Int
      /\ Total(f) \in Nat /\ Total(<<>>) = 0
  BY TypeFacts, TotalIs DEF IInv, AtFrames
<1>2. CASE f = <<>>
  BY <1>1, <1>2
<1>3. CASE f # <<>>
  <2>1. rd.count > 0 /\ ~Uneven /\ n <= rd.count /\ a > 0 /\ \A i \in 1..n : f[i] = a
    BY <1>3 DEF IInv, AtFrames
  <2>2. a \in Int /\ rd.size = rd.count * a
    BY <2>1, ShareIs
  <2> HIDE DEF a
  <2>3. a \in Nat /\ rd.count \in Nat
    BY <1>1, <2>1, <2>2
  <2>4. Total(f) = n * a
    <3> HIDE DEF f
    <3>1. QED
      BY <1>1, <2>1, <2>3, TotalEqual
  <2> HIDE DEF n
  <2>5. n * a <= rd.count * a
    BY <1>1, <2>1, <2>3, AtMost
  <2>6. QED
    BY <1>1, <2>2, <2>4, <2>5 DEF n, a
<1>4. QED
  BY <1>2, <1>3

(* Whatever a lace header says and whatever follows it, read() takes no    *)
(* frame from behind the end of the block.                                 *)
THEOREM ReaderStaysInside == Spec => []FramesInsideBody
<1>1. IInv => FramesInsideBody
  <2> SUFFICES ASSUME IInv, rd.pc \in {"laced", "frames"}
               PROVE  /\ Position + Total(rd.sizes) <= stored.body
                      /\ HeadLen(block.track) + Total(block.frames) <= stored.body
    BY DEF FramesInsideBody
  <2> DEFINE t == Total(block.frames)
             u == Total(rd.sizes)
             h == HeadLen(stored.track)
  <2>1. /\ rd.base \in Nat /\ rd.read \in Nat /\ rd.size \in Int /\ stored.body \in Nat
        /\ t \in Nat /\ u \in Nat /\ h \in Nat /\ Total(<<>>) = 0
    BY TypeFacts, TotalIs DEF IInv
  <2>2. HeadLen(block.track) = h
    BY DEF IInv, HeaderRead, Reading
  <2>3. CASE rd.pc = "laced"
    <3>1. rd.base = h /\ t <= rd.read /\ rd.base + rd.read + u = stored.body
      BY <2>3 DEF IInv, AtLaced, Position
    <3> HIDE DEF t, u, h
    <3>2. rd.base + rd.read + u <= stored.body /\ h + t <= stored.body
      BY <2>1, <3>1
    <3>3. QED
      BY <2>2, <3>2 DEF t, u, Position
  <2>4. CASE rd.pc = "frames"
    <3>1. /\ u = 0 /\ rd.base >= h /\ rd.base + rd.size = stored.body /\ rd.read = t
      BY <2>1, <2>4 DEF IInv, AtFrames
    <3>2. t <= rd.size
      BY <2>4, EqualFramesFit
    <3> HIDE DEF t, u, h
    <3>3. rd.base + rd.read + u <= stored.body /\ h + t <= stored.body
      BY <2>1, <3>1, <3>2
    <3>4. QED
      BY <2>2, <3>3 DEF t, u, Position
  <2>5. QED
    BY <2>3, <2>4
<1>2. QED
  BY <1>1, InvariantHolds, PTL

(* A block that read() returns, whoever wrote it and however its lace      *)
(* header lies, is one that validate() takes and that size() and write()   *)
(* walk without leaving its frames.                                        *)
THEOREM ReadIsWritable == Spec => AcceptedIsWritable
<1>1. IInv' => (outcome' = "read" => (Fault(block') = "ok" /\ ~Undefined(block')))
  <2> SUFFICES ASSUME IInv', outcome' = "read"
               PROVE  Fault(block') = "ok" /\ ~Undefined(block')
    OBVIOUS
  <2>1. block' \in BlockTypes /\ Writable(block'.lacing, block'.frames)
    BY DEF IInv, TypeOK, Returned
  <2>2. QED
    BY <2>1, FaultIs
<1>2. QED
  BY <1>1, InvariantHolds, PTL DEF AcceptedIsWritable

----------------------------------------------------------------------------
(* A block of this library's on the way back: no step of read() fails.     *)
LEMMA OwnLaceGoesOn ==
    ASSUME IInv, Sound, rd.pc = "laced", rd.sizes # <<>>
    PROVE  rd.read < rd.size /\ Has(Head(rd.sizes))
<1> DEFINE f == block.frames
           w == stored.written
           m == Len(f)
           n == Len(w)
<1>1. /\ rd.sizes \in Seq(Nat) /\ Len(rd.sizes) \in Nat /\ f \in Seq(Nat) /\ m \in Nat
      /\ w \in Seq(Nat) /\ n \in Nat /\ Position \in Nat
  BY TypeFacts DEF IInv
<1>2. /\ m + Len(rd.sizes) = n /\ \A i \in 1..m : f[i] = w[i]
      /\ rd.read = 1 + Widest(stored.sizes) + Total(f) /\ rd.size = Total(w)
      /\ Position + Total(rd.sizes) = stored.body /\ stored.lacing = "ebml"
  BY OwnIs DEF IInv, OwnLaced, AtLaced, HeaderRead, Reading
<1>3. m \in 0..(n - 1) /\ n \in 1..n /\ n - 1 \in 0..n /\ m <= n /\ m <= n - 1 /\ m \in 0..n
  <2>1. Len(rd.sizes) > 0
    BY <1>1
  <2> HIDE DEF m, n
  <2>2. QED
    BY <1>1, <1>2, <2>1
<1>4. rd.read < rd.size
  <2> DEFINE x == Sums(w)[m]
             y == Sums(w)[n - 1]
             z == w[n]
             v == Widest(stored.sizes)
  <2>1. Total(f) = x
    <3> HIDE DEF f, w
    <3>1. QED
      BY <1>1, <1>2, <1>3, SumsAgree DEF Total, m
  <2>2. x <= y /\ x \in Nat /\ y \in Nat
    BY <1>1, <1>3, SumsGrow, SumsNat
  <2>3. Total(w) = y + z
    BY <1>1, <1>3, SumsStep DEF Total
  <2>4. z > 1 + v /\ v \in Nat /\ z \in Nat
    BY <1>1, <1>2, <1>3, OwnLaceIs, OwnIs
  <2>5. rd.read = 1 + v + x /\ rd.size = y + z
    BY <1>2, <2>1, <2>3
  <2> HIDE DEF x, y, z, v
  <2>6. QED
    BY <2>2, <2>4, <2>5
<1>5. Has(Head(rd.sizes))
  <2>1. /\ Total(rd.sizes) = Head(rd.sizes) + Total(Tail(rd.sizes))
        /\ Head(rd.sizes) \in Nat /\ Total(Tail(rd.sizes)) \in Nat
    BY <1>1, TotalTail, TotalIs
  <2>2. stored.present = stored.body
    BY OwnIs
  <2> DEFINE h == Head(rd.sizes)
             t == Total(Tail(rd.sizes))
             u == Total(rd.sizes)
             p == Position
  <2>3. u = h + t /\ h \in Nat /\ t \in Nat /\ p \in Nat /\ p + u = stored.present
    BY <1>1, <1>2, <2>1, <2>2
  <2> HIDE DEF h, t, u, p
  <2>4. p + h <= stored.present
    BY <2>3
  <2>5. QED
    BY <2>4 DEF h, p, Has
<1>6. QED
  BY <1>4, <1>5

LEMMA OneMore ==
    ASSUME NEW n \in Nat, NEW a \in Nat
    PROVE  (n + 1) * a = n * a + a /\ n * a \in Nat
OBVIOUS

LEMMA OwnFramesGoOn ==
    ASSUME IInv, Sound, rd.pc = "frames", Len(block.frames) < rd.count
    PROVE  rd.read < rd.size /\ Has(Share)
<1> DEFINE f == block.frames
           n == Len(f)
           a == Share
<1>1. /\ n \in Nat /\ rd.count \in Nat /\ rd.base \in Nat /\ rd.size \in Int
      /\ ~Uneven /\ rd.count > 0 /\ a > 0
  BY OwnShareIs, TypeFacts DEF IInv
<1>2. a \in Int /\ rd.size = rd.count * a
  BY <1>1, ShareIs
<1> HIDE DEF a
<1>3. a \in Nat
  BY <1>1, <1>2
<1>4. rd.read = n * a
  <2>1. rd.read = Total(f)
    BY DEF IInv, AtFrames
  <2>2. CASE f = <<>>
    <3>1. n = 0 /\ rd.read = 0
      BY <2>1, <2>2, TotalIs, EmptySeq
    <3>2. 0 * a = 0
      BY <1>3
    <3>3. QED
      BY <3>1, <3>2
  <2>3. CASE f # <<>>
    BY <2>1, <2>3, EqualFramesFit DEF a
  <2>4. QED
    BY <2>2, <2>3
<1>5. rd.base + rd.size = stored.present
  BY OwnIs DEF IInv, AtFrames
<1>6. n + 1 \in Nat /\ n + 1 <= rd.count
  BY <1>1
<1> HIDE DEF n
<1>7. n * a + a <= rd.count * a /\ n * a \in Nat
  <2>1. (n + 1) * a <= rd.count * a
    BY <1>1, <1>3, <1>6, AtMost
  <2>2. QED
    BY <1>1, <1>3, <2>1, OneMore
<1> DEFINE x == n * a
           y == rd.count * a
<1>8. /\ rd.read = x /\ rd.size = y /\ x + a <= y /\ x \in Nat /\ rd.size \in Int
      /\ rd.base + rd.size = stored.present
  BY <1>1, <1>2, <1>4, <1>5, <1>7
<1> HIDE DEF x, y
<1>9. rd.read < rd.size /\ (rd.base + rd.read) + a <= stored.present
  BY <1>1, <1>3, <1>8
<1>10. QED
  BY <1>9 DEF Has, Position, a

LEMMA OwnNeverFails ==
    ASSUME IInv, Sound
    PROVE  /\ ~ReadSizeFails /\ ~ReadFramesFails
           /\ LastSize => rd'.pc = "laced"
<1>1. ASSUME ReadSizeFails PROVE FALSE
  <2>1. /\ rd.pc = "sizes" /\ MoreSizes
        /\ \E s \in Next1 : ~Has(s.width) \/ TooWide(s) \/ Decoded(s) = 0 \/ Decoded(s) < 0
    BY <1>1 DEF ReadSizeFails
  <2>2. PICK s \in Next1 : ~Has(s.width) \/ TooWide(s) \/ Decoded(s) = 0 \/ Decoded(s) < 0
    BY <2>1
  <2>3. /\ Decoded(s) = stored.written[Len(rd.sizes) + 1]
        /\ stored.written[Len(rd.sizes) + 1] > 0 /\ ~TooWide(s) /\ Has(s.width)
    BY <2>1, OwnNextIs
  <2>4. Decoded(s) \in Int
    BY NextIs
  <2> DEFINE d == Decoded(s)
  <2>5. d > 0 /\ d \in Int /\ (d = 0 \/ d < 0)
    BY <2>2, <2>3, <2>4
  <2> HIDE DEF d
  <2>6. QED
    BY <2>5
<1>2. ASSUME ReadFramesFails PROVE FALSE
  <2>1. CASE rd.pc = "count" /\ ~Has(1)
    <3>1. /\ block.lacing # "none" /\ rd.base = HeadLen(stored.track) /\ rd.read = 0
          /\ block.lacing = stored.lacing
      BY <2>1, OwnIs DEF IInv, AtCount, HeaderRead, Reading
    <3>2. CountLen(stored.lacing) = 1
      BY <3>1 DEF CountLen
    <3> DEFINE h == HeadLen(stored.track)
               v == Widest(stored.sizes)
               t == Total(stored.written)
    <3>3. /\ rd.base = h /\ rd.read = 0 /\ h \in Nat /\ v \in Nat /\ t \in Nat
          /\ stored.present = h + 1 + v + t
      BY <3>1, <3>2, OwnIs, TypeFacts DEF IInv
    <3> HIDE DEF h, v, t
    <3>4. (rd.base + rd.read) + 1 <= stored.present
      BY <3>3
    <3>5. QED
      BY <2>1, <3>4 DEF Has, Position
  <2>2. CASE /\ rd.pc = "laced" /\ rd.sizes # <<>>
             /\ rd.read >= rd.size \/ ~Has(Head(rd.sizes))
    <3>1. rd.read < rd.size /\ Has(Head(rd.sizes))
      BY <2>2, OwnLaceGoesOn
    <3>2. rd.read \in Nat /\ rd.size \in Int
      BY TypeFacts DEF IInv
    <3>3. QED
      BY <2>2, <3>1, <3>2
  <2>3. CASE rd.pc = "frames"
    <3>1. ~Uneven /\ rd.count > 0 /\ rd.count \in Int
      BY <2>3, OwnShareIs, TypeFacts DEF IInv
    <3>2. rd.count # 0 /\ ~(rd.count < 0)
      BY <3>1
    <3>3. Len(block.frames) < rd.count /\ (rd.read >= rd.size \/ ~Has(Share))
      BY <1>2, <2>3, <3>1, <3>2 DEF ReadFramesFails
    <3>4. rd.read < rd.size /\ Has(Share)
      BY <2>3, <3>3, OwnFramesGoOn
    <3>5. rd.read \in Nat /\ rd.size \in Int
      BY TypeFacts DEF IInv
    <3>6. QED
      BY <3>3, <3>4, <3>5
  <2>4. QED
    BY <1>2, <2>1, <2>2, <2>3 DEF ReadFramesFails
<1>3. ASSUME LastSize PROVE rd'.pc = "laced"
  <2>1. rd.pc = "sizes" /\ ~MoreSizes /\ rd \in Readers
    BY <1>3 DEF LastSize, IInv, TypeOK
  <2>2. rd.left > 0
    BY <2>1, OwnLeftIs
  <2>3. rd' = [rd EXCEPT !.pc = "laced", !.size = rd.size - rd.read,
                         !.sizes = Append(rd.sizes, rd.left)]
    BY <1>3, <2>2 DEF LastSize, Leftover, Goes
  <2>4. QED
    BY <2>1, <2>3 DEF Readers
<1>4. QED
  BY <1>1, <1>2, <1>3

(* When every frame has been taken, they are the frames that were written, *)
(* and they end where the body does.                                       *)
LEMMA OwnComesBack ==
    ASSUME IInv, Sound, AllFrames
    PROVE  /\ Position = stored.body
           /\ block = [track |-> stored.track, lacing |-> stored.lacing,
                       frames |-> stored.written]
<1> DEFINE f == block.frames
           w == stored.written
<1>1. /\ f \in Seq(Nat) /\ Len(f) \in Nat /\ w \in Seq(Nat) /\ Len(w) \in Nat
      /\ block \in BlockTypes /\ Position \in Nat
  BY TypeFacts DEF IInv, TypeOK
<1>2. rd.pc # "idle" => block = [track |-> stored.track, lacing |-> stored.lacing, frames |-> f]
  BY <1>1, OwnIs DEF IInv, HeaderRead, Reading, BlockTypes
<1>3. CASE rd.pc = "laced" /\ rd.sizes = <<>>
  <2>1. Len(f) + Len(<<>>) = Len(w) /\ \A i \in 1..Len(f) : f[i] = w[i]
    BY <1>3 DEF IInv, OwnLaced
  <2>2. Len(f) = Len(w)
    BY <1>1, <2>1, EmptySeq
  <2>3. f = w
    <3> HIDE DEF f, w
    <3>1. QED
      BY <1>1, <2>1, <2>2, SeqEqual
  <2>4. Position + Total(<<>>) = stored.body /\ Total(<<>>) = 0
    BY <1>1, <1>3, TotalIs DEF IInv, AtLaced
  <2>5. Position = stored.body
    BY <1>1, <2>4
  <2>6. QED
    BY <1>2, <1>3, <2>3, <2>5
<1>4. CASE rd.pc = "frames" /\ rd.count > 0 /\ Len(f) = rd.count
  <2>1. /\ rd.count = Len(w) /\ rd.size = Total(w) /\ \A i \in 1..Len(f) : f[i] = w[i]
    BY <1>4 DEF IInv, OwnFrames
  <2>2. f = w
    <3> HIDE DEF f, w
    <3>1. QED
      BY <1>1, <1>4, <2>1, SeqEqual
  <2>3. rd.base + rd.size = stored.body /\ rd.read = Total(f)
    BY <1>4 DEF IInv, AtFrames
  <2>4. QED
    BY <1>2, <1>4, <2>1, <2>2, <2>3 DEF Position
<1>5. QED
  BY <1>3, <1>4 DEF AllFrames

(* A block that write() put into the stream, its count and its last frame  *)
(* such that Sound holds, comes back from read() as it was: no read of it  *)
(* ends in an exception, in the middle of the body or with other frames.   *)
THEOREM WrittenIsRead == Spec => RoundTrip
<1>1. IInv /\ [Next]_vars =>
        ((Reading /\ Sound /\ ~Reading') => (outcome' = "read" /\ ReadBack'))
  <2> SUFFICES ASSUME IInv, [Next]_vars, Reading, Sound, ~Reading'
               PROVE  outcome' = "read" /\ ReadBack'
    OBVIOUS
  <2>1. rd \in Readers /\ rd.pc # "idle" /\ rd'.pc = "idle"
    BY DEF IInv, TypeOK, Reading
  <2>2. ~Idle
    BY <2>1 DEF Idle
  <2>3. ~(SetLacing \/ Clear \/ PushBack \/ PushRefused \/ PushUndefined \/ Resize)
    BY <2>2 DEF SetLacing, Clear, PushBack, PushRefused, PushUndefined, Resize, Filling
  <2>4. ~(Write \/ WriteFails \/ WriteTooBig \/ WriteUndefined \/ ReadHeader \/ ReadHeaderFails)
    BY <2>2 DEF Write, WriteFails, WriteTooBig, WriteUndefined, ReadHeader, ReadHeaderFails
  <2>5. ~ReadCount
    BY <2>1 DEF ReadCount, Goes, Readers
  <2>6. ~ReadSize
    <3> SUFFICES ASSUME ReadSize PROVE FALSE
      OBVIOUS
    <3>1. rd.pc = "sizes" /\ \E a, b, c : rd' = [rd EXCEPT !.read = a, !.sizes = b, !.left = c]
      BY DEF ReadSize, Goes
    <3>2. rd'.pc = "sizes"
      BY <2>1, <3>1 DEF Readers
    <3>3. QED
      BY <2>1, <3>2
  <2>7. ~ReadLacedFrame /\ ~ReadFixedFrame
    BY <2>1 DEF ReadLacedFrame, ReadFixedFrame, Readers
  <2>8. ~ReadSizeFails /\ ~ReadFramesFails /\ ~LastSize
    BY <2>1, OwnNeverFails
  <2>9. ~UNCHANGED vars
    BY <2>1 DEF vars
  <2>10. ReadDone
    BY <2>3, <2>4, <2>5, <2>6, <2>7, <2>8, <2>9 DEF Next
  <2>11. AllFrames /\ block' = block /\ stored' = stored
    BY <2>10 DEF ReadDone
  <2>12. /\ Position = stored.body
         /\ block = [track |-> stored.track, lacing |-> stored.lacing,
                     frames |-> stored.written]
    BY <2>11, OwnComesBack
  <2>13. outcome' = "read"
    BY <2>10, <2>12 DEF ReadDone
  <2>14. ReadBack'
    BY <2>11, <2>12 DEF ReadBack
  <2>15. QED
    BY <2>13, <2>14
<1>2. QED
  BY <1>1, InvariantHolds, PTL DEF Spec, RoundTrip

=============================================================================
