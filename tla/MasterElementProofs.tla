------------------------ MODULE MasterElementProofs ------------------------
(***************************************************************************)
(* What is written of an object is read back, and what is read is what the *)
(* body means, for every class in the tables.  What makes the properties   *)
(* inductive: while a body is read, the object holds what the items read   *)
(* so far mean, and the count is where they end.                           *)
(***************************************************************************)
EXTENDS MasterElement, SequenceTheorems, WellFoundedInduction, TLAPS

ItemSet == [child : Children \cup {Stranger, Ignored}, value : Values]

TypeInv ==
    /\ kind \in DOMAIN Table
    /\ obj = [c \in Children |-> obj[c]]
    /\ body = [items |-> body.items, size |-> body.size]
    /\ body.items \in Seq(ItemSet) /\ body.size \in Nat
    /\ rd = [next |-> rd.next, read |-> rd.read, seen |-> rd.seen]
    /\ rd.next \in Nat /\ rd.read \in Nat /\ rd.seen \subseteq Children
    /\ Reading <=> outcome = "reading"

(* An object as the client can make it.                                    *)
FilledBy(o) ==
    /\ o = [c \in Children |-> o[c]]
    /\ \A c \in Children :
          IF Rows[c].list
          THEN /\ o[c] \in Seq(Rows[c].legal)
               /\ Rows[c].keyed => o[c] = Ascending(ToSet(o[c]))
          ELSE o[c] \in Rows[c].set \cup {Rows[c].new}

FillInv == Filling => FilledBy(obj)

(* A body nobody has edited is what was written; nothing else is in it but *)
(* what is ignored.                                                        *)
SentInv ==
    sent # <<>> =>
        /\ FilledBy(sent)
        /\ body.size = Bytes(body.items)
        /\ NothingIgnored => body.items = Written(sent)

(* The first k items have been read.                                       *)
CountInv(k) ==
    NothingIgnored =>
        /\ rd.read = Ends(body.items)[k]
        /\ k > 0 => Ends(body.items)[k - 1] < body.size

ItemsInv(k) ==
    /\ \A i \in 1..k :
          /\ body.items[i].child \in Children \cup {Ignored}
          /\ body.items[i].child \in Children =>
                Legal(body.items[i].child, body.items[i].value)
    /\ kind \in Pairs =>
          \E c \in Children : \A i \in 1..(k - 1) : body.items[i].child # c

ObjectInv(k) ==
    \A c \in Children :
        /\ c \in rd.seen <=> Found(c)[k] # <<>>
        /\ Rows[c].keyed => IsInjective(Found(c)[k])
        /\ Means(k, c, obj[c]) \/ (kind = "SeekElement" /\ Found(c)[k] = <<>>)
        /\ LeftUndefined(c) => obj[c] \in Values

ReadInv(k) == rd.next = k + 1 /\ CountInv(k) /\ ItemsInv(k) /\ ObjectInv(k)

ReadingInv == Reading => \E k \in Cuts : ReadInv(k)

IInv ==
    /\ TypeInv /\ FillInv /\ SentInv /\ ReadingInv
    /\ AcceptedIsWritable

----------------------------------------------------------------------------
(* The least-number principle, for a set, and induction up to a number.    *)
LEMMA LeastOf ==
    ASSUME NEW T, T \subseteq Nat, T # {}
    PROVE  \E x \in T : \A y \in T : x <= y
<1> DEFINE R == OpToRel(<, Nat)
<1>1. \A x, y \in Nat : <<y, x>> \in R <=> y < x
  BY DEF OpToRel
<1>2. IsWellFoundedOn(R, Nat)
  BY NatLessThanWellFounded
<1> HIDE DEF R
<1>3. PICK x \in T : \A y \in T : <<y, x>> \notin R
  BY <1>2, WFMin
<1>4. ASSUME NEW y \in T PROVE x <= y
  <2>1. x \in Nat /\ y \in Nat
    OBVIOUS
  <2>2. ~(y < x)
    BY <1>1, <1>3, <2>1
  <2>3. QED
    BY <2>1, <2>2
<1>5. QED
  BY <1>4

LEMMA Upto ==
    ASSUME NEW n \in Nat, NEW G, 0 \in G, \A i \in 1..n : i - 1 \in G => i \in G
    PROVE  \A i \in 0..n : i \in G
<1> DEFINE Out == {i \in 0..n : i \notin G}
<1> SUFFICES ASSUME Out # {} PROVE FALSE
  OBVIOUS
<1>1. Out \subseteq Nat
  OBVIOUS
<1>2. PICK m \in Out : \A i \in Out : m <= i
  BY <1>1, LeastOf
<1>3. m \in 1..n /\ m - 1 \in 0..n
  BY <1>2
<1>4. m - 1 \in G
  BY <1>2, <1>3
<1>5. QED
  BY <1>2, <1>3, <1>4

----------------------------------------------------------------------------
(* Running totals.                                                         *)

(* The recursive definition has the one solution it should have.           *)
LEMMA TotalsStep ==
    ASSUME NEW ns \in Seq(Nat)
    PROVE  /\ Totals(ns) \in [0..Len(ns) -> Nat] /\ Totals(ns)[0] = 0
           /\ \A i \in 1..Len(ns) : Totals(ns)[i] = Totals(ns)[i - 1] + ns[i]
<1> DEFINE n == Len(ns)
           Adds(f, m) == f[0] = 0 /\ \A i \in 1..m : f[i] = f[i - 1] + ns[i]
           With == {m \in 0..n : \E f \in [0..m -> Nat] : Adds(f, m)}
<1>0. n \in Nat /\ \A i \in 1..n : ns[i] \in Nat
  OBVIOUS
<1> HIDE DEF n
<1>1. 0 \in With
  <2>1. Adds([i \in 0..0 |-> 0], 0) /\ [i \in 0..0 |-> 0] \in [0..0 -> Nat]
    OBVIOUS
  <2>2. 0 \in 0..n
    BY <1>0
  <2> HIDE DEF Adds
  <2>3. QED
    BY <2>1, <2>2
<1>2. ASSUME NEW m \in 1..n, m - 1 \in With PROVE m \in With
  <2>1. PICK f \in [0..(m - 1) -> Nat] : Adds(f, m - 1)
    BY <1>2
  <2> DEFINE g == [i \in 0..m |-> IF i = m THEN f[m - 1] + ns[m] ELSE f[i]]
  <2>2. m \in Nat /\ f[m - 1] \in Nat /\ ns[m] \in Nat /\ m - 1 \in 0..m
    BY <1>0, <2>1
  <2>3. g \in [0..m -> Nat]
    BY <2>1, <2>2
  <2>4. \A i \in 0..(m - 1) : g[i] = f[i]
    BY <2>2
  <2>5. g[m] = g[m - 1] + ns[m] /\ g[0] = 0
    BY <2>1, <2>2, <2>4
  <2> HIDE DEF g
  <2>6. \A i \in 1..m : i # m => g[i] = g[i - 1] + ns[i]
    <3> SUFFICES ASSUME NEW i \in 1..m, i # m PROVE g[i] = g[i - 1] + ns[i]
      OBVIOUS
    <3>1. i \in 1..(m - 1) /\ i \in 0..(m - 1) /\ i - 1 \in 0..(m - 1)
      BY <2>2
    <3>2. g[i] = f[i] /\ g[i - 1] = f[i - 1]
      BY <2>4, <3>1
    <3>3. QED
      BY <2>1, <3>1, <3>2
  <2>7. Adds(g, m)
    BY <2>5, <2>6
  <2>8. m \in 0..n
    BY <1>0
  <2>9. QED
    BY <2>3, <2>7, <2>8
<1>3. n \in With
  <2> HIDE DEF With
  <2>1. \A m \in 0..n : m \in With
    BY <1>0, <1>1, <1>2, Upto
  <2>2. QED
    BY <1>0, <2>1
<1>4. PICK f \in [0..n -> Nat] : Adds(f, n)
  BY <1>3
<1> DEFINE T == Totals(ns)
<1>5. f = [i \in 0..n |-> IF i = 0 THEN 0 ELSE f[i - 1] + ns[i]]
  BY <1>4
<1>6. T = [i \in 0..n |-> IF i = 0 THEN 0 ELSE T[i - 1] + ns[i]]
  BY <1>5 DEF Totals, n
<1> HIDE DEF T
<1>7. T[0] = 0
  BY <1>0, <1>6
<1>8. \A i \in 1..n : T[i] = T[i - 1] + ns[i]
  <2> SUFFICES ASSUME NEW i \in 1..n PROVE T[i] = T[i - 1] + ns[i]
    OBVIOUS
  <2>1. i \in 0..n /\ i # 0
    BY <1>0
  <2>2. QED
    BY <1>6, <2>1
<1>9. \A i \in 0..n : T[i] \in Nat
  <2> DEFINE G == {i \in 0..n : T[i] \in Nat}
  <2>1. 0 \in G
    BY <1>0, <1>7
  <2>2. ASSUME NEW i \in 1..n, i - 1 \in G PROVE i \in G
    <3>1. T[i - 1] \in Nat /\ ns[i] \in Nat /\ i \in 0..n
      BY <1>0, <2>2
    <3>2. QED
      BY <1>8, <3>1
  <2> HIDE DEF G
  <2>3. \A i \in 0..n : i \in G
    BY <1>0, <2>1, <2>2, Upto
  <2>4. QED
    BY <2>3 DEF G
<1>10. T \in [0..n -> Nat]
  BY <1>6, <1>9
<1>11. QED
  BY <1>7, <1>8, <1>10 DEF T, n

(* The same for sequences put behind one another.                          *)
LEMMA JoinsStep ==
    ASSUME NEW S, NEW ss \in Seq(Seq(S))
    PROVE  /\ Joins(ss) \in [0..Len(ss) -> Seq(S)] /\ Joins(ss)[0] = <<>>
           /\ \A i \in 1..Len(ss) : Joins(ss)[i] = Joins(ss)[i - 1] \o ss[i]
<1> DEFINE n == Len(ss)
           Puts(f, m) == f[0] = <<>> /\ \A i \in 1..m : f[i] = f[i - 1] \o ss[i]
           With == {m \in 0..n : \E f \in [0..m -> Seq(S)] : Puts(f, m)}
<1>0. n \in Nat /\ \A i \in 1..n : ss[i] \in Seq(S)
  OBVIOUS
<1> HIDE DEF n
<1>1. 0 \in With
  <2>1. <<>> \in Seq(S)
    OBVIOUS
  <2>2. Puts([i \in 0..0 |-> <<>>], 0) /\ [i \in 0..0 |-> <<>>] \in [0..0 -> Seq(S)]
    BY <2>1
  <2>3. 0 \in 0..n
    BY <1>0
  <2> HIDE DEF Puts
  <2>4. QED
    BY <2>2, <2>3
<1>2. ASSUME NEW m \in 1..n, m - 1 \in With PROVE m \in With
  <2>1. PICK f \in [0..(m - 1) -> Seq(S)] : Puts(f, m - 1)
    BY <1>2
  <2> DEFINE x == f[m - 1] \o ss[m]
             g == [i \in 0..m |-> IF i = m THEN x ELSE f[i]]
  <2>2. m \in Nat /\ f[m - 1] \in Seq(S) /\ ss[m] \in Seq(S) /\ m - 1 \in 0..m
    BY <1>0, <2>1
  <2>3. x \in Seq(S)
    BY <2>2
  <2> HIDE DEF x
  <2>4. g \in [0..m -> Seq(S)]
    BY <2>1, <2>2, <2>3
  <2>5. \A i \in 0..(m - 1) : g[i] = f[i]
    BY <2>2
  <2>6. g[m] = x /\ g[0] = <<>> /\ g[m - 1] = f[m - 1]
    BY <2>1, <2>2, <2>5
  <2>11. g[m] = g[m - 1] \o ss[m]
    BY <2>6 DEF x
  <2> HIDE DEF g
  <2>7. \A i \in 1..m : i # m => g[i] = g[i - 1] \o ss[i]
    <3> SUFFICES ASSUME NEW i \in 1..m, i # m PROVE g[i] = g[i - 1] \o ss[i]
      OBVIOUS
    <3>1. i \in 1..(m - 1) /\ i \in 0..(m - 1) /\ i - 1 \in 0..(m - 1)
      BY <2>2
    <3>2. g[i] = f[i] /\ g[i - 1] = f[i - 1]
      BY <2>5, <3>1
    <3>3. QED
      BY <2>1, <3>1, <3>2
  <2>8. Puts(g, m)
    BY <2>6, <2>11, <2>7
  <2>9. m \in 0..n
    BY <1>0
  <2>10. QED
    BY <2>4, <2>8, <2>9
<1>3. n \in With
  <2> HIDE DEF With
  <2>1. \A m \in 0..n : m \in With
    BY <1>0, <1>1, <1>2, Upto
  <2>2. QED
    BY <1>0, <2>1
<1>4. PICK f \in [0..n -> Seq(S)] : Puts(f, n)
  BY <1>3
<1> DEFINE J == Joins(ss)
<1>5. f = [i \in 0..n |-> IF i = 0 THEN <<>> ELSE f[i - 1] \o ss[i]]
  <2>1. \A i \in 0..n : i # 0 => i \in 1..n
    OBVIOUS
  <2>2. \A i \in 0..n : f[i] = IF i = 0 THEN <<>> ELSE f[i - 1] \o ss[i]
    BY <1>4, <2>1
  <2>3. QED
    BY <1>4, <2>2, Zenon
<1>6. J = [i \in 0..n |-> IF i = 0 THEN <<>> ELSE J[i - 1] \o ss[i]]
  BY <1>5 DEF Joins, n
<1> HIDE DEF J
<1>7. J[0] = <<>>
  BY <1>0, <1>6
<1>8. \A i \in 1..n : J[i] = J[i - 1] \o ss[i]
  <2> SUFFICES ASSUME NEW i \in 1..n PROVE J[i] = J[i - 1] \o ss[i]
    OBVIOUS
  <2>1. i \in 0..n /\ i # 0
    BY <1>0
  <2>2. QED
    BY <1>6, <2>1
<1>9. \A i \in 0..n : J[i] \in Seq(S)
  <2> DEFINE G == {i \in 0..n : J[i] \in Seq(S)}
  <2>1. 0 \in G
    <3>1. 0 \in 0..n /\ <<>> \in Seq(S)
      BY <1>0
    <3>2. QED
      BY <1>7, <3>1
  <2>2. ASSUME NEW i \in 1..n, i - 1 \in G PROVE i \in G
    <3>1. J[i - 1] \in Seq(S) /\ ss[i] \in Seq(S) /\ i \in 0..n
      BY <1>0, <2>2
    <3>2. J[i - 1] \o ss[i] \in Seq(S)
      BY <3>1
    <3>3. QED
      BY <1>8, <3>1, <3>2
  <2> HIDE DEF G
  <2>3. \A i \in 0..n : i \in G
    BY <1>0, <2>1, <2>2, Upto
  <2>4. QED
    BY <2>3 DEF G
<1>10. J \in [0..n -> Seq(S)]
  BY <1>6, <1>9
<1>11. QED
  BY <1>7, <1>8, <1>10 DEF J, n

----------------------------------------------------------------------------
(* Items: where they end, and the values of a child among them.            *)

AnyItem == [child : Int, value : Nat]

LEMMA EndsStep ==
    ASSUME NEW items \in Seq(AnyItem)
    PROVE  /\ Ends(items) \in [0..Len(items) -> Nat] /\ Ends(items)[0] = 0
           /\ \A i \in 1..Len(items) :
                 /\ ItemLen(items[i]) \in Nat \ {0}
                 /\ Ends(items)[i] = Ends(items)[i - 1] + ItemLen(items[i])
           /\ Bytes(items) \in Nat
<1> DEFINE ns == [i \in DOMAIN items |-> ItemLen(items[i])]
<1>1. \A i \in 1..Len(items) : items[i] \in AnyItem
  OBVIOUS
<1>2. \A i \in 1..Len(items) : ItemLen(items[i]) \in Nat \ {0}
  BY <1>1 DEF AnyItem, ItemLen, IdLen
<1>3. DOMAIN items = 1..Len(items) /\ Len(items) \in Nat
  OBVIOUS
<1>4. ns \in Seq(Nat) /\ Len(ns) = Len(items)
  BY <1>2, <1>3
<1>5. \A i \in 1..Len(items) : ns[i] = ItemLen(items[i])
  BY <1>3
<1>6. Ends(items) = Totals(ns)
  BY DEF Ends
<1> HIDE DEF ns
<1>7. Ends(items) \in [0..Len(items) -> Nat] /\ Ends(items)[0] = 0
  BY <1>4, <1>6, TotalsStep
<1>8. \A i \in 1..Len(items) : Ends(items)[i] = Ends(items)[i - 1] + ItemLen(items[i])
  BY <1>4, <1>5, <1>6, TotalsStep
<1>9. QED
  BY <1>2, <1>3, <1>7, <1>8 DEF Bytes

LEMMA EndsGrow ==
    ASSUME NEW items \in Seq(AnyItem), NEW j \in 0..Len(items), NEW k \in 0..Len(items), j < k
    PROVE  Ends(items)[j] < Ends(items)[k]
<1> DEFINE n == Len(items)
           E == Ends(items)
           G == {i \in 0..n : j < i => E[j] < E[i]}
<1>1. n \in Nat /\ E \in [0..n -> Nat]
  BY EndsStep
<1>2. \A i \in 1..n : E[i - 1] < E[i]
  <2> SUFFICES ASSUME NEW i \in 1..n PROVE E[i - 1] < E[i]
    OBVIOUS
  <2>1. i \in 0..n /\ i - 1 \in 0..n /\ E[i - 1] \in Nat /\ E[i] \in Nat
    BY <1>1
  <2>2. E[i] = E[i - 1] + ItemLen(items[i]) /\ ItemLen(items[i]) \in Nat \ {0}
    BY EndsStep
  <2>3. QED
    BY <2>1, <2>2
<1> HIDE DEF n, E
<1>3. 0 \in G
  BY <1>1 DEF n
<1>4. ASSUME NEW i \in 1..n, i - 1 \in G PROVE i \in G
  <2>1. i \in 0..n /\ i - 1 \in 0..n /\ j \in 0..n
    BY <1>1 DEF n
  <2>2. E[i] \in Nat /\ E[i - 1] \in Nat /\ E[j] \in Nat /\ E[i - 1] < E[i]
    BY <1>1, <1>2, <2>1
  <2>3. j < i => j = i - 1 \/ j < i - 1
    BY <2>1
  <2>4. QED
    BY <1>4, <2>1, <2>2, <2>3
<1> HIDE DEF G
<1>5. \A i \in 0..n : i \in G
  BY <1>1, <1>3, <1>4, Upto
<1>6. QED
  BY <1>5 DEF G, n, E

LEMMA ValuesStep ==
    ASSUME NEW items \in Seq(AnyItem), NEW c
    PROVE  /\ ValuesOf(items, c) \in [0..Len(items) -> Seq(Nat)]
           /\ ValuesOf(items, c)[0] = <<>>
           /\ \A i \in 1..Len(items) :
                 ValuesOf(items, c)[i] =
                    IF items[i].child = c THEN Append(ValuesOf(items, c)[i - 1], items[i].value)
                    ELSE ValuesOf(items, c)[i - 1]
<1> DEFINE Here1(i) == IF items[i].child = c THEN <<items[i].value>> ELSE <<>>
           ss == [i \in DOMAIN items |-> Here1(i)]
           n == Len(items)
           F == ValuesOf(items, c)
<1>1. DOMAIN items = 1..n /\ n \in Nat /\ \A i \in 1..n : items[i] \in AnyItem
  OBVIOUS
<1>2. \A i \in 1..n : items[i].value \in Nat
  BY <1>1 DEF AnyItem
<1>3. \A i \in 1..n : Here1(i) \in Seq(Nat)
  BY <1>2
<1>4. F = Joins(ss)
  BY DEF ValuesOf
<1> HIDE DEF Here1
<1>5. ss \in Seq(Seq(Nat)) /\ Len(ss) = n /\ \A i \in 1..n : ss[i] = Here1(i)
  BY <1>1, <1>3
<1> HIDE DEF ss, F, n
<1>6. F \in [0..n -> Seq(Nat)] /\ F[0] = <<>>
      /\ \A i \in 1..n : F[i] = F[i - 1] \o ss[i]
  BY <1>4, <1>5, JoinsStep
<1>7. ASSUME NEW i \in 1..n
      PROVE  F[i] = IF items[i].child = c THEN Append(F[i - 1], items[i].value) ELSE F[i - 1]
  <2>1. F[i - 1] \in Seq(Nat)
    <3>1. i - 1 \in 0..n
      BY <1>1
    <3>2. QED
      BY <1>6, <3>1
  <2>2. F[i] = F[i - 1] \o Here1(i)
    BY <1>5, <1>6
  <2>3. CASE items[i].child = c
    <3>1. Here1(i) = <<items[i].value>>
      BY <2>3 DEF Here1
    <3>2. F[i - 1] \o <<items[i].value>> = Append(F[i - 1], items[i].value)
      BY <1>2, <2>1
    <3>3. QED
      BY <2>2, <2>3, <3>1, <3>2
  <2>4. CASE items[i].child # c
    <3>1. Here1(i) = <<>>
      BY <2>4 DEF Here1
    <3>2. F[i - 1] \o <<>> = F[i - 1]
      BY <2>1
    <3>3. QED
      BY <2>2, <2>4, <3>1, <3>2
  <2>5. QED
    BY <2>3, <2>4
<1>8. QED
  BY <1>6, <1>7 DEF F, n

LEMMA AppendIs ==
    ASSUME NEW s \in Seq(Nat), NEW v \in Nat
    PROVE  /\ Append(s, v) \in Seq(Nat) /\ Append(s, v) # <<>>
           /\ Len(Append(s, v)) = Len(s) + 1 /\ Len(s) \in Nat
           /\ \A i \in 1..Len(s) : Append(s, v)[i] = s[i]
           /\ Append(s, v)[Len(s) + 1] = v /\ Last(Append(s, v)) = v
           /\ ToSet(Append(s, v)) = ToSet(s) \cup {v}
<1>1. /\ Append(s, v) \in Seq(Nat) /\ Append(s, v) # <<>>
      /\ Len(Append(s, v)) = Len(s) + 1 /\ Len(s) \in Nat
      /\ \A i \in 1..Len(s) : Append(s, v)[i] = s[i]
      /\ Append(s, v)[Len(s) + 1] = v
  OBVIOUS
<1>2. DOMAIN s = 1..Len(s) /\ DOMAIN Append(s, v) = 1..(Len(s) + 1)
  OBVIOUS
<1> DEFINE a == Append(s, v)
           n == Len(s)
<1> HIDE DEF a, n
<1>3. ToSet(a) = ToSet(s) \cup {v}
  <2>1. DOMAIN s = 1..n /\ DOMAIN a = 1..(n + 1) /\ n \in Nat
        /\ a[n + 1] = v /\ \A i \in 1..n : a[i] = s[i]
    BY <1>1, <1>2 DEF a, n
  <2>2. \A i \in 1..(n + 1) : i = n + 1 \/ i \in 1..n
    BY <2>1
  <2>3. n + 1 \in 1..(n + 1) /\ \A i \in 1..n : i \in 1..(n + 1)
    BY <2>1
  <2>4. \A x \in ToSet(a) : x \in ToSet(s) \cup {v}
    BY <2>1, <2>2 DEF ToSet
  <2>5. \A x \in ToSet(s) \cup {v} : x \in ToSet(a)
    BY <2>1, <2>3 DEF ToSet
  <2>6. QED
    BY <2>4, <2>5
<1>4. Last(Append(s, v)) = v
  BY <1>1 DEF Last
<1>5. QED
  BY <1>1, <1>3, <1>4 DEF a

(* The values found are those of the items of the child.                   *)
LEMMA ValuesAre ==
    ASSUME NEW items \in Seq(AnyItem), NEW c, NEW k \in 0..Len(items)
    PROVE  /\ ValuesOf(items, c)[k] \in Seq(Nat)
           /\ \A i \in 1..k : items[i].child = c => items[i].value \in ToSet(ValuesOf(items, c)[k])
           /\ \A v \in ToSet(ValuesOf(items, c)[k]) :
                 \E i \in 1..k : items[i].child = c /\ items[i].value = v
<1> DEFINE n == Len(items)
           F == ValuesOf(items, c)
           Covered(m) == \A i \in 1..m : items[i].child = c => items[i].value \in ToSet(F[m])
           Known1(m) == \A v \in ToSet(F[m]) :
                           \E i \in 1..m : items[i].child = c /\ items[i].value = v
           G == {m \in 0..n : Covered(m) /\ Known1(m)}
<1>1. n \in Nat /\ F \in [0..n -> Seq(Nat)] /\ F[0] = <<>>
  BY ValuesStep
<1>2. \A i \in 1..n : items[i] \in AnyItem
  OBVIOUS
<1>3. \A i \in 1..n : items[i].value \in Nat
  BY <1>2 DEF AnyItem
<1>4. \A i \in 1..n : F[i] = IF items[i].child = c THEN Append(F[i - 1], items[i].value)
                             ELSE F[i - 1]
  BY ValuesStep
<1> HIDE DEF F, n
<1>5. 0 \in G
  <2>1. 0 \in 0..n /\ Covered(0)
    BY <1>1
  <2>2. Known1(0)
    BY <1>1 DEF ToSet
  <2>3. QED
    BY <2>1, <2>2
<1>6. ASSUME NEW m \in 1..n, m - 1 \in G PROVE m \in G
  <2>1. m \in 0..n /\ m - 1 \in 0..n /\ F[m - 1] \in Seq(Nat) /\ items[m].value \in Nat
    BY <1>1, <1>3
  <2>2. Covered(m - 1) /\ Known1(m - 1)
    BY <1>6
  <2>3. \A i \in 1..m : i = m \/ i \in 1..(m - 1)
    BY <1>1
  <2>4. m \in 1..m /\ \A i \in 1..(m - 1) : i \in 1..m
    BY <1>1
  <2>5. CASE items[m].child = c
    <3>1. ToSet(F[m]) = ToSet(F[m - 1]) \cup {items[m].value}
      BY <1>4, <2>1, <2>5, AppendIs
    <3>2. Covered(m)
      BY <2>2, <2>3, <3>1
    <3>3. Known1(m)
      BY <2>2, <2>4, <2>5, <3>1
    <3>4. QED
      BY <2>1, <3>2, <3>3
  <2>6. CASE items[m].child # c
    <3>1. F[m] = F[m - 1]
      BY <1>4, <2>6
    <3>2. Covered(m)
      BY <2>2, <2>3, <2>6, <3>1
    <3>3. Known1(m)
      BY <2>2, <2>4, <3>1
    <3>4. QED
      BY <2>1, <3>2, <3>3
  <2>7. QED
    BY <2>5, <2>6
<1> HIDE DEF G
<1>7. \A m \in 0..n : m \in G
  BY <1>1, <1>5, <1>6, Upto
<1>8. k \in 0..n
  BY DEF n
<1>9. Covered(k) /\ Known1(k)
  BY <1>7, <1>8 DEF G
<1>10. QED
  BY <1>1, <1>8, <1>9 DEF F

LEMMA NoneFound ==
    ASSUME NEW items \in Seq(AnyItem), NEW c, NEW k \in 0..Len(items)
    PROVE  ValuesOf(items, c)[k] = <<>> <=> \A i \in 1..k : items[i].child # c
<1> DEFINE F == ValuesOf(items, c)
<1>1. F[k] \in Seq(Nat)
  BY ValuesAre
<1>2. \A i \in 1..k : items[i].child = c => items[i].value \in ToSet(F[k])
  BY ValuesAre
<1>3. ASSUME NEW v \in ToSet(F[k])
      PROVE  \E i \in 1..k : items[i].child = c /\ items[i].value = v
  BY ValuesAre
<1> HIDE DEF F
<1>4. F[k] = <<>> => ToSet(F[k]) = {}
  BY DEF ToSet
<1>5. F[k] # <<>> => F[k][1] \in ToSet(F[k])
  <2>1. F[k] # <<>> => 1 \in DOMAIN F[k]
    BY <1>1
  <2>2. QED
    BY <2>1 DEF ToSet
<1>6. QED
  BY <1>2, <1>3, <1>4, <1>5 DEF F

(* More items add values at the end.                                       *)
LEMMA ValuesPrefix ==
    ASSUME NEW items \in Seq(AnyItem), NEW c,
           NEW j \in 0..Len(items), NEW k \in 0..Len(items), j <= k
    PROVE  /\ Len(ValuesOf(items, c)[j]) <= Len(ValuesOf(items, c)[k])
           /\ \A i \in 1..Len(ValuesOf(items, c)[j]) :
                 ValuesOf(items, c)[k][i] = ValuesOf(items, c)[j][i]
<1> DEFINE n == Len(items)
           F == ValuesOf(items, c)
           Goes(m) == /\ Len(F[j]) <= Len(F[m])
                      /\ \A i \in 1..Len(F[j]) : F[m][i] = F[j][i]
           G == {m \in 0..n : j <= m => Goes(m)}
<1>1. n \in Nat /\ F \in [0..n -> Seq(Nat)] /\ j \in 0..n /\ k \in 0..n
  BY ValuesStep
<1>2. \A i \in 1..n : items[i] \in AnyItem
  OBVIOUS
<1>3. \A i \in 1..n : items[i].value \in Nat
  BY <1>2 DEF AnyItem
<1>4. \A i \in 1..n : F[i] = IF items[i].child = c THEN Append(F[i - 1], items[i].value)
                             ELSE F[i - 1]
  BY ValuesStep
<1> HIDE DEF F, n
<1>5. Goes(j)
  <2>1. Len(F[j]) \in Nat
    BY <1>1
  <2>2. QED
    BY <2>1
<1>6. 0 \in G
  BY <1>1, <1>5
<1>7. ASSUME NEW m \in 1..n, m - 1 \in G PROVE m \in G
  <2>1. m \in 0..n /\ m - 1 \in 0..n /\ F[m - 1] \in Seq(Nat) /\ items[m].value \in Nat
        /\ F[j] \in Seq(Nat) /\ Len(F[j]) \in Nat /\ Len(F[m - 1]) \in Nat
    BY <1>1, <1>3
  <2>2. j <= m => j = m \/ j <= m - 1
    BY <1>1
  <2>3. ASSUME j <= m - 1 PROVE Goes(m)
    <3>1. Goes(m - 1)
      BY <1>7, <2>3
    <3>2. CASE items[m].child # c
      BY <1>4, <3>1, <3>2
    <3>3. CASE items[m].child = c
      <4>1. F[m] = Append(F[m - 1], items[m].value)
        BY <1>4, <3>3
      <4>2. /\ Len(F[m]) = Len(F[m - 1]) + 1
            /\ \A i \in 1..Len(F[m - 1]) : F[m][i] = F[m - 1][i]
        BY <2>1, <4>1, AppendIs
      <4>3. \A i \in 1..Len(F[j]) : i \in 1..Len(F[m - 1])
        BY <2>1, <3>1
      <4>4. \A i \in 1..Len(F[j]) : F[m][i] = F[j][i]
        BY <3>1, <4>2, <4>3
      <4>5. Len(F[j]) <= Len(F[m])
        BY <2>1, <3>1, <4>2
      <4>6. QED
        BY <4>4, <4>5
    <3>4. QED
      BY <3>2, <3>3
  <2>4. QED
    BY <1>5, <2>1, <2>2, <2>3
<1> HIDE DEF G
<1>8. \A m \in 0..n : m \in G
  BY <1>1, <1>6, <1>7, Upto
<1>9. QED
  BY <1>1, <1>8 DEF F, G

----------------------------------------------------------------------------
(* What the tables have in common.                                         *)

RowGood(r) ==
    /\ r.list \in BOOLEAN /\ r.keyed \in BOOLEAN /\ r.need \in BOOLEAN
    /\ r.legal \subseteq Values
    /\ r.list => r.new = <<>> /\ r.reset = <<>>
    /\ r.keyed => r.list
    /\ ~r.list =>
          /\ r.set \cup {r.new} \subseteq Values \cup r.skip
          /\ \A v \in r.skip : r.reset = v \/ r.reset = Undefined
          /\ r.need \/ r.reset \in r.legal \cup r.skip \/ r.reset = Undefined
          /\ r.reset = Undefined => r.legal = Values

RowsGood(rows) ==
    /\ Len(rows) \in Nat \ {0} /\ DOMAIN rows = 1..Len(rows)
    /\ \A c \in DOMAIN rows : RowGood(rows[c])

LEMMA OptionalGood ==
    ASSUME NEW name, NEW default \in Values, NEW legal \in SUBSET Values
    PROVE  RowGood(Optional(name, default, legal))
BY DEF RowGood, Optional, Row, Values, Undefined

LEMMA AlwaysGood == ASSUME NEW name, NEW default \in Values PROVE RowGood(Always(name, default))
BY DEF RowGood, Always, Row, Values, Undefined

LEMMA RequiredGood ==
    ASSUME NEW name, NEW reset \in Values, NEW legal \in SUBSET Values
    PROVE  /\ RowGood(Required(name, reset, legal))
           /\ Required(name, reset, legal).need /\ ~Required(name, reset, legal).list
BY DEF RowGood, Required, Row, Values, Undefined

LEMMA ListGood ==
    ASSUME NEW name, NEW legal \in SUBSET Values
    PROVE  /\ RowGood(List(name, legal, FALSE, FALSE))
           /\ RowGood(List(name, legal, TRUE, FALSE))
           /\ RowGood(List(name, legal, TRUE, TRUE))
BY DEF RowGood, List

LEMMA SetsAre == /\ Positive \in SUBSET Values /\ Flag \in SUBSET Values
                 /\ Values \in SUBSET Values /\ 0 \in Values /\ 1 \in Values
BY DEF Positive, Flag, Values

LEMMA SegmentInfoGood == RowsGood(SegmentInfo)
<1> DEFINE row(n) == Row(n, SegmentInfoNew(n), SegmentInfoNew(n), SegmentInfoSkip(n), Values,
                         SegmentInfoSet(n), FALSE)
           names == <<"tc_scale", "uid", "seg_fn", "prev_uid", "prev_fn", "next_uid",
                      "next_fn", "seg_fam", "duration", "date", "title", "muxer", "writer">>
<1>1. ASSUME NEW n PROVE RowGood(row(n))
  BY DEF RowGood, Row, Values, SegmentInfoNew, SegmentInfoSkip, SegmentInfoSet,
         Clearable, Positive, Unset, Undefined
<1>2. SegmentInfo = [c \in DOMAIN names |-> row(names[c])]
  BY DEF SegmentInfo
<1>3. DOMAIN names = 1..13
  OBVIOUS
<1> HIDE DEF names, row
<1>4. DOMAIN SegmentInfo = 1..13 /\ Len(SegmentInfo) = 13
  BY <1>2, <1>3
<1>5. \A c \in 1..13 : SegmentInfo[c] = row(names[c])
  BY <1>2, <1>3
<1>6. QED
  BY <1>1, <1>4, <1>5 DEF RowsGood

LEMMA TuplesGood ==
    /\ RowsGood(EBMLElement) /\ RowsGood(AttachedFile) /\ RowsGood(Attachments)
    /\ RowsGood(CueTrackPosition) /\ RowsGood(CuePoint) /\ RowsGood(Cues)
    /\ RowsGood(TrackJoinBlocks) /\ RowsGood(Tracks)
    /\ RowsGood(BlockMore) /\ RowsGood(BlockAdditions) /\ RowsGood(SeekElement)
    /\ RowsGood(Cluster)
<1> USE SetsAre, OptionalGood, AlwaysGood, RequiredGood, ListGood
<1>1. RowsGood(EBMLElement)
  <2>1. Len(EBMLElement) = 7 /\ DOMAIN EBMLElement = 1..7
    BY DEF EBMLElement
  <2>2. /\ RowGood(EBMLElement[1])
        /\ RowGood(EBMLElement[2])
        /\ RowGood(EBMLElement[3])
        /\ RowGood(EBMLElement[4])
        /\ RowGood(EBMLElement[5])
        /\ RowGood(EBMLElement[6])
        /\ RowGood(EBMLElement[7])
    BY DEF EBMLElement
  <2>3. QED
    BY <2>1, <2>2 DEF RowsGood
<1>2. RowsGood(AttachedFile)
  <2>1. Len(AttachedFile) = 5 /\ DOMAIN AttachedFile = 1..5
    BY DEF AttachedFile
  <2>2. /\ RowGood(AttachedFile[1])
        /\ RowGood(AttachedFile[2])
        /\ RowGood(AttachedFile[3])
        /\ RowGood(AttachedFile[4])
        /\ RowGood(AttachedFile[5])
    BY DEF AttachedFile
  <2>3. QED
    BY <2>1, <2>2 DEF RowsGood
<1>3. RowsGood(Attachments)
  <2>1. Len(Attachments) = 1 /\ DOMAIN Attachments = 1..1
    BY DEF Attachments
  <2>2. RowGood(Attachments[1])
    BY DEF Attachments
  <2>3. QED
    BY <2>1, <2>2 DEF RowsGood
<1>4. RowsGood(CueTrackPosition)
  <2>1. Len(CueTrackPosition) = 5 /\ DOMAIN CueTrackPosition = 1..5
    BY DEF CueTrackPosition
  <2>2. /\ RowGood(CueTrackPosition[1])
        /\ RowGood(CueTrackPosition[2])
        /\ RowGood(CueTrackPosition[3])
        /\ RowGood(CueTrackPosition[4])
        /\ RowGood(CueTrackPosition[5])
    BY DEF CueTrackPosition
  <2>3. QED
    BY <2>1, <2>2 DEF RowsGood
<1>5. RowsGood(CuePoint)
  <2>1. Len(CuePoint) = 2 /\ DOMAIN CuePoint = 1..2
    BY DEF CuePoint
  <2>2. /\ RowGood(CuePoint[1])
        /\ RowGood(CuePoint[2])
    BY DEF CuePoint
  <2>3. QED
    BY <2>1, <2>2 DEF RowsGood
<1>6. RowsGood(Cues)
  <2>1. Len(Cues) = 1 /\ DOMAIN Cues = 1..1
    BY DEF Cues
  <2>2. RowGood(Cues[1])
    BY DEF Cues
  <2>3. QED
    BY <2>1, <2>2 DEF RowsGood
<1>7. RowsGood(TrackJoinBlocks)
  <2>1. Len(TrackJoinBlocks) = 1 /\ DOMAIN TrackJoinBlocks = 1..1
    BY DEF TrackJoinBlocks
  <2>2. RowGood(TrackJoinBlocks[1])
    BY DEF TrackJoinBlocks
  <2>3. QED
    BY <2>1, <2>2 DEF RowsGood
<1>8. RowsGood(Tracks)
  <2>1. Len(Tracks) = 1 /\ DOMAIN Tracks = 1..1
    BY DEF Tracks
  <2>2. RowGood(Tracks[1])
    BY DEF Tracks
  <2>3. QED
    BY <2>1, <2>2 DEF RowsGood
<1>9. RowsGood(BlockMore)
  <2>1. Len(BlockMore) = 2 /\ DOMAIN BlockMore = 1..2
    BY DEF BlockMore
  <2>2. /\ RowGood(BlockMore[1])
        /\ RowGood(BlockMore[2])
    BY DEF BlockMore
  <2>3. QED
    BY <2>1, <2>2 DEF RowsGood
<1>10. RowsGood(BlockAdditions)
  <2>1. Len(BlockAdditions) = 1 /\ DOMAIN BlockAdditions = 1..1
    BY DEF BlockAdditions
  <2>2. RowGood(BlockAdditions[1])
    BY DEF BlockAdditions
  <2>3. QED
    BY <2>1, <2>2 DEF RowsGood
<1>11. RowsGood(SeekElement)
  <2>1. Len(SeekElement) = 2 /\ DOMAIN SeekElement = 1..2
    BY DEF SeekElement
  <2>2. /\ RowGood(SeekElement[1])
        /\ RowGood(SeekElement[2])
    BY DEF SeekElement
  <2>3. QED
    BY <2>1, <2>2 DEF RowsGood
<1>12. RowsGood(Cluster)
  <2>1. Len(Cluster) = 4 /\ DOMAIN Cluster = 1..4
    BY DEF Cluster
  <2>2. /\ RowGood(Cluster[1])
        /\ RowGood(Cluster[2])
        /\ RowGood(Cluster[3])
        /\ RowGood(Cluster[4])
    BY DEF Cluster
  <2>3. QED
    BY <2>1, <2>2 DEF RowsGood
<1>13. QED
  BY <1>1, <1>2, <1>3, <1>4, <1>5, <1>6, <1>7, <1>8, <1>9, <1>10, <1>11, <1>12

LEMMA TrackEntryGood == RowsGood(TrackEntry)
<1> USE SetsAre, OptionalGood, RequiredGood, ListGood
<1>1. Len(TrackEntry) = 19 /\ DOMAIN TrackEntry = 1..19
  BY DEF TrackEntry
<1>2. RowGood(TrackEntry[1]) /\ RowGood(TrackEntry[2]) /\ RowGood(TrackEntry[3])
      /\ RowGood(TrackEntry[4]) /\ RowGood(TrackEntry[5]) /\ RowGood(TrackEntry[6])
  BY DEF TrackEntry
<1>3. RowGood(TrackEntry[7]) /\ RowGood(TrackEntry[8]) /\ RowGood(TrackEntry[9])
      /\ RowGood(TrackEntry[10]) /\ RowGood(TrackEntry[11]) /\ RowGood(TrackEntry[12])
  BY DEF TrackEntry
<1>4. RowGood(TrackEntry[13]) /\ RowGood(TrackEntry[14]) /\ RowGood(TrackEntry[15])
      /\ RowGood(TrackEntry[16]) /\ RowGood(TrackEntry[17]) /\ RowGood(TrackEntry[18])
      /\ RowGood(TrackEntry[19])
  BY DEF TrackEntry
<1>5. QED
  BY <1>1, <1>2, <1>3, <1>4 DEF RowsGood

(* Only here does reset() leave a member undefined.                        *)
LEMMA BlockGroupGood == RowsGood(BlockGroup)
<1> USE SetsAre, OptionalGood, RequiredGood, ListGood
<1>1. Len(BlockGroup) = 6 /\ DOMAIN BlockGroup = 1..6
  BY DEF BlockGroup
<1>2. RowGood(BlockGroup[3])
  BY DEF BlockGroup, RowGood, Row, Undefined, Values
<1>3. RowGood(BlockGroup[1]) /\ RowGood(BlockGroup[2]) /\ RowGood(BlockGroup[4])
      /\ RowGood(BlockGroup[5]) /\ RowGood(BlockGroup[6])
  BY DEF BlockGroup
<1>4. QED
  BY <1>1, <1>2, <1>3 DEF RowsGood

LEMMA TableGood ==
    ASSUME NEW k \in DOMAIN Table
    PROVE  /\ RowsGood(Table[k])
           /\ k = "SeekElement" =>
                 \A c \in DOMAIN Table[k] : /\ Table[k][c].need /\ ~Table[k][c].list
                                            /\ Table[k][c].reset \in Values
<1>1. /\ k = "SegmentInfo" => Table[k] = SegmentInfo
      /\ k = "EBMLElement" => Table[k] = EBMLElement
      /\ k = "AttachedFile" => Table[k] = AttachedFile
      /\ k = "Attachments" => Table[k] = Attachments
      /\ k = "CueTrackPosition" => Table[k] = CueTrackPosition
      /\ k = "CuePoint" => Table[k] = CuePoint
      /\ k = "Cues" => Table[k] = Cues
      /\ k = "TrackEntry" => Table[k] = TrackEntry
      /\ k = "TrackJoinBlocks" => Table[k] = TrackJoinBlocks
      /\ k = "Tracks" => Table[k] = Tracks
      /\ k = "BlockGroup" => Table[k] = BlockGroup
      /\ k = "BlockMore" => Table[k] = BlockMore
      /\ k = "BlockAdditions" => Table[k] = BlockAdditions
      /\ k = "SeekElement" => Table[k] = SeekElement
      /\ k = "Cluster" => Table[k] = Cluster
  BY DEF Table
<1>2. k \in {"SegmentInfo", "EBMLElement", "AttachedFile", "Attachments", "CueTrackPosition",
             "CuePoint", "Cues", "TrackEntry", "TrackJoinBlocks", "Tracks", "BlockGroup",
             "BlockMore", "BlockAdditions", "SeekElement", "Cluster"}
  BY DEF Table
<1>3. RowsGood(Table[k])
  BY <1>1, <1>2, SegmentInfoGood, TuplesGood, TrackEntryGood, BlockGroupGood
<1>4. \A c \in DOMAIN SeekElement : /\ SeekElement[c].need /\ ~SeekElement[c].list
                                     /\ SeekElement[c].reset \in Values
  BY DEF SeekElement, Required, Row, Values
<1>5. QED
  BY <1>1, <1>3, <1>4

----------------------------------------------------------------------------
(* Items put behind one another.                                           *)

LEMMA BehindIs ==
    ASSUME NEW s \in Seq(AnyItem), NEW t \in Seq(AnyItem)
    PROVE  /\ s \o t \in Seq(AnyItem) /\ Len(s \o t) = Len(s) + Len(t)
           /\ Len(s) \in Nat /\ Len(t) \in Nat
           /\ \A i \in 1..Len(s) : (s \o t)[i] = s[i]
           /\ \A i \in 1..Len(t) : (s \o t)[Len(s) + i] = t[i]
OBVIOUS

LEMMA BytesBehind ==
    ASSUME NEW s \in Seq(AnyItem), NEW t \in Seq(AnyItem)
    PROVE  Bytes(s \o t) = Bytes(s) + Bytes(t)
<1> DEFINE n == Len(s)
           m == Len(t)
           u == s \o t
           E == Ends(u)
           Es == Ends(s)
           Et == Ends(t)
           G == {k \in 0..n : E[k] = Es[k]}
           H == {k \in 0..m : E[n + k] = Es[n] + Et[k]}
<1>1. /\ n \in Nat /\ m \in Nat /\ u \in Seq(AnyItem) /\ Len(u) = n + m
      /\ \A i \in 1..n : u[i] = s[i]
      /\ \A i \in 1..m : u[n + i] = t[i]
  BY BehindIs
<1> HIDE DEF u
<1>2. /\ E \in [0..(n + m) -> Nat] /\ E[0] = 0
      /\ \A i \in 1..(n + m) : E[i] = E[i - 1] + ItemLen(u[i])
  BY <1>1, EndsStep
<1>3. /\ Es \in [0..n -> Nat] /\ Es[0] = 0
      /\ \A i \in 1..n : Es[i] = Es[i - 1] + ItemLen(s[i])
  BY EndsStep
<1>4. /\ Et \in [0..m -> Nat] /\ Et[0] = 0
      /\ \A i \in 1..m : Et[i] = Et[i - 1] + ItemLen(t[i]) /\ ItemLen(t[i]) \in Nat
  BY EndsStep
<1>5. Bytes(u) = E[n + m] /\ Bytes(s) = Es[n] /\ Bytes(t) = Et[m]
  BY <1>1 DEF Bytes
<1> HIDE DEF n, m, E, Es, Et
<1>6. 0 \in G
  BY <1>1, <1>2, <1>3
<1>7. ASSUME NEW i \in 1..n, i - 1 \in G PROVE i \in G
  <2>1. i \in 1..(n + m) /\ i \in 0..n
    BY <1>1
  <2>2. E[i - 1] = Es[i - 1] /\ u[i] = s[i]
    BY <1>1, <1>7
  <2>3. E[i] = Es[i]
    BY <1>2, <1>3, <2>1, <2>2
  <2>4. QED
    BY <2>1, <2>3
<1> HIDE DEF G
<1>8. n \in G
  <2>1. \A i \in 0..n : i \in G
    BY <1>1, <1>6, <1>7, Upto
  <2>2. QED
    BY <1>1, <2>1
<1>9. 0 \in H
  BY <1>1, <1>3, <1>4, <1>8 DEF G
<1>10. ASSUME NEW i \in 1..m, i - 1 \in H PROVE i \in H
  <2>1. n + i \in 1..(n + m) /\ i \in 0..m /\ i - 1 \in 0..m /\ n \in 0..n /\ (n + i) - 1 = n + (i - 1)
    BY <1>1
  <2>2. E[n + (i - 1)] = Es[n] + Et[i - 1]
    BY <1>10
  <2>3. E[n + i] = E[n + (i - 1)] + ItemLen(t[i])
    BY <1>1, <1>2, <2>1
  <2>4. Es[n] \in Nat /\ Et[i - 1] \in Nat /\ Et[i] = Et[i - 1] + ItemLen(t[i]) /\ ItemLen(t[i]) \in Nat
    BY <1>3, <1>4, <2>1
  <2>5. E[n + i] = Es[n] + Et[i]
    BY <2>2, <2>3, <2>4
  <2>6. QED
    BY <2>1, <2>5
<1> HIDE DEF H
<1>11. m \in H
  <2>1. \A i \in 0..m : i \in H
    BY <1>1, <1>9, <1>10, Upto
  <2>2. QED
    BY <1>1, <2>1
<1>12. QED
  BY <1>5, <1>11 DEF H, u

AllOf(items, c) == ValuesOf(items, c)[Len(items)]

LEMMA Regroup ==
    ASSUME NEW p \in Seq(Nat), NEW q \in Seq(Nat), NEW r \in Seq(Nat)
    PROVE  (p \o q) \o r = p \o (q \o r)
  OBVIOUS

LEMMA AppendLater ==
    ASSUME NEW p \in Seq(Nat), NEW q \in Seq(Nat), NEW v \in Nat
    PROVE  Append(p \o q, v) = p \o Append(q, v)
<1>1. p \o q \in Seq(Nat) /\ <<v>> \in Seq(Nat)
  OBVIOUS
<1>2. Append(p \o q, v) = (p \o q) \o <<v>>
  BY <1>1, AppendIsConcat
<1>3. Append(q, v) = q \o <<v>>
  BY AppendIsConcat
<1>4. (p \o q) \o <<v>> = p \o (q \o <<v>>)
  BY <1>1, Regroup, Zenon
<1>5. QED
  BY <1>2, <1>3, <1>4, Zenon

LEMMA ValuesBehind ==
    ASSUME NEW s \in Seq(AnyItem), NEW t \in Seq(AnyItem), NEW c
    PROVE  AllOf(s \o t, c) = AllOf(s, c) \o AllOf(t, c)
<1> DEFINE n == Len(s)
           m == Len(t)
           u == s \o t
           F == ValuesOf(u, c)
           Fs == ValuesOf(s, c)
           Ft == ValuesOf(t, c)
           G == {k \in 0..n : F[k] = Fs[k]}
           H == {k \in 0..m : F[n + k] = Fs[n] \o Ft[k]}
<1>1. /\ n \in Nat /\ m \in Nat /\ u \in Seq(AnyItem) /\ Len(u) = n + m
      /\ \A i \in 1..n : u[i] = s[i]
      /\ \A i \in 1..m : u[n + i] = t[i]
  BY BehindIs
<1>2. \A i \in 1..m : t[i].value \in Nat
  <2>1. \A i \in 1..m : t[i] \in AnyItem
    OBVIOUS
  <2>2. QED
    BY <2>1 DEF AnyItem
<1> HIDE DEF u
<1>3. /\ F \in [0..(n + m) -> Seq(Nat)] /\ F[0] = <<>>
      /\ \A i \in 1..(n + m) :
            F[i] = IF u[i].child = c THEN Append(F[i - 1], u[i].value) ELSE F[i - 1]
  <2>1. u \in Seq(AnyItem) /\ Len(u) = n + m
    BY <1>1
  <2> HIDE DEF n, m
  <2>2. QED
    BY <2>1, ValuesStep
<1>4. /\ Fs \in [0..n -> Seq(Nat)] /\ Fs[0] = <<>>
      /\ \A i \in 1..n :
            Fs[i] = IF s[i].child = c THEN Append(Fs[i - 1], s[i].value) ELSE Fs[i - 1]
  BY ValuesStep
<1>5. /\ Ft \in [0..m -> Seq(Nat)] /\ Ft[0] = <<>>
      /\ \A i \in 1..m :
            Ft[i] = IF t[i].child = c THEN Append(Ft[i - 1], t[i].value) ELSE Ft[i - 1]
  BY ValuesStep
<1>6. AllOf(u, c) = F[n + m] /\ AllOf(s, c) = Fs[n] /\ AllOf(t, c) = Ft[m]
  BY <1>1 DEF AllOf
<1> HIDE DEF n, m, F, Fs, Ft
<1>7. 0 \in G
  BY <1>1, <1>3, <1>4
<1>8. ASSUME NEW i \in 1..n, i - 1 \in G PROVE i \in G
  <2>1. i \in 1..(n + m) /\ i \in 0..n
    BY <1>1
  <2>2. F[i - 1] = Fs[i - 1] /\ u[i] = s[i]
    BY <1>1, <1>8
  <2>3. F[i] = Fs[i]
    BY <1>3, <1>4, <2>1, <2>2
  <2>4. QED
    BY <2>1, <2>3
<1> HIDE DEF G
<1>9. n \in G
  <2>1. \A i \in 0..n : i \in G
    BY <1>1, <1>7, <1>8, Upto
  <2>2. QED
    BY <1>1, <2>1
<1>10. Fs[n] \in Seq(Nat) /\ n + 0 = n
  BY <1>1, <1>4
<1>11. 0 \in H
  <2>1. Fs[n] \o <<>> = Fs[n]
    BY <1>10
  <2>2. F[n] = Fs[n] /\ 0 \in 0..m
    BY <1>1, <1>9 DEF G
  <2>3. QED
    BY <1>5, <1>10, <2>1, <2>2
<1>12. ASSUME NEW i \in 1..m, i - 1 \in H PROVE i \in H
  <2>1. n + i \in 1..(n + m) /\ i \in 0..m /\ i - 1 \in 0..m /\ (n + i) - 1 = n + (i - 1)
    BY <1>1
  <2>2. F[n + (i - 1)] = Fs[n] \o Ft[i - 1]
    BY <1>12
  <2>3. F[n + i] = IF t[i].child = c THEN Append(F[n + (i - 1)], t[i].value) ELSE F[n + (i - 1)]
    BY <1>1, <1>3, <2>1
  <2>4. Ft[i - 1] \in Seq(Nat) /\ t[i].value \in Nat
    BY <1>2, <1>5, <2>1
  <2>5. CASE t[i].child = c
    <3>1. Ft[i] = Append(Ft[i - 1], t[i].value)
      BY <1>5, <2>5
    <3>3. Append(Fs[n] \o Ft[i - 1], t[i].value) = Fs[n] \o Append(Ft[i - 1], t[i].value)
      BY <1>10, <2>4, AppendLater
    <3>4. F[n + i] = Fs[n] \o Ft[i]
      BY <2>2, <2>3, <2>5, <3>1, <3>3
    <3>5. QED
      BY <2>1, <3>4
  <2>6. CASE t[i].child # c
    <3>1. Ft[i] = Ft[i - 1]
      BY <1>5, <2>6
    <3>2. F[n + i] = Fs[n] \o Ft[i]
      BY <2>2, <2>3, <2>6, <3>1
    <3>3. QED
      BY <2>1, <3>2
  <2>7. QED
    BY <2>5, <2>6
<1> HIDE DEF H
<1>13. m \in H
  <2>1. \A i \in 0..m : i \in H
    BY <1>1, <1>11, <1>12, Upto
  <2>2. QED
    BY <1>1, <2>1
<1>14. QED
  BY <1>6, <1>13 DEF H, u

----------------------------------------------------------------------------
(* What is written of an object.                                           *)

LEMMA ToSetBehind ==
    ASSUME NEW T, NEW s \in Seq(T), NEW t \in Seq(T)
    PROVE  s \o t \in Seq(T) /\ ToSet(s \o t) = ToSet(s) \cup ToSet(t)
<1> DEFINE u == s \o t
           n == Len(s)
           m == Len(t)
<1>1. /\ n \in Nat /\ m \in Nat /\ u \in Seq(T)
      /\ DOMAIN s = 1..n /\ DOMAIN t = 1..m /\ DOMAIN u = 1..(n + m)
      /\ \A i \in 1..n : u[i] = s[i]
      /\ \A i \in 1..m : u[n + i] = t[i]
  OBVIOUS
<1> HIDE DEF u, n, m
<1>2. \A i \in 1..(n + m) : i \in 1..n \/ (i - n \in 1..m /\ n + (i - n) = i)
  BY <1>1
<1>3. (\A i \in 1..n : i \in 1..(n + m)) /\ (\A i \in 1..m : n + i \in 1..(n + m))
  BY <1>1
<1>4. ASSUME NEW x \in ToSet(u) PROVE x \in ToSet(s) \cup ToSet(t)
  <2>1. PICK i \in 1..(n + m) : x = u[i]
    BY <1>1 DEF ToSet
  <2>2. CASE i \in 1..n
    BY <1>1, <2>1, <2>2 DEF ToSet
  <2>3. CASE i - n \in 1..m /\ n + (i - n) = i
    <3>1. u[i] = t[i - n]
      BY <1>1, <2>3
    <3>2. QED
      BY <1>1, <2>1, <2>3, <3>1 DEF ToSet
  <2>4. QED
    BY <1>2, <2>2, <2>3
<1>5. ASSUME NEW x \in ToSet(s) \cup ToSet(t) PROVE x \in ToSet(u)
  <2>1. CASE x \in ToSet(s)
    BY <1>1, <1>3, <2>1 DEF ToSet
  <2>2. CASE x \in ToSet(t)
    BY <1>1, <1>3, <2>2 DEF ToSet
  <2>3. QED
    BY <2>1, <2>2
<1>6. ToSet(u) = ToSet(s) \cup ToSet(t)
  BY <1>4, <1>5
<1>7. QED
  BY <1>1, <1>6 DEF u

LEMMA PickIs ==
    ASSUME NEW S, NEW v
    PROVE  Pick(S, v) \in Seq(S) /\ ToSet(Pick(S, v)) = S \cap {v}
<1>1. CASE v \in S
  <2>1. Pick(S, v) = <<v>> /\ <<v>> \in Seq(S) /\ DOMAIN <<v>> = {1} /\ <<v>>[1] = v
    BY <1>1 DEF Pick
  <2>2. ToSet(Pick(S, v)) = {v}
    BY <2>1 DEF ToSet
  <2>3. QED
    BY <1>1, <2>1, <2>2
<1>2. CASE v \notin S
  <2>1. Pick(S, v) = <<>> /\ <<>> \in Seq(S) /\ DOMAIN <<>> = {}
    BY <1>2 DEF Pick
  <2>2. ToSet(Pick(S, v)) = {}
    BY <2>1 DEF ToSet
  <2>3. QED
    BY <1>2, <2>1, <2>2
<1>3. QED
  BY <1>1, <1>2

LEMMA AscendingIs ==
    ASSUME NEW S \in SUBSET Values
    PROVE  /\ Ascending(S) \in Seq(S) /\ ToSet(Ascending(S)) = S
           /\ S # {} => Ascending(S) # <<>>
<1> DEFINE p == Pick(S, 0)
           q == Pick(S, 1)
           r == Pick(S, 2)
<1>1. /\ p \in Seq(S) /\ ToSet(p) = S \cap {0}
      /\ q \in Seq(S) /\ ToSet(q) = S \cap {1}
      /\ r \in Seq(S) /\ ToSet(r) = S \cap {2}
  BY PickIs
<1> HIDE DEF p, q, r
<1> DEFINE pq == p \o q
           pqr == pq \o r
<1>2. pq \in Seq(S) /\ ToSet(pq) = ToSet(p) \cup ToSet(q)
  BY <1>1, ToSetBehind
<1> HIDE DEF pq
<1>3. pqr \in Seq(S) /\ ToSet(pqr) = ToSet(pq) \cup ToSet(r)
  BY <1>1, <1>2, ToSetBehind
<1> HIDE DEF pqr
<1>4. Ascending(S) = pqr
  BY DEF Ascending, p, q, r, pq, pqr
<1>5. ToSet(Ascending(S)) = S
  <2>1. ToSet(pqr) = ((S \cap {0}) \cup (S \cap {1})) \cup (S \cap {2})
    BY <1>1, <1>2, <1>3
  <2>2. S \subseteq {0, 1, 2}
    BY DEF Values
  <2>3. QED
    BY <1>4, <2>1, <2>2
<1>6. Ascending(S) = <<>> => ToSet(Ascending(S)) = {}
  BY DEF ToSet
<1>7. QED
  BY <1>3, <1>4, <1>5, <1>6

LEMMA InOrderIs ==
    ASSUME NEW c \in Children, NEW list \in Seq(Rows[c].legal), Rows[c].legal \in SUBSET Values
    PROVE  /\ InOrder(c, list) \in Seq(Rows[c].legal)
           /\ list # <<>> => InOrder(c, list) # <<>>
           /\ ToSet(InOrder(c, list)) = ToSet(list)
           /\ Rows[c].keyed => InOrder(c, list) = Ascending(ToSet(InOrder(c, list)))
<1> DEFINE L == Rows[c].legal
<1>1. ToSet(list) \in SUBSET L
  BY DEF ToSet
<1>2. list # <<>> => ToSet(list) # {}
  <2>1. list # <<>> => 1 \in DOMAIN list
    OBVIOUS
  <2>2. QED
    BY <2>1 DEF ToSet
<1>3. CASE ~Rows[c].keyed
  <2>1. InOrder(c, list) = list
    BY <1>3 DEF InOrder
  <2>2. QED
    BY <1>3, <2>1
<1>4. CASE Rows[c].keyed
  <2>1. InOrder(c, list) = Ascending(ToSet(list))
    BY <1>4 DEF InOrder
  <2>2. ToSet(list) \in SUBSET Values
    BY <1>1
  <2>3. /\ Ascending(ToSet(list)) \in Seq(ToSet(list))
        /\ ToSet(Ascending(ToSet(list))) = ToSet(list)
        /\ ToSet(list) # {} => Ascending(ToSet(list)) # <<>>
    BY <2>2, AscendingIs
  <2>4. Ascending(ToSet(list)) \in Seq(L)
    BY <1>1, <2>3, SeqMonotonic
  <2>5. QED
    BY <1>2, <2>1, <2>3, <2>4
<1>5. QED
  BY <1>3, <1>4

LEMMA ItemsAre ==
    ASSUME NEW c \in Int, NEW values \in Seq(Nat)
    PROVE  /\ Items(c, values) \in Seq(AnyItem) /\ Len(Items(c, values)) = Len(values)
           /\ \A i \in 1..Len(values) : Items(c, values)[i] = Item(c, values[i])
<1>1. DOMAIN values = 1..Len(values) /\ Len(values) \in Nat
      /\ \A i \in 1..Len(values) : values[i] \in Nat
  OBVIOUS
<1>2. \A i \in 1..Len(values) : Item(c, values[i]) \in AnyItem
  BY <1>1 DEF Item, AnyItem
<1>3. QED
  BY <1>1, <1>2 DEF Items

LEMMA ValuesOfItems ==
    ASSUME NEW c \in Int, NEW d \in Int, NEW values \in Seq(Nat)
    PROVE  AllOf(Items(c, values), d) = IF c = d THEN values ELSE <<>>
<1> DEFINE n == Len(values)
           u == Items(c, values)
           F == ValuesOf(u, d)
<1>1. n \in Nat /\ u \in Seq(AnyItem) /\ Len(u) = n
      /\ \A i \in 1..n : u[i] = Item(c, values[i]) /\ values[i] \in Nat
  BY ItemsAre
<1> HIDE DEF u
<1>2. /\ F \in [0..n -> Seq(Nat)] /\ F[0] = <<>>
      /\ \A i \in 1..n :
            F[i] = IF u[i].child = d THEN Append(F[i - 1], u[i].value) ELSE F[i - 1]
  BY <1>1, ValuesStep
<1>3. AllOf(u, d) = F[n]
  BY <1>1 DEF AllOf
<1>4. ASSUME NEW i \in 1..n PROVE u[i].child = c /\ u[i].value = values[i]
  <2>1. u[i] = [child |-> c, value |-> values[i]]
    BY <1>1 DEF Item
  <2>2. QED
    BY <2>1
<1> HIDE DEF F
<1>5. CASE c = d
  <2> DEFINE Same(k) == Len(F[k]) = k /\ \A i \in 1..k : F[k][i] = values[i]
             G == {k \in 0..n : Same(k)}
  <2> HIDE DEF n
  <2>1. 0 \in G
    BY <1>1, <1>2
  <2>2. ASSUME NEW k \in 1..n, k - 1 \in G PROVE k \in G
    <3>1. k \in 0..n /\ k - 1 \in 0..n /\ values[k] \in Nat
      BY <1>1
    <3>8. F[k - 1] \in Seq(Nat)
      BY <1>2, <3>1
    <3>2. F[k] = Append(F[k - 1], values[k])
      BY <1>2, <1>4, <1>5
    <3>3. Same(k - 1)
      BY <2>2
    <3>4. /\ Len(F[k]) = (k - 1) + 1 /\ F[k][(k - 1) + 1] = values[k]
          /\ \A i \in 1..(k - 1) : F[k][i] = values[i]
      BY <3>1, <3>8, <3>2, <3>3, AppendIs
    <3>5. (k - 1) + 1 = k /\ \A i \in 1..k : i = k \/ i \in 1..(k - 1)
      BY <1>1
    <3>6. Same(k)
      BY <3>4, <3>5
    <3>7. QED
      BY <3>1, <3>6
  <2> HIDE DEF G
  <2>3. n \in G
    <3>1. \A k \in 0..n : k \in G
      BY <1>1, <2>1, <2>2, Upto
    <3>2. QED
      BY <1>1, <3>1
  <2>4. Len(F[n]) = n /\ \A i \in 1..n : F[n][i] = values[i]
    BY <2>3 DEF G
  <2>5. F[n] \in Seq(Nat) /\ n = Len(values)
    <3>1. n \in 0..n
      BY <1>1
    <3>2. QED
      BY <1>2, <3>1 DEF n
  <2>6. F[n] = values
    BY <2>4, <2>5, SeqEqual
  <2>7. QED
    BY <1>3, <1>5, <2>6 DEF u
<1>6. CASE c # d
  <2> DEFINE G == {k \in 0..n : F[k] = <<>>}
  <2> HIDE DEF n
  <2>1. 0 \in G
    BY <1>1, <1>2
  <2>2. ASSUME NEW k \in 1..n, k - 1 \in G PROVE k \in G
    <3>1. k \in 0..n
      BY <1>1
    <3>2. F[k] = F[k - 1]
      BY <1>2, <1>4, <1>6
    <3>3. QED
      BY <2>2, <3>1, <3>2
  <2> HIDE DEF G
  <2>3. n \in G
    <3>1. \A k \in 0..n : k \in G
      BY <1>1, <2>1, <2>2, Upto
    <3>2. QED
      BY <1>1, <3>1
  <2>4. F[n] = <<>>
    BY <2>3 DEF G
  <2>5. QED
    BY <1>3, <1>6, <2>4 DEF u
<1>7. QED
  BY <1>5, <1>6

(* The members of a child that are written, and what they are worth.       *)
LEMMA MembersAre ==
    ASSUME kind \in DOMAIN Table, NEW o, FilledBy(o), NEW c \in Children
    PROVE  /\ Members(c, o[c]) \in Seq(Values)
           /\ ChildSize(c, o[c]) = Bytes(Items(c, Members(c, o[c])))
<1>1. RowGood(Rows[c])
  BY TableGood DEF Rows, RowsGood, Children
<1>2. CASE Rows[c].list
  <2>1. Members(c, o[c]) = o[c] /\ o[c] \in Seq(Rows[c].legal)
    BY <1>2 DEF FilledBy, Members
  <2>2. Rows[c].legal \in SUBSET Values
    BY <1>1 DEF RowGood
  <2>3. Members(c, o[c]) \in Seq(Values)
    BY <2>1, <2>2, SeqMonotonic
  <2>4. QED
    BY <1>2, <2>1, <2>3 DEF ChildSize
<1>3. CASE ~Rows[c].list /\ o[c] \in Rows[c].skip
  <2>1. Members(c, o[c]) = <<>>
    BY <1>3 DEF Members
  <2>2. <<>> \in Seq(Nat) /\ <<>> \in Seq(Values) /\ Len(<<>>) = 0
    OBVIOUS
  <2>3. Items(c, <<>>) = <<>>
    BY DEF Items
  <2>4. <<>> \in Seq(AnyItem)
    OBVIOUS
  <2>5. Bytes(<<>>) = 0
    <3>1. Ends(<<>>)[0] = 0
      BY <2>4, EndsStep
    <3>2. QED
      BY <2>2, <3>1 DEF Bytes
  <2>6. ChildSize(c, o[c]) = 0
    BY <1>3 DEF ChildSize
  <2>7. QED
    BY <2>1, <2>2, <2>3, <2>5, <2>6
<1>4. CASE ~Rows[c].list /\ o[c] \notin Rows[c].skip
  <2> DEFINE v == o[c]
             one == <<Item(c, v)>>
  <2>1. v \in Values
    BY <1>1, <1>4 DEF FilledBy, RowGood
  <2>2. Members(c, v) = <<v>>
    BY <1>4 DEF Members
  <2>3. ChildSize(c, v) = ItemLen(Item(c, v))
    BY <1>4 DEF ChildSize
  <2> HIDE DEF v
  <2>4. v \in Nat /\ c \in Int
    BY <1>1, <2>1, TableGood DEF Values, Children, Rows, RowsGood
  <2>5. Item(c, v) \in AnyItem
    BY <2>4 DEF Item, AnyItem
  <2> HIDE DEF one
  <2>6. Items(c, <<v>>) = one
    <3>1. DOMAIN <<v>> = {1} /\ <<v>>[1] = v
      OBVIOUS
    <3>2. DOMAIN one = {1} /\ one[1] = Item(c, v) /\ one = [i \in {1} |-> one[i]]
      BY DEF one
    <3>3. QED
      BY <3>1, <3>2 DEF Items
  <2>7. one \in Seq(AnyItem) /\ Len(one) = 1 /\ one[1] = Item(c, v)
    BY <2>5 DEF one
  <2>8. ItemLen(Item(c, v)) \in Nat /\ 1 \in 1..1
    BY <2>7, EndsStep
  <2>9. Ends(one)[1] = Ends(one)[0] + ItemLen(one[1]) /\ Ends(one)[0] = 0
    <3>1. 1 \in 1..Len(one) /\ 1 - 1 = 0
      BY <2>7
    <3>2. QED
      BY <2>7, <3>1, EndsStep
  <2>10. Bytes(one) = ItemLen(Item(c, v))
    BY <2>7, <2>8, <2>9 DEF Bytes
  <2>11. <<v>> \in Seq(Values)
    BY <2>1
  <2>12. QED
    BY <2>2, <2>3, <2>6, <2>10, <2>11 DEF v
<1>5. QED
  BY <1>2, <1>3, <1>4

(* What is written: the size declared is its size, and each child has its  *)
(* members in it.                                                          *)
LEMMA WrittenIs ==
    ASSUME kind \in DOMAIN Table, NEW o, FilledBy(o)
    PROVE  /\ Written(o) \in Seq(ItemSet) /\ Bytes(Written(o)) = BodySize(o)
           /\ BodySize(o) \in Nat
           /\ \A i \in DOMAIN Written(o) : Written(o)[i].child \in Children
           /\ \A c \in Children : AllOf(Written(o), c) = Members(c, o[c])
<1> DEFINE n == Len(Rows)
           Plain == [child : Children, value : Values]
           of(c) == Items(c, Members(c, o[c]))
           L == [c \in Children |-> of(c)]
           Z == [c \in Children |-> ChildSize(c, o[c])]
           J == Joins(L)
           T == Totals(Z)
<1>1. n \in Nat \ {0} /\ Children = 1..n /\ Children \subseteq Int
  BY TableGood DEF Rows, RowsGood, Children
<1>2. Plain \subseteq AnyItem /\ Plain \subseteq ItemSet /\ Seq(Plain) \subseteq Seq(AnyItem)
      /\ Seq(Plain) \subseteq Seq(ItemSet)
  <2>1. Plain \subseteq AnyItem
    BY <1>1 DEF AnyItem, Values
  <2>2. Plain \subseteq ItemSet
    BY DEF ItemSet
  <2> HIDE DEF Plain
  <2>3. QED
    BY <2>1, <2>2, SeqMonotonic
<1>3. ASSUME NEW c \in Children
      PROVE  /\ of(c) \in Seq(Plain) /\ Bytes(of(c)) = ChildSize(c, o[c])
             /\ ChildSize(c, o[c]) \in Nat
             /\ \A d \in Children : AllOf(of(c), d) = IF c = d THEN Members(c, o[c]) ELSE <<>>
  <2> DEFINE ms == Members(c, o[c])
  <2>1. ms \in Seq(Values) /\ Bytes(of(c)) = ChildSize(c, o[c])
    BY MembersAre
  <2> HIDE DEF ms
  <2>2. Values \subseteq Nat
    BY DEF Values
  <2>3. ms \in Seq(Nat)
    BY <2>1, <2>2, SeqMonotonic
  <2>4. /\ Items(c, ms) \in Seq(AnyItem) /\ Len(Items(c, ms)) = Len(ms)
        /\ \A i \in 1..Len(ms) : Items(c, ms)[i] = Item(c, ms[i])
    BY <1>1, <2>3, ItemsAre
  <2>5. \A i \in 1..Len(ms) : Item(c, ms[i]) \in Plain
    <3>1. \A i \in 1..Len(ms) : ms[i] \in Values
      BY <2>1
    <3>2. QED
      BY <3>1 DEF Item
  <2>6. Items(c, ms) \in Seq(Plain)
    <3> DEFINE x == Items(c, ms)
    <3> HIDE DEF x, Plain
    <3>1. x \in Seq(AnyItem) /\ \A i \in 1..Len(x) : x[i] \in Plain
      BY <2>4, <2>5 DEF x
    <3>2. QED
      BY <3>1 DEF x
  <2>7. Bytes(Items(c, ms)) \in Nat
    BY <2>4, EndsStep
  <2>8. \A d \in Children : AllOf(Items(c, ms), d) = IF c = d THEN ms ELSE <<>>
    BY <1>1, <2>3, ValuesOfItems
  <2>9. QED
    BY <2>1, <2>6, <2>7, <2>8 DEF ms
<1> HIDE DEF Plain, of, n
<1>4. L \in Seq(Seq(Plain)) /\ Len(L) = n /\ \A i \in 1..n : L[i] = of(i)
  BY <1>1, <1>3
<1>5. Z \in Seq(Nat) /\ Len(Z) = n /\ \A i \in 1..n : Z[i] = ChildSize(i, o[i])
  BY <1>1, <1>3
<1>6. Written(o) = J[n] /\ BodySize(o) = T[n]
  BY DEF Written, BodySize, of, n
<1> HIDE DEF L, Z
<1>7. J \in [0..n -> Seq(Plain)] /\ J[0] = <<>> /\ \A i \in 1..n : J[i] = J[i - 1] \o of(i)
  BY <1>4, JoinsStep
<1>8. T \in [0..n -> Nat] /\ T[0] = 0 /\ \A i \in 1..n : T[i] = T[i - 1] + ChildSize(i, o[i])
  BY <1>5, TotalsStep
<1> HIDE DEF J, T
<1> DEFINE Sized(i) == Bytes(J[i]) = T[i]
           Holds(i) == \A c \in Children :
                          AllOf(J[i], c) = IF c <= i THEN Members(c, o[c]) ELSE <<>>
           G == {i \in 0..n : Sized(i) /\ Holds(i)}
<1>9. 0 \in G
  <2>1. <<>> \in Seq(AnyItem) /\ Len(<<>>) = 0 /\ 0 \in 0..n
    BY <1>1
  <2>2. Ends(<<>>)[0] = 0 /\ \A c \in Children : ValuesOf(<<>>, c)[0] = <<>>
    BY <2>1, EndsStep, ValuesStep
  <2>3. Bytes(<<>>) = 0 /\ \A c \in Children : AllOf(<<>>, c) = <<>>
    BY <2>1, <2>2 DEF Bytes, AllOf
  <2>4. \A c \in Children : ~(c <= 0)
    BY <1>1
  <2>5. QED
    BY <1>7, <1>8, <2>1, <2>3, <2>4
<1>10. ASSUME NEW i \in 1..n, i - 1 \in G PROVE i \in G
  <2>1. i \in 0..n /\ i - 1 \in 0..n /\ i \in Children
    BY <1>1
  <2>2. J[i - 1] \in Seq(AnyItem) /\ of(i) \in Seq(AnyItem) /\ J[i] = J[i - 1] \o of(i)
    <3>1. J[i - 1] \in Seq(Plain) /\ of(i) \in Seq(Plain)
      BY <1>3, <1>7, <2>1
    <3>2. QED
      BY <1>2, <1>7, <3>1
  <2>3. Sized(i)
    <3>1. Bytes(J[i]) = Bytes(J[i - 1]) + Bytes(of(i))
      BY <2>2, BytesBehind
    <3>2. Bytes(J[i - 1]) = T[i - 1] /\ Bytes(of(i)) = ChildSize(i, o[i])
      BY <1>3, <1>10, <2>1
    <3>3. QED
      BY <1>8, <3>1, <3>2
  <2>4. Holds(i)
    <3> SUFFICES ASSUME NEW c \in Children
                 PROVE  AllOf(J[i], c) = IF c <= i THEN Members(c, o[c]) ELSE <<>>
      OBVIOUS
    <3>1. AllOf(J[i], c) = AllOf(J[i - 1], c) \o AllOf(of(i), c)
      <4>1. ASSUME NEW x \in Seq(AnyItem), NEW y \in Seq(AnyItem)
            PROVE  AllOf(x \o y, c) = AllOf(x, c) \o AllOf(y, c)
        BY ValuesBehind
      <4>2. QED
        BY <2>2, <4>1
    <3>2. AllOf(of(i), c) = IF i = c THEN Members(i, o[i]) ELSE <<>>
      BY <1>3, <2>1
    <3>3. AllOf(J[i - 1], c) = IF c <= i - 1 THEN Members(c, o[c]) ELSE <<>>
      BY <1>10
    <3>4. Members(c, o[c]) \in Seq(Values)
      BY MembersAre
    <3>5. c \in Int /\ i \in Int /\ (c = i => ~(c <= i - 1)) /\ (c # i => (c <= i <=> c <= i - 1))
          /\ (c = i => c <= i)
      BY <1>1
    <3>6. CASE c = i
      <4>1. AllOf(J[i - 1], c) = <<>> /\ AllOf(of(i), c) = Members(c, o[c])
        BY <3>2, <3>3, <3>5, <3>6
      <4>2. <<>> \o Members(c, o[c]) = Members(c, o[c])
        BY <3>4
      <4>3. QED
        BY <3>1, <3>5, <3>6, <4>1, <4>2
    <3>7. CASE c # i
      <4>1. AllOf(of(i), c) = <<>>
        BY <3>2, <3>7
      <4>2. Members(c, o[c]) \o <<>> = Members(c, o[c]) /\ <<>> \o <<>> = <<>>
        BY <3>4
      <4>3. QED
        BY <3>1, <3>3, <3>5, <3>7, <4>1, <4>2
    <3>8. QED
      BY <3>6, <3>7
  <2>5. QED
    BY <2>1, <2>3, <2>4
<1> HIDE DEF Sized, Holds
<1>11. n \in G
  <2> HIDE DEF G
  <2>1. \A i \in 0..n : i \in G
    BY <1>1, <1>9, <1>10, Upto
  <2>2. QED
    BY <1>1, <2>1
<1>12. n \in 0..n /\ J[n] \in Seq(Plain) /\ T[n] \in Nat
  BY <1>1, <1>7, <1>8
<1>13. \A c \in Children : AllOf(J[n], c) = Members(c, o[c])
  <2>1. \A c \in Children : c <= n
    BY <1>1
  <2>2. QED
    BY <1>11, <2>1 DEF Holds
<1>14. \A i \in DOMAIN J[n] : J[n][i].child \in Children
  <2>1. \A i \in DOMAIN J[n] : J[n][i] \in Plain
    BY <1>12
  <2>2. QED
    BY <2>1 DEF Plain
<1>15. QED
  BY <1>2, <1>6, <1>11, <1>12, <1>13, <1>14 DEF Sized

----------------------------------------------------------------------------
(* Steps.                                                                  *)

LEMMA SameKind ==
    ASSUME UNCHANGED kind
    PROVE  /\ Rows' = Rows /\ Children' = Children /\ ItemSet' = ItemSet
           /\ \A o : FilledBy(o)' <=> FilledBy(o)
           /\ \A o : Written(o)' = Written(o)
           /\ \A c : LeftUndefined(c)' <=> LeftUndefined(c)
           /\ \A c, list : InOrder(c, list)' = InOrder(c, list)
           /\ \A c, v : Legal(c, v)' <=> Legal(c, v)
BY DEF Rows, Children, ItemSet, FilledBy, Written, Members, LeftUndefined, InOrder, Legal

LEMMA SameBody ==
    ASSUME UNCHANGED <<kind, body>>
    PROVE  /\ Cuts' = Cuts /\ NothingIgnored' = NothingIgnored
           /\ \A c : Found(c)' = Found(c)
           /\ \A k, c, v : Means(k, c, v)' <=> Means(k, c, v)
           /\ \A k : ItemsInv(k)' <=> ItemsInv(k)
<1>1. Cuts' = Cuts /\ NothingIgnored' = NothingIgnored /\ \A c : Found(c)' = Found(c)
  BY DEF Cuts, NothingIgnored, Found
<1>2. \A k, c, v : Means(k, c, v)' <=> Means(k, c, v)
  BY <1>1, SameKind DEF Means
<1>3. \A k : ItemsInv(k)' <=> ItemsInv(k)
  BY SameKind DEF ItemsInv
<1>4. QED
  BY <1>1, <1>2, <1>3

LEMMA SameSent ==
    ASSUME SentInv, UNCHANGED <<kind, body, sent>> PROVE SentInv'
BY SameKind, SameBody DEF SentInv

(* A class, its rows, and the members of a list that is empty.             *)
LEMMA ClassIs ==
    ASSUME kind \in DOMAIN Table
    PROVE  /\ Children = 1..Len(Rows) /\ Len(Rows) \in Nat \ {0}
           /\ Children \subseteq Int \ {Stranger, Ignored} /\ Children # {}
           /\ \A c \in Children : RowGood(Rows[c])
           /\ kind = "SeekElement" =>
                 \A c \in Children : Rows[c].need /\ ~Rows[c].list /\ Rows[c].reset \in Values
<1>1. RowsGood(Rows) /\ (kind = "SeekElement" =>
         \A c \in Children : Rows[c].need /\ ~Rows[c].list /\ Rows[c].reset \in Values)
  BY TableGood DEF Rows, Children
<1>2. Children = 1..Len(Rows) /\ Len(Rows) \in Nat \ {0} /\ \A c \in Children : RowGood(Rows[c])
  BY <1>1 DEF RowsGood, Children
<1> HIDE DEF Children
<1>3. Children \subseteq Int \ {Stranger, Ignored} /\ Children # {}
  BY <1>2 DEF Stranger, Ignored
<1>4. QED
  BY <1>1, <1>2, <1>3

LEMMA NothingInOrder == Ascending(ToSet(<<>>)) = <<>> /\ \A c : InOrder(c, <<>>) = <<>>
<1>1. ToSet(<<>>) = {}
  BY DEF ToSet
<1>2. Ascending({}) = <<>>
  BY DEF Ascending, Pick
<1>3. QED
  BY <1>1, <1>2 DEF InOrder

LEMMA ItemsAreAny ==
    ASSUME kind \in DOMAIN Table PROVE Seq(ItemSet) \subseteq Seq(AnyItem)
<1>1. ItemSet \subseteq AnyItem
  BY ClassIs DEF ItemSet, AnyItem, Values, Stranger, Ignored
<1>2. QED
  BY <1>1, SeqMonotonic

LEMMA Starts == Init => IInv
<1> SUFFICES ASSUME Init PROVE IInv
  OBVIOUS
<1>1. kind \in DOMAIN Table
  BY KindsAssumption DEF Init
<1>2. obj = [c \in Children |-> Rows[c].new]
  BY DEF Init, New, Children, Rows
<1>3. TypeInv
  <2>1. <<>> \in Seq(ItemSet)
    OBVIOUS
  <2>2. QED
    BY <1>1, <1>2, <2>1 DEF Init, TypeInv, Stopped, Reading
<1>4. FilledBy(obj)
  <2>1. ASSUME NEW c \in Children, Rows[c].list PROVE obj[c] = <<>>
    BY <1>1, <1>2, <2>1, ClassIs DEF RowGood
  <2>2. ASSUME NEW c \in Children, ~Rows[c].list PROVE obj[c] \in Rows[c].set \cup {Rows[c].new}
    BY <1>2
  <2>3. \A S : <<>> \in Seq(S)
    OBVIOUS
  <2>4. QED
    BY <1>2, <2>1, <2>2, <2>3, NothingInOrder DEF FilledBy
<1>5. QED
  BY <1>3, <1>4 DEF Init, IInv, FillInv, SentInv, Stopped, Reading, ReadingInv, AcceptedIsWritable

LEMMA SetStep == IInv /\ Set => IInv'
<1> SUFFICES ASSUME IInv, Set PROVE IInv'
  OBVIOUS
<1>1. PICK c \in Children : /\ ~Rows[c].list
                            /\ \E v \in Rows[c].set : obj' = [obj EXCEPT ![c] = v]
  BY DEF Set
<1>2. PICK v \in Rows[c].set : obj' = [obj EXCEPT ![c] = v]
  BY <1>1
<1>3. UNCHANGED <<kind, body, sent, rd, outcome>> /\ outcome = "new"
  BY DEF Set, Filling
<1>4. obj = [d \in Children |-> obj[d]]
  BY DEF IInv, TypeInv
<1>5. obj' = [d \in Children |-> IF d = c THEN v ELSE obj[d]]
  BY <1>2, <1>4
<1>6. FilledBy(obj')
  BY <1>1, <1>3, <1>5 DEF IInv, FillInv, Filling, FilledBy
<1>7. FillInv'
  BY <1>3, <1>6, SameKind DEF FillInv
<1>8. TypeInv'
  BY <1>3, <1>5, SameKind DEF IInv, TypeInv, Reading
<1>9. QED
  BY <1>3, <1>7, <1>8, SameSent DEF IInv, TypeInv, Reading, ReadingInv, AcceptedIsWritable

LEMMA InsertStep == IInv /\ Insert => IInv'
<1> SUFFICES ASSUME IInv, Insert PROVE IInv'
  OBVIOUS
<1>1. PICK c \in Children : /\ Rows[c].list
                            /\ \E v \in Rows[c].legal :
                                  obj' = [obj EXCEPT ![c] = InOrder(c, Append(@, v))]
  BY DEF Insert
<1>2. PICK v \in Rows[c].legal : obj' = [obj EXCEPT ![c] = InOrder(c, Append(@, v))]
  BY <1>1
<1>3. UNCHANGED <<kind, body, sent, rd, outcome>> /\ outcome = "new"
  BY DEF Insert, Filling
<1>4. kind \in DOMAIN Table /\ obj = [d \in Children |-> obj[d]] /\ FilledBy(obj)
  BY <1>3 DEF IInv, TypeInv, FillInv, Filling
<1> DEFINE l == Append(obj[c], v)
           x == InOrder(c, l)
<1>5. obj' = [d \in Children |-> IF d = c THEN x ELSE obj[d]]
  BY <1>2, <1>4
<1>6. l \in Seq(Rows[c].legal) /\ Rows[c].legal \in SUBSET Values
  BY <1>1, <1>4, ClassIs DEF FilledBy, RowGood
<1> HIDE DEF l
<1>7. x \in Seq(Rows[c].legal) /\ (Rows[c].keyed => x = Ascending(ToSet(x)))
  BY <1>6, InOrderIs
<1> HIDE DEF x
<1>8. FilledBy(obj')
  BY <1>1, <1>4, <1>5, <1>7 DEF FilledBy
<1>9. FillInv'
  BY <1>3, <1>8, SameKind DEF FillInv
<1>10. TypeInv'
  BY <1>3, <1>5, SameKind DEF IInv, TypeInv, Reading
<1>11. QED
  BY <1>3, <1>9, <1>10, SameSent DEF IInv, TypeInv, Reading, ReadingInv, AcceptedIsWritable

LEMMA WriteStep == IInv /\ Write => IInv'
<1> SUFFICES ASSUME IInv, Write PROVE IInv'
  OBVIOUS
<1>1. kind \in DOMAIN Table /\ FilledBy(obj) /\ outcome = "new"
  BY DEF IInv, TypeInv, FillInv, Filling, Write
<1>2. /\ body' = [items |-> Written(obj), size |-> BodySize(obj)] /\ sent' = obj
      /\ outcome' = "written" /\ UNCHANGED <<kind, obj, rd>>
  BY DEF Write
<1>3. /\ Written(obj) \in Seq(ItemSet) /\ Bytes(Written(obj)) = BodySize(obj)
      /\ BodySize(obj) \in Nat
  BY <1>1, WrittenIs
<1>4. TypeInv'
  BY <1>1, <1>2, <1>3, SameKind DEF IInv, TypeInv, Reading
<1>5. SentInv'
  BY <1>1, <1>2, <1>3, SameKind DEF SentInv
<1>6. QED
  BY <1>1, <1>2, <1>4, <1>5 DEF IInv, TypeInv, FillInv, Filling, Reading, ReadingInv, AcceptedIsWritable

LEMMA OtherSteps == IInv /\ (WriteRefused \/ Elsewhere \/ UNCHANGED vars) => IInv'
<1>1. ASSUME IInv, UNCHANGED <<kind, body, sent, rd>>,
             obj' = [c \in Children |-> obj'[c]],
             outcome = "new" \/ outcome = "written",
             outcome' = "refused" \/ outcome' = "elsewhere"
      PROVE  IInv'
  <2>1. TypeInv'
    BY <1>1, SameKind DEF IInv, TypeInv, Reading
  <2>2. QED
    BY <1>1, <2>1, SameSent DEF IInv, TypeInv, FillInv, Filling, Reading, ReadingInv, AcceptedIsWritable
<1>2. ASSUME IInv, WriteRefused PROVE IInv'
  BY <1>1, <1>2 DEF WriteRefused, Filling, IInv, TypeInv
<1>3. ASSUME IInv, Elsewhere PROVE IInv'
  <2>1. PICK c \in Children :
           obj' = [New(kind) EXCEPT ![c] = IF Rows[c].list THEN <<2>> ELSE 2]
    BY <1>3 DEF Elsewhere
  <2>2. obj' = [d \in Children |-> obj'[d]]
    BY <2>1 DEF New, Children, Rows
  <2>3. QED
    BY <1>1, <1>3, <2>2 DEF Elsewhere
<1>4. ASSUME IInv, UNCHANGED vars PROVE IInv'
  <2>1. UNCHANGED <<kind, obj, body, sent, rd, outcome>>
    BY <1>4 DEF vars
  <2>2. TypeInv' /\ FillInv'
    BY <1>4, <2>1, SameKind DEF IInv, TypeInv, FillInv, Filling, Reading
  <2>3. SentInv'
    BY <1>4, <2>1, SameSent DEF IInv
  <2>4. \A k : CountInv(k)' <=> CountInv(k)
    BY <2>1, SameBody DEF CountInv
  <2>5. \A k : ObjectInv(k)' <=> ObjectInv(k)
    BY <2>1, SameBody, SameKind DEF ObjectInv
  <2>6. ReadingInv'
    BY <1>4, <2>1, <2>4, <2>5, SameBody DEF IInv, ReadInv, ReadingInv, Reading
  <2>7. AcceptedIsWritable'
    BY <1>4, <2>1, SameKind DEF IInv, AcceptedIsWritable, Unwritable
  <2>8. QED
    BY <2>2, <2>3, <2>6, <2>7 DEF IInv
<1>5. QED
  BY <1>2, <1>3, <1>4

LEMMA RemoveAtIs ==
    ASSUME NEW S, NEW s \in Seq(S), NEW i \in 1..Len(s) PROVE RemoveAt(s, i) \in Seq(S)
<1>1. SubSeq(s, 1, i - 1) \in Seq(S) /\ SubSeq(s, i + 1, Len(s)) \in Seq(S)
  OBVIOUS
<1>2. QED
  BY <1>1 DEF RemoveAt

LEMMA InsertAtIs ==
    ASSUME NEW S, NEW s \in Seq(S), NEW i \in 1..(Len(s) + 1), NEW e \in S
    PROVE  /\ InsertAt(s, i, e) \in Seq(S)
           /\ i \in DOMAIN InsertAt(s, i, e) /\ InsertAt(s, i, e)[i] = e
<1> DEFINE a == SubSeq(s, 1, i - 1)
           b == SubSeq(s, i, Len(s))
           ab == a \o <<e>>
<1>1. a \in Seq(S) /\ b \in Seq(S) /\ Len(a) = i - 1 /\ i \in Nat
  OBVIOUS
<1> HIDE DEF a, b
<1>2. ab \in Seq(S) /\ Len(ab) = i /\ ab[i] = e /\ i \in 1..Len(ab)
  BY <1>1
<1> HIDE DEF ab
<1>3. ab \o b \in Seq(S) /\ i \in DOMAIN (ab \o b) /\ (ab \o b)[i] = e
  BY <1>1, <1>2
<1>4. InsertAt(s, i, e) = ab \o b
  BY DEF InsertAt, a, b, ab
<1>5. QED
  BY <1>3, <1>4

LEMMA EditStep == IInv /\ (Edit \/ EditIgnored) => IInv'
<1> USE DEF IInv, TypeInv
<1>1. ASSUME IInv, UNCHANGED <<kind, obj, rd, outcome>>, outcome = "written",
             body' = [items |-> body'.items, size |-> body'.size],
             body'.items \in Seq(ItemSet), body'.size \in Nat, SentInv'
      PROVE  IInv'
  BY <1>1, SameKind DEF FillInv, Filling, Reading, ReadingInv, AcceptedIsWritable
<1>2. ASSUME IInv, NEW items \in Seq(ItemSet) PROVE Bytes(items) \in Nat
  <2>1. items \in Seq(AnyItem)
    BY <1>2, ItemsAreAny
  <2>2. QED
    BY <2>1, EndsStep
<1>3. ASSUME IInv, Edit PROVE IInv'
  <2>1. ASSUME NEW items \in Edited(body.items),
               body' = [items |-> items, size |-> Bytes(items)]
        PROVE  body'.items \in Seq(ItemSet) /\ body'.size \in Nat
    <3> DEFINE s == body.items
    <3>1. s \in Seq(ItemSet) /\ DOMAIN s = 1..Len(s)
      BY <1>3
    <3>2. \A c \in Children \cup {Stranger}, v \in {0, 2} : Item(c, v) \in ItemSet
      BY DEF Item, ItemSet, Values
    <3>3. \A i \in DOMAIN s : RemoveAt(s, i) \in Seq(ItemSet)
      BY <3>1, RemoveAtIs
    <3>4. \A i \in 1..(Len(s) + 1), c \in Children \cup {Stranger}, v \in {0, 2} :
             InsertAt(s, i, Item(c, v)) \in Seq(ItemSet)
      BY <3>1, <3>2, InsertAtIs
    <3>5. \A i \in DOMAIN s : Append(s, s[i]) \in Seq(ItemSet)
      BY <3>1
    <3>6. items \in Seq(ItemSet)
      <4>1. CASE items \in {RemoveAt(s, i) : i \in DOMAIN s}
        BY <3>3, <4>1
      <4>2. CASE items \in {InsertAt(s, i, Item(c, v)) :
                               i \in 1..(Len(s) + 1), c \in Children \cup {Stranger}, v \in {0, 2}}
        <5>1. PICK i \in 1..(Len(s) + 1), c \in Children \cup {Stranger}, v \in {0, 2} :
                 items = InsertAt(s, i, Item(c, v))
          BY <4>2
        <5>2. QED
          BY <3>4, <5>1
      <4>3. CASE items \in {Append(s, s[i]) : i \in DOMAIN s}
        BY <3>5, <4>3
      <4>4. QED
        BY <4>1, <4>2, <4>3 DEF Edited
    <3>7. Bytes(items) \in Nat
      BY <1>2, <1>3, <3>6
    <3>8. QED
      BY <2>1, <3>6, <3>7
  <2>2. ASSUME NEW d \in {-1, 1, 2}, body.size + d >= 0, body' = [body EXCEPT !.size = @ + d]
        PROVE  /\ body' = [items |-> body'.items, size |-> body'.size]
               /\ body'.items \in Seq(ItemSet) /\ body'.size \in Nat
    BY <1>3, <2>2
  <2>3. \/ \E items \in Edited(body.items) : body' = [items |-> items, size |-> Bytes(items)]
        \/ \E d \in {-1, 1, 2} : body.size + d >= 0 /\ body' = [body EXCEPT !.size = @ + d]
    BY <1>3 DEF Edit
  <2>4. /\ body' = [items |-> body'.items, size |-> body'.size]
        /\ body'.items \in Seq(ItemSet) /\ body'.size \in Nat
    BY <2>1, <2>2, <2>3
  <2>5. SentInv'
    BY <1>3 DEF Edit, SentInv
  <2> HIDE DEF IInv, TypeInv
  <2>6. QED
    BY <1>1, <1>3, <2>4, <2>5 DEF Edit
<1>4. ASSUME IInv, EditIgnored PROVE IInv'
  <2>1. PICK i \in 1..(Len(body.items) + 1) :
           body' = [items |-> InsertAt(body.items, i, Item(Ignored, 1)),
                    size |-> Bytes(InsertAt(body.items, i, Item(Ignored, 1)))]
    BY <1>4 DEF EditIgnored
  <2> DEFINE items == InsertAt(body.items, i, Item(Ignored, 1))
  <2>2. Item(Ignored, 1) \in ItemSet /\ Item(Ignored, 1).child = Ignored
    BY DEF Item, ItemSet, Values
  <2>3. items \in Seq(ItemSet) /\ i \in DOMAIN items /\ items[i] = Item(Ignored, 1)
    BY <1>4, <2>2, InsertAtIs
  <2> HIDE DEF items
  <2>4. Bytes(items) \in Nat
    BY <1>2, <1>4, <2>3
  <2>5. body' = [items |-> items, size |-> Bytes(items)]
    BY <2>1 DEF items
  <2>6. ~NothingIgnored'
    BY <2>2, <2>3, <2>5 DEF NothingIgnored
  <2>7. SentInv'
    BY <1>4, <2>5, <2>6, SameKind DEF EditIgnored, SentInv
  <2> HIDE DEF IInv, TypeInv
  <2>8. QED
    BY <1>1, <1>4, <2>3, <2>4, <2>5, <2>7 DEF EditIgnored
<1>5. QED
  BY <1>3, <1>4

----------------------------------------------------------------------------
(* Reading.                                                                *)

LEMMA FoundStarts ==
    ASSUME TypeInv
    PROVE  body.items \in Seq(AnyItem) /\ 0 \in Cuts /\ Ends(body.items)[0] = 0
           /\ \A c : Found(c)[0] = <<>>
<1>1. body.items \in Seq(AnyItem)
  BY ItemsAreAny DEF TypeInv
<1>2. 0 \in Cuts
  BY <1>1 DEF Cuts
<1>3. QED
  BY <1>1, <1>2, EndsStep, ValuesStep DEF Found

LEMMA BeginReadStep == IInv /\ BeginRead => IInv'
<1> SUFFICES ASSUME IInv, BeginRead PROVE IInv'
  OBVIOUS
<1>1. PICK junk \in Values : obj' = [c \in Children |-> AfterReset(c, junk)]
  BY DEF BeginRead
<1>2. /\ rd' = [next |-> 1, read |-> 0, seen |-> {}] /\ outcome' = "reading"
      /\ UNCHANGED <<kind, body, sent>>
  BY DEF BeginRead, Stopped
<1>3. TypeInv /\ kind \in DOMAIN Table
  BY DEF IInv, TypeInv
<1>4. TypeInv'
  BY <1>1, <1>2, SameKind DEF IInv, TypeInv, Reading
<1>5. ItemsInv(0)
  BY <1>3, ClassIs DEF ItemsInv
<1>6. CountInv(0)'
  BY <1>2, <1>3, FoundStarts DEF CountInv
<1>7. ASSUME NEW c \in Children
      PROVE  /\ Found(c)[0] = <<>> /\ IsInjective(Found(c)[0])
             /\ Means(0, c, obj'[c]) \/ kind = "SeekElement"
             /\ LeftUndefined(c) => obj'[c] \in Values
  <2>1. Found(c)[0] = <<>> /\ IsInjective(<<>>)
    BY <1>3, FoundStarts DEF IsInjective
  <2>2. kind = "SeekElement" => ~LeftUndefined(c)
    BY <1>3, ClassIs DEF LeftUndefined, Values, Undefined
  <2>3. obj'[c] = AfterReset(c, junk)
    BY <1>1
  <2>4. Rows[c].list => Rows[c].reset = <<>> /\ InOrder(c, <<>>) = <<>>
    BY <1>3, ClassIs, NothingInOrder DEF RowGood
  <2>5. kind # "SeekElement" => Means(0, c, obj'[c])
    BY <2>1, <2>3, <2>4 DEF Means, AfterReset, LeftUndefined
  <2>6. QED
    BY <2>1, <2>2, <2>3, <2>5 DEF AfterReset
<1>8. ObjectInv(0)'
  BY <1>2, <1>7, SameKind, SameBody DEF ObjectInv
<1>9. ReadingInv'
  <2>1. ReadInv(0)'
    BY <1>2, <1>5, <1>6, <1>8, SameBody DEF ReadInv
  <2>2. QED
    BY <1>2, <1>3, <2>1, SameBody, FoundStarts DEF ReadingInv
<1>10. QED
  BY <1>2, <1>4, <1>9, SameSent DEF IInv, FillInv, Filling, AcceptedIsWritable

LEMMA ValuesAmong ==
    ASSUME NEW items \in Seq(AnyItem), NEW c, NEW k \in 0..Len(items), NEW S,
           \A i \in 1..k : items[i].child = c => items[i].value \in S
    PROVE  ValuesOf(items, c)[k] \in Seq(S)
<1> DEFINE s == ValuesOf(items, c)[k]
<1>1. s \in Seq(Nat)
  BY ValuesAre
<1>2. ASSUME NEW v \in ToSet(s) PROVE \E i \in 1..k : items[i].child = c /\ items[i].value = v
  BY ValuesAre
<1>3. \A v \in ToSet(s) : v \in S
  BY <1>2
<1> HIDE DEF s
<1>4. \A i \in 1..Len(s) : s[i] \in S
  <2>1. DOMAIN s = 1..Len(s)
    BY <1>1
  <2>2. QED
    BY <1>3, <2>1 DEF ToSet
<1>5. QED
  BY <1>1, <1>4 DEF s

LEMMA FoundLegal ==
    ASSUME TypeInv, NEW k \in Cuts, ItemsInv(k), NEW c \in Children
    PROVE  Found(c)[k] \in Seq(Rows[c].legal)
<1>1. body.items \in Seq(AnyItem) /\ k \in 0..Len(body.items)
  BY FoundStarts DEF Cuts
<1>2. \A i \in 1..k : body.items[i].child = c => body.items[i].value \in Rows[c].legal
  BY DEF ItemsInv, Legal
<1>3. QED
  BY <1>1, <1>2, ValuesAmong DEF Found

LEMMA NextItem ==
    ASSUME TypeInv, NEW k \in Cuts, rd.next = k + 1, Here.child # Stranger
    PROVE  /\ k + 1 \in Cuts /\ Here = body.items[k + 1] /\ Here \in ItemSet
           /\ Ends(body.items)[k] \in Nat /\ ItemLen(Here) \in Nat \ {0}
           /\ Ends(body.items)[k + 1] = Ends(body.items)[k] + ItemLen(Here)
           /\ \A c : /\ Found(c)[k] \in Seq(Nat)
                     /\ Found(c)[k + 1] = IF Here.child = c THEN Append(Found(c)[k], Here.value)
                                          ELSE Found(c)[k]
<1> DEFINE items == body.items
           n == Len(items)
<1>1. items \in Seq(AnyItem) /\ items \in Seq(ItemSet) /\ k \in 0..n /\ n \in Nat
  BY FoundStarts DEF Cuts, TypeInv
<1>2. k + 1 \in 1..n /\ Here = items[k + 1]
  <2>1. Item(Stranger, 0).child = Stranger
    BY DEF Item
  <2>2. k + 1 <= n
    BY <2>1 DEF Here
  <2>3. QED
    BY <1>1, <2>2 DEF Here
<1>3. k + 1 \in Cuts /\ Here \in ItemSet /\ (k + 1) - 1 = k
  BY <1>1, <1>2 DEF Cuts
<1> HIDE DEF items, n
<1>4. /\ Ends(items) \in [0..n -> Nat]
      /\ ItemLen(items[k + 1]) \in Nat \ {0}
      /\ Ends(items)[k + 1] = Ends(items)[(k + 1) - 1] + ItemLen(items[k + 1])
  BY <1>1, <1>2, EndsStep DEF n
<1>5. ASSUME NEW c
      PROVE  /\ Found(c) \in [0..n -> Seq(Nat)]
             /\ Found(c)[k + 1] = IF items[k + 1].child = c
                                  THEN Append(Found(c)[(k + 1) - 1], items[k + 1].value)
                                  ELSE Found(c)[(k + 1) - 1]
  BY <1>1, <1>2, ValuesStep DEF n, Found, items
<1>6. QED
  BY <1>1, <1>2, <1>3, <1>4, <1>5 DEF items

LEMMA NewInjective ==
    ASSUME NEW s \in Seq(Nat), NEW v \in Nat, IsInjective(s), v \notin ToSet(s)
    PROVE  IsInjective(Append(s, v))
<1> DEFINE a == Append(s, v)
           n == Len(s)
<1>1. n \in Nat /\ DOMAIN s = 1..n /\ DOMAIN a = 1..(n + 1) /\ a[n + 1] = v
      /\ \A i \in 1..n : a[i] = s[i]
  OBVIOUS
<1> HIDE DEF a, n
<1>2. \A i \in 1..(n + 1) : i = n + 1 \/ i \in 1..n
  BY <1>1
<1>3. \A i \in 1..n : s[i] # v
  BY <1>1 DEF ToSet
<1>4. \A i, j \in 1..n : s[i] = s[j] => i = j
  BY <1>1 DEF IsInjective
<1>5. \A i, j \in 1..(n + 1) : a[i] = a[j] => i = j
  BY <1>1, <1>2, <1>3, <1>4
<1>6. IsInjective(a)
  BY <1>1, <1>5 DEF IsInjective
<1>7. QED
  BY <1>6 DEF a

(* The members of a list are those found, and so are those of a map.       *)
LEMMA StoredIs ==
    ASSUME TypeInv, NEW k \in Cuts, ItemsInv(k), ObjectInv(k), NEW c \in Children, Rows[c].list
    PROVE  /\ obj[c] = InOrder(c, Found(c)[k]) /\ obj[c] \in Seq(Nat)
           /\ ToSet(obj[c]) = ToSet(Found(c)[k])
           /\ \A v \in Rows[c].legal :
                 InOrder(c, Append(obj[c], v)) = InOrder(c, Append(Found(c)[k], v))
<1> DEFINE s == Found(c)[k]
<1>1. kind \in DOMAIN Table
  BY DEF TypeInv
<1>2. s \in Seq(Rows[c].legal) /\ Rows[c].legal \in SUBSET Values /\ kind # "SeekElement"
  BY <1>1, ClassIs, FoundLegal DEF RowGood
<1>3. Values \subseteq Nat
  BY DEF Values
<1>4. obj[c] = InOrder(c, s)
  BY <1>2 DEF ObjectInv, Means
<1> HIDE DEF s
<1>5. ToSet(obj[c]) = ToSet(s) /\ obj[c] \in Seq(Rows[c].legal)
  BY <1>2, <1>4, InOrderIs
<1>6. obj[c] \in Seq(Nat) /\ s \in Seq(Nat) /\ \A v \in Rows[c].legal : v \in Nat
  <2>1. Rows[c].legal \subseteq Nat
    BY <1>2, <1>3
  <2>2. QED
    BY <1>2, <1>5, <2>1, SeqMonotonic
<1>7. ASSUME NEW v \in Rows[c].legal
      PROVE  InOrder(c, Append(obj[c], v)) = InOrder(c, Append(s, v))
  <2>1. ToSet(Append(obj[c], v)) = ToSet(Append(s, v))
    <3>1. ToSet(Append(obj[c], v)) = ToSet(obj[c]) \cup {v}
      BY <1>6, AppendIs
    <3>2. ToSet(Append(s, v)) = ToSet(s) \cup {v}
      BY <1>6, AppendIs
    <3>3. QED
      BY <1>5, <3>1, <3>2
  <2>2. ~Rows[c].keyed => obj[c] = s
    BY <1>4 DEF InOrder
  <2>3. QED
    BY <2>1, <2>2 DEF InOrder
<1>8. QED
  BY <1>4, <1>5, <1>6, <1>7 DEF s

LEMMA ReadChildStep == IInv /\ ReadChild => IInv'
<1> SUFFICES ASSUME IInv, ReadChild PROVE IInv'
  OBVIOUS
<1>1. TypeInv /\ kind \in DOMAIN Table /\ obj = [c \in Children |-> obj[c]]
  BY DEF IInv, TypeInv
<1> DEFINE d == Here.child
           v == Here.value
           x == IF Rows[d].list THEN InOrder(d, Append(obj[d], v)) ELSE v
<1>2. /\ d \in Children /\ Legal(d, v) /\ ~Twice(d, v) /\ More /\ ~PairFull
      /\ obj' = [c \in Children |-> IF c = d THEN x ELSE obj[c]]
      /\ rd' = [next |-> rd.next + 1, read |-> rd.read + ItemLen(Here),
                seen |-> rd.seen \cup {d}]
      /\ UNCHANGED <<kind, body, sent, outcome>>
  BY <1>1 DEF ReadChild, Known, Store
<1>3. PICK k \in Cuts : ReadInv(k)
  BY <1>2 DEF IInv, ReadingInv, Reading, More
<1>4. rd.next = k + 1 /\ CountInv(k) /\ ItemsInv(k) /\ ObjectInv(k) /\ k \in Nat
  BY <1>3 DEF ReadInv, Cuts
<1>5. d # Stranger /\ d # Ignored
  BY <1>1, <1>2, ClassIs
<1>6. /\ k + 1 \in Cuts /\ Here = body.items[k + 1] /\ Here \in ItemSet
      /\ Ends(body.items)[k] \in Nat /\ ItemLen(Here) \in Nat \ {0}
      /\ Ends(body.items)[k + 1] = Ends(body.items)[k] + ItemLen(Here)
      /\ \A c : /\ Found(c)[k] \in Seq(Nat)
                /\ Found(c)[k + 1] = IF d = c THEN Append(Found(c)[k], v) ELSE Found(c)[k]
  BY <1>1, <1>4, <1>5, NextItem
<1>7. v \in Nat /\ v \in Values /\ v \in Rows[d].legal
  <2>1. v \in Values
    BY <1>6 DEF ItemSet
  <2>2. v \in Rows[d].legal
    BY <1>2 DEF Legal
  <2>3. QED
    BY <2>1, <2>2 DEF Values
<1>8. k + 1 > 0 /\ (k + 1) - 1 = k
  BY <1>4
<1> HIDE DEF d, v, x
<1>9. TypeInv'
  <2>1. rd'.next \in Nat /\ rd'.read \in Nat /\ rd'.seen \subseteq Children
        /\ rd' = [next |-> rd'.next, read |-> rd'.read, seen |-> rd'.seen] /\ rd'.next > 0
    BY <1>1, <1>2, <1>4, <1>6 DEF TypeInv
  <2>2. outcome = "reading" /\ obj' = [c \in Children |-> obj'[c]]
    BY <1>1, <1>2 DEF TypeInv, More, Reading
  <2>3. QED
    BY <1>1, <1>2, <2>1, <2>2, SameKind DEF TypeInv, Reading
<1>10. CountInv(k + 1)'
  <2>1. NothingIgnored => rd.read = Ends(body.items)[k] /\ rd.read < body.size
    BY <1>2, <1>4 DEF CountInv, More
  <2>2. NothingIgnored => rd'.read = Ends(body.items)[k + 1] /\ Ends(body.items)[k] < body.size
    BY <1>2, <1>6, <2>1
  <2>3. QED
    BY <1>2, <1>8, <2>2, SameBody DEF CountInv
<1>11. ItemsInv(k + 1)
  <2>1. \A i \in 1..(k + 1) : i = k + 1 \/ i \in 1..k
    BY <1>4
  <2>2. body.items[k + 1].child = d /\ body.items[k + 1].value = v
    BY <1>6 DEF d, v
  <2>3. \A i \in 1..(k + 1) :
           /\ body.items[i].child \in Children \cup {Ignored}
           /\ body.items[i].child \in Children =>
                 Legal(body.items[i].child, body.items[i].value)
    BY <1>2, <1>4, <2>1, <2>2 DEF ItemsInv
  <2>4. ASSUME kind \in Pairs PROVE \E c \in Children : \A i \in 1..k : body.items[i].child # c
    <3>1. PICK c \in Children : c \notin rd.seen
      BY <1>1, <1>2, <2>4 DEF PairFull, TypeInv
    <3>2. Found(c)[k] = <<>>
      BY <1>4, <3>1 DEF ObjectInv
    <3>3. \A i \in 1..k : body.items[i].child # c
      BY <1>1, <1>3, <3>2, FoundStarts, NoneFound DEF Found, Cuts
    <3>4. QED
      BY <3>3
  <2>5. QED
    BY <1>8, <2>3, <2>4 DEF ItemsInv
<1>12. ASSUME NEW c \in Children
       PROVE  /\ c \in rd'.seen <=> Found(c)[k + 1] # <<>>
              /\ Rows[c].keyed => IsInjective(Found(c)[k + 1])
              /\ Means(k + 1, c, obj'[c]) \/ (kind = "SeekElement" /\ Found(c)[k + 1] = <<>>)
              /\ LeftUndefined(c) => obj'[c] \in Values
  <2> DEFINE s == Found(c)[k]
  <2>1. /\ c \in rd.seen <=> s # <<>>
        /\ Rows[c].keyed => IsInjective(s)
        /\ Means(k, c, obj[c]) \/ (kind = "SeekElement" /\ s = <<>>)
        /\ LeftUndefined(c) => obj[c] \in Values
    BY <1>4 DEF ObjectInv
  <2>2. CASE c # d
    <3>1. Found(c)[k + 1] = s /\ obj'[c] = obj[c] /\ (c \in rd'.seen <=> c \in rd.seen)
      BY <1>2, <1>6, <2>2
    <3>2. Means(k + 1, c, obj'[c]) <=> Means(k, c, obj[c])
      BY <3>1 DEF Means
    <3>3. QED
      BY <2>1, <3>1, <3>2
  <2>3. CASE c = d
    <3>1. Found(c)[k + 1] = Append(s, v) /\ obj'[c] = x /\ c \in rd'.seen /\ s \in Seq(Nat)
      BY <1>2, <1>6, <2>3
    <3> HIDE DEF s
    <3>2. Append(s, v) # <<>> /\ Last(Append(s, v)) = v
      BY <1>7, <3>1, AppendIs
    <3>3. Rows[c].keyed => IsInjective(Append(s, v))
      <4>1. ASSUME Rows[c].keyed PROVE Rows[c].list /\ v \notin ToSet(s)
        <5>1. Rows[c].list /\ v \notin ToSet(obj[c])
          BY <1>1, <1>2, <2>3, <4>1, ClassIs DEF RowGood, Twice
        <5>2. ToSet(obj[c]) = ToSet(s)
          BY <1>1, <1>4, <5>1, StoredIs DEF s
        <5>3. QED
          BY <5>1, <5>2
      <4>2. ASSUME Rows[c].keyed PROVE IsInjective(Append(s, v))
        <5>1. IsInjective(s) /\ s \in Seq(Nat) /\ v \in Nat /\ v \notin ToSet(s)
          BY <1>7, <2>1, <3>1, <4>1, <4>2
        <5>2. QED
          BY <5>1, NewInjective
      <4>3. QED
        BY <4>2
    <3>4. Means(k + 1, c, x)
      <4>1. CASE Rows[c].list
        <5>1. InOrder(c, Append(obj[c], v)) = InOrder(c, Append(s, v))
          BY <1>1, <1>4, <1>7, <2>3, <4>1, StoredIs DEF s
        <5>2. QED
          BY <2>3, <3>1, <4>1, <5>1 DEF Means, x
      <4>2. CASE ~Rows[c].list
        BY <2>3, <3>1, <3>2, <4>2 DEF Means, x
      <4>3. QED
        BY <4>1, <4>2
    <3>5. LeftUndefined(c) => x \in Values
      BY <1>7, <2>3 DEF LeftUndefined, x
    <3>6. QED
      BY <3>1, <3>2, <3>3, <3>4, <3>5
  <2>4. QED
    BY <2>2, <2>3
<1>13. ObjectInv(k + 1)'
  BY <1>2, <1>12, SameKind, SameBody DEF ObjectInv
<1>14. ReadingInv'
  <2>1. rd'.next = (k + 1) + 1
    BY <1>2, <1>4
  <2>2. ReadInv(k + 1)'
    BY <1>2, <1>10, <1>11, <1>13, <2>1, SameBody DEF ReadInv
  <2>3. QED
    BY <1>2, <1>6, <2>2, SameBody DEF ReadingInv
<1>15. outcome' = "reading"
  BY <1>1, <1>2 DEF TypeInv, More, Reading
<1>16. QED
  BY <1>2, <1>9, <1>14, <1>15, SameSent DEF IInv, FillInv, Filling, AcceptedIsWritable

LEMMA ReadIgnoredStep == IInv /\ ReadIgnored => IInv'
<1> SUFFICES ASSUME IInv, ReadIgnored PROVE IInv'
  OBVIOUS
<1>1. TypeInv /\ kind \in DOMAIN Table
  BY DEF IInv, TypeInv
<1>2. /\ Here.child = Ignored /\ More /\ kind \notin Pairs
      /\ rd' = [rd EXCEPT !.next = @ + 1, !.read = @ + IdLen]
      /\ UNCHANGED <<kind, obj, body, sent, outcome>>
  BY DEF ReadIgnored, Pairs
<1>3. PICK k \in Cuts : ReadInv(k)
  BY <1>2 DEF IInv, ReadingInv, Reading, More
<1>4. rd.next = k + 1 /\ ItemsInv(k) /\ ObjectInv(k) /\ k \in Nat
  BY <1>3 DEF ReadInv, Cuts
<1>5. Here.child # Stranger /\ Ignored \notin Children
  BY <1>1, <1>2, ClassIs DEF Stranger, Ignored
<1>6. /\ k + 1 \in Cuts /\ Here = body.items[k + 1]
      /\ \A c : Found(c)[k + 1] = IF Here.child = c THEN Append(Found(c)[k], Here.value)
                                  ELSE Found(c)[k]
  BY <1>1, <1>4, <1>5, NextItem
<1>7. /\ rd'.next = (k + 1) + 1 /\ rd'.seen = rd.seen /\ rd'.next \in Nat /\ rd'.read \in Nat
      /\ rd' = [next |-> rd'.next, read |-> rd'.read, seen |-> rd'.seen] /\ rd'.next > 0
  <2>1. rd = [next |-> rd.next, read |-> rd.read, seen |-> rd.seen] /\ rd.read \in Nat
    BY <1>1 DEF TypeInv
  <2>2. rd' = [next |-> rd.next + 1, read |-> rd.read + 1, seen |-> rd.seen]
    BY <1>2, <2>1 DEF IdLen
  <2>3. QED
    BY <1>4, <2>1, <2>2
<1>8. outcome = "reading"
  BY <1>1, <1>2 DEF TypeInv, More, Reading
<1>9. TypeInv'
  BY <1>1, <1>2, <1>7, <1>8, SameKind DEF TypeInv, Reading
<1>10. CountInv(k + 1)'
  <2>1. k + 1 \in DOMAIN body.items
    <3>1. body.items \in Seq(ItemSet)
      BY <1>1 DEF TypeInv
    <3>2. QED
      BY <1>4, <1>6, <3>1 DEF Cuts
  <2>2. ~NothingIgnored
    BY <1>2, <1>6, <2>1 DEF NothingIgnored
  <2>3. QED
    BY <1>2, <2>2, SameBody DEF CountInv
<1>11. ItemsInv(k + 1)
  <2>1. \A i \in 1..(k + 1) : i = k + 1 \/ i \in 1..k
    BY <1>4
  <2>2. QED
    BY <1>2, <1>4, <1>5, <1>6, <2>1 DEF ItemsInv
<1>12. ASSUME NEW c \in Children PROVE Found(c)[k + 1] = Found(c)[k]
  BY <1>2, <1>5, <1>6
<1>13. ObjectInv(k + 1)
  <2>1. ASSUME NEW c \in Children
        PROVE  Means(k + 1, c, obj[c]) <=> Means(k, c, obj[c])
    BY <1>12 DEF Means
  <2>2. QED
    BY <1>4, <1>12, <2>1 DEF ObjectInv
<1>14. ObjectInv(k + 1)'
  BY <1>2, <1>7, <1>13, SameKind, SameBody DEF ObjectInv
<1>15. ReadInv(k + 1)'
  BY <1>2, <1>7, <1>10, <1>11, <1>14, SameBody DEF ReadInv
<1>16. ReadingInv'
  BY <1>2, <1>6, <1>15, SameBody DEF ReadingInv
<1>17. QED
  BY <1>2, <1>8, <1>9, <1>16, SameSent DEF IInv, FillInv, Filling, AcceptedIsWritable

(* When nothing required is missing, the object can be written.            *)
LEMMA NothingMissingIs ==
    ASSUME IInv, Reading, Missing = {}, NEW c \in Children
    PROVE  ~Unwritable(c)
<1>1. TypeInv /\ kind \in DOMAIN Table
  BY DEF IInv, TypeInv
<1>2. PICK k \in Cuts : ReadInv(k)
  BY DEF IInv, ReadingInv
<1>3. ItemsInv(k) /\ ObjectInv(k)
  BY <1>2 DEF ReadInv
<1> DEFINE s == Found(c)[k]
<1>4. RowGood(Rows[c]) /\ s \in Seq(Rows[c].legal)
  BY <1>1, <1>3, ClassIs, FoundLegal
<1>5. Rows[c].need => s # <<>>
  BY <1>3 DEF ObjectInv, Missing
<1>6. CASE Rows[c].list
  <2>1. obj[c] = InOrder(c, s)
    BY <1>1, <1>3, <1>6, StoredIs
  <2>2. s # <<>> => obj[c] # <<>>
    BY <1>4, <2>1, InOrderIs DEF RowGood
  <2>3. QED
    BY <1>5, <1>6, <2>2 DEF Unwritable
<1>7. CASE ~Rows[c].list /\ s # <<>>
  <2>1. obj[c] = Last(s)
    BY <1>3, <1>7 DEF ObjectInv, Means
  <2>2. Last(s) \in Rows[c].legal
    BY <1>4, <1>7 DEF Last
  <2>3. QED
    BY <1>7, <2>1, <2>2 DEF Unwritable
<1>8. CASE ~Rows[c].list /\ s = <<>>
  <2>1. ~Rows[c].need /\ kind # "SeekElement"
    BY <1>1, <1>5, <1>8, ClassIs
  <2>2. Means(k, c, obj[c])
    BY <1>3, <2>1 DEF ObjectInv
  <2>3. LeftUndefined(c) \/ obj[c] = Rows[c].reset
    BY <1>8, <2>2 DEF Means
  <2>4. LeftUndefined(c) => obj[c] \in Rows[c].legal
    BY <1>3, <1>4, <1>8 DEF ObjectInv, LeftUndefined, RowGood
  <2>5. Rows[c].reset \in Rows[c].legal \cup Rows[c].skip \/ LeftUndefined(c)
    BY <1>4, <1>8, <2>1 DEF RowGood, LeftUndefined
  <2>6. QED
    BY <1>8, <2>3, <2>4, <2>5 DEF Unwritable
<1>9. QED
  BY <1>6, <1>7, <1>8

Finishes == ReadIllegal \/ ReadTwice \/ ReadStranger \/ ReadBehindPair \/ EndRead

LEMMA ReadEnds ==
    ASSUME IInv, Finishes
    PROVE  /\ Reading /\ rd' = Stopped /\ UNCHANGED <<kind, body, sent>>
           /\ obj' = [c \in Children |-> obj'[c]]
           /\ outcome' \in {"ValueOutOfRange", "Duplicate", "InvalidChildID", "BadBodySize",
                            "MissingChild", "read"}
           /\ outcome' = "read" =>
                 Missing = {} /\ rd.read = body.size /\ UNCHANGED obj
<1>1. obj = [c \in Children |-> obj[c]] /\ rd.read \in Nat /\ body.size \in Nat
  BY DEF IInv, TypeInv
<1> USE DEF Reading, Fail, More, Known
<1>2. CASE ReadIllegal
  BY <1>1, <1>2 DEF ReadIllegal, Store
<1>3. CASE ReadTwice
  BY <1>1, <1>3 DEF ReadTwice
<1>4. CASE ReadStranger
  BY <1>1, <1>4 DEF ReadStranger
<1>5. CASE ReadBehindPair
  BY <1>1, <1>5 DEF ReadBehindPair
<1>6. CASE EndRead
  BY <1>1, <1>6 DEF EndRead
<1>7. QED
  BY <1>2, <1>3, <1>4, <1>5, <1>6 DEF Finishes

LEMMA EndStep == IInv /\ Finishes => IInv'
<1> SUFFICES ASSUME IInv, Finishes PROVE IInv'
  OBVIOUS
<1>1. /\ Reading /\ rd' = [next |-> 0, read |-> 0, seen |-> {}] /\ UNCHANGED <<kind, body, sent>>
      /\ obj' = [c \in Children |-> obj'[c]]
      /\ outcome' # "reading" /\ outcome' # "new"
      /\ outcome' = "read" => Missing = {} /\ UNCHANGED obj
  BY ReadEnds DEF Stopped
<1>2. TypeInv'
  BY <1>1, SameKind DEF IInv, TypeInv, Reading
<1>3. AcceptedIsWritable'
  <2>1. ASSUME outcome' = "read", NEW c \in Children PROVE ~Unwritable(c)'
    <3>1. ~Unwritable(c)
      BY <1>1, <2>1, NothingMissingIs
    <3>2. QED
      BY <1>1, <2>1, <3>1, SameKind DEF Unwritable
  <2>2. QED
    BY <1>1, <2>1, SameKind DEF AcceptedIsWritable
<1>4. QED
  BY <1>1, <1>2, <1>3, SameSent DEF IInv, FillInv, Filling, ReadingInv, Reading

LEMMA Steps == IInv /\ [Next]_vars => IInv'
<1>1. Next => \/ Set \/ Insert \/ Write \/ WriteRefused \/ Elsewhere \/ Edit \/ EditIgnored
              \/ BeginRead \/ ReadChild \/ ReadIgnored \/ Finishes
  BY DEF Next, Finishes
<1>2. QED
  BY <1>1, SetStep, InsertStep, WriteStep, OtherSteps, EditStep, BeginReadStep, ReadChildStep,
     ReadIgnoredStep, EndStep

----------------------------------------------------------------------------
THEOREM Holds == Spec => []IInv
<1>1. QED
  BY Starts, Steps, PTL DEF Spec

(* body_size() and write_body() of every class agree for every object: the *)
(* size declared for a body nobody has edited is the size of what is in    *)
(* it.                                                                     *)
THEOREM DeclaredWritten == Spec => []DeclaredIsWritten
<1>1. IInv => DeclaredIsWritten
  BY DEF IInv, SentInv, DeclaredIsWritten
<1>2. QED
  BY <1>1, Holds, PTL

(* What the read_body() of a class has accepted its write_body() takes.    *)
THEOREM AcceptedWritable == Spec => []AcceptedIsWritable
<1>1. IInv => AcceptedIsWritable
  BY DEF IInv
<1>2. QED
  BY <1>1, Holds, PTL

----------------------------------------------------------------------------
(* The verdict of a read, against all of the body.                         *)

LEMMA OnlyEnds ==
    ASSUME IInv, [Next]_vars, Reading, ~Reading' PROVE Finishes
<1>1. rd.next \in Nat /\ rd = [next |-> rd.next, read |-> rd.read, seen |-> rd.seen]
  BY DEF IInv, TypeInv
<1>2. ~ReadChild /\ ~ReadIgnored /\ ~BeginRead
  <2>1. ~(rd'.next > 0)
    BY DEF Reading
  <2>2. ReadChild => rd'.next = rd.next + 1
    BY DEF ReadChild
  <2>3. ReadIgnored => rd'.next = rd.next + 1
    BY <1>1 DEF ReadIgnored
  <2>4. BeginRead => rd'.next = 1
    BY DEF BeginRead, Stopped
  <2>5. QED
    BY <1>1, <2>1, <2>2, <2>3, <2>4
<1>3. rd' # rd
  BY DEF Reading
<1>4. QED
  BY <1>2, <1>3 DEF Next, Finishes, vars, Set, Insert, Write, WriteRefused, Elsewhere, Edit,
                    EditIgnored

LEMMA EndsOrder ==
    ASSUME TypeInv, NEW j \in Cuts, NEW k \in Cuts
    PROVE  /\ j \in Nat /\ k \in Nat
           /\ Ends(body.items)[j] \in Nat /\ Ends(body.items)[k] \in Nat
           /\ j < k <=> Ends(body.items)[j] < Ends(body.items)[k]
<1> DEFINE E == Ends(body.items)
<1>1. body.items \in Seq(AnyItem) /\ j \in 0..Len(body.items) /\ k \in 0..Len(body.items)
  BY FoundStarts DEF Cuts
<1>2. j \in Nat /\ k \in Nat /\ E[j] \in Nat /\ E[k] \in Nat
  BY <1>1, EndsStep
<1>3. (j < k => E[j] < E[k]) /\ (k < j => E[k] < E[j])
  BY <1>1, EndsGrow
<1> HIDE DEF E
<1>4. j = k => E[j] = E[k]
  OBVIOUS
<1>5. QED
  BY <1>2, <1>3, <1>4 DEF E

LEMMA ReadIsMeant ==
    ASSUME IInv, Finishes, NothingIgnored, outcome' = "read"
    PROVE  \E k \in Cuts : WellFormed(k) /\ \A c \in Children : Means(k, c, obj'[c])
<1>1. TypeInv /\ kind \in DOMAIN Table /\ Reading /\ Missing = {} /\ rd.read = body.size
      /\ UNCHANGED obj
  BY ReadEnds DEF IInv, TypeInv
<1>2. PICK k \in Cuts : ReadInv(k)
  BY <1>1 DEF IInv, ReadingInv
<1>3. CountInv(k) /\ ItemsInv(k) /\ ObjectInv(k)
  BY <1>2 DEF ReadInv
<1>4. body.size = Ends(body.items)[k]
  BY <1>1, <1>3 DEF CountInv
<1>5. ASSUME NEW i \in 1..k
      PROVE  body.items[i].child \in Children /\ Legal(body.items[i].child, body.items[i].value)
  <2>1. i \in DOMAIN body.items
    <3>1. body.items \in Seq(ItemSet)
      BY <1>1 DEF TypeInv
    <3>2. QED
      BY <1>2, <3>1 DEF Cuts
  <2>2. QED
    BY <1>3, <2>1 DEF ItemsInv, NothingIgnored
<1>6. ASSUME NEW c \in Children
      PROVE  /\ Rows[c].need => Found(c)[k] # <<>>
             /\ Rows[c].keyed => IsInjective(Found(c)[k])
             /\ Means(k, c, obj'[c])
  <2>1. Rows[c].need => Found(c)[k] # <<>>
    BY <1>1, <1>3 DEF Missing, ObjectInv
  <2>2. kind = "SeekElement" => Rows[c].need
    BY <1>1, ClassIs
  <2>3. QED
    BY <1>1, <1>3, <2>1, <2>2 DEF ObjectInv
<1>7. WellFormed(k)
  BY <1>3, <1>4, <1>5, <1>6 DEF WellFormed, ItemsInv
<1>8. QED
  BY <1>2, <1>6, <1>7

LEMMA RefusedIsNot ==
    ASSUME IInv, Finishes, NothingIgnored, outcome' # "read", NEW j \in Cuts, WellFormed(j)
    PROVE  FALSE
<1>1. TypeInv /\ kind \in DOMAIN Table /\ Reading /\ rd.read \in Nat /\ body.size \in Nat
  BY ReadEnds DEF IInv, TypeInv
<1>2. PICK k \in Cuts : ReadInv(k)
  BY <1>1 DEF IInv, ReadingInv
<1>3. CountInv(k) /\ ItemsInv(k) /\ ObjectInv(k) /\ rd.next = k + 1
  BY <1>2 DEF ReadInv
<1> DEFINE E == Ends(body.items)
           items == body.items
<1>4. /\ rd.read = E[k] /\ (k > 0 => E[k - 1] < E[j]) /\ body.size = E[j]
      /\ k \in Nat /\ j \in Nat /\ E[k] \in Nat /\ E[j] \in Nat
      /\ k < j <=> E[k] < E[j]
      /\ j < k <=> E[j] < E[k]
  BY <1>1, <1>3, EndsOrder DEF CountInv, WellFormed
<1>5. k <= j
  <2>1. CASE k > 0
    <3>1. k - 1 \in Cuts
      BY <1>4, <2>1 DEF Cuts
    <3>2. k - 1 < j
      BY <1>1, <1>4, <2>1, <3>1, EndsOrder
    <3>3. QED
      BY <1>4, <3>2
  <2>2. QED
    BY <1>4, <2>1
<1> HIDE DEF E
<1>6. ASSUME EndRead PROVE FALSE
  <2>1. k = j
    BY <1>1, <1>4, <1>5, <1>6 DEF EndRead
  <2>2. Missing = {}
    BY <1>3, <2>1 DEF Missing, WellFormed, ObjectInv
  <2>3. QED
    BY <1>4, <1>6, <2>1, <2>2 DEF EndRead, Fail
<1>7. ASSUME More
      PROVE  /\ k + 1 \in 1..j /\ k < j /\ Here = items[k + 1]
             /\ Here.child \in Children /\ Legal(Here.child, Here.value)
  <2>1. k < j /\ k + 1 \in 1..j
    BY <1>4, <1>5, <1>7 DEF More
  <2>2. k + 1 <= Len(items)
    BY <1>4, <2>1 DEF Cuts
  <2>3. Here = items[k + 1]
    BY <1>3, <2>2 DEF Here
  <2>4. QED
    BY <2>1, <2>3 DEF WellFormed
<1>8. ASSUME ReadIllegal PROVE FALSE
  BY <1>7, <1>8 DEF ReadIllegal, Known
<1>9. ASSUME ReadStranger PROVE FALSE
  BY <1>1, <1>7, <1>9, ClassIs DEF ReadStranger
<1>10. ASSUME ReadBehindPair PROVE FALSE
  <2>1. k < j /\ kind \in Pairs /\ rd.seen = Children
    BY <1>7, <1>10 DEF ReadBehindPair, PairFull
  <2>2. PICK c \in Children : \A i \in 1..(j - 1) : items[i].child # c
    BY <2>1 DEF WellFormed
  <2>3. \A i \in 1..k : i \in 1..(j - 1)
    BY <1>4, <2>1
  <2>4. \A i \in 1..k : items[i].child # c
    BY <2>2, <2>3
  <2>5. Found(c)[k] = <<>>
    BY <1>1, <1>2, <2>4, FoundStarts, NoneFound DEF Found, Cuts
  <2>6. QED
    BY <1>3, <2>1, <2>5 DEF ObjectInv
<1>11. ASSUME ReadTwice PROVE FALSE
  <2> DEFINE c == Here.child
             v == Here.value
             s == Found(c)[k]
             t == Found(c)[j]
             n == Len(s)
  <2>1. /\ c \in Children /\ k + 1 \in 1..j /\ k < j /\ Rows[c].keyed /\ v \in ToSet(obj[c])
        /\ c # Stranger
    <3>1. c \in Children /\ Twice(c, v) /\ More
      BY <1>11 DEF ReadTwice, Known
    <3>2. c # Stranger
      BY <1>1, <3>1, ClassIs
    <3>3. QED
      BY <1>7, <3>1, <3>2 DEF Twice
  <2>2. k + 1 \in Cuts /\ s \in Seq(Nat) /\ Found(c)[k + 1] = Append(s, v) /\ v \in Nat
    <3>1. Here \in ItemSet /\ k + 1 \in Cuts
      BY <1>1, <1>3, <2>1, NextItem
    <3>2. s \in Seq(Nat) /\ Found(c)[k + 1] = IF Here.child = c THEN Append(s, v) ELSE s
      BY <1>1, <1>3, <2>1, NextItem
    <3>3. v \in Nat
      BY <3>1 DEF ItemSet, Values
    <3> HIDE DEF s
    <3>4. QED
      BY <3>1, <3>2, <3>3
  <2>3. v \in ToSet(s)
    <3>1. Rows[c].list
      BY <1>1, <2>1, ClassIs DEF RowGood
    <3>2. QED
      BY <1>1, <1>3, <2>1, <3>1, StoredIs
  <2>4. IsInjective(t)
    BY <2>1 DEF WellFormed
  <2>5. /\ Len(Found(c)[k + 1]) <= Len(t)
        /\ \A i \in 1..Len(Found(c)[k + 1]) : t[i] = Found(c)[k + 1][i]
    <3>1. /\ items \in Seq(AnyItem) /\ k + 1 \in 0..Len(items) /\ j \in 0..Len(items)
          /\ k + 1 <= j
      BY <1>1, <1>4, <2>1, <2>2, FoundStarts DEF Cuts
    <3>2. QED
      BY <3>1, ValuesPrefix DEF Found
  <2>6. t \in Seq(Nat)
    <3>1. items \in Seq(AnyItem)
      BY <1>1, FoundStarts
    <3>2. Found(c) \in [0..Len(items) -> Seq(Nat)]
      BY <3>1, ValuesStep DEF Found
    <3>3. j \in 0..Len(items)
      BY DEF Cuts
    <3>4. QED
      BY <3>2, <3>3
  <2> HIDE DEF t, s, v, c
  <2>7. n \in Nat /\ DOMAIN s = 1..n /\ n + 1 <= Len(t) /\ Len(t) \in Nat
        /\ DOMAIN t = 1..Len(t) /\ t[n + 1] = v /\ \A i \in 1..n : t[i] = s[i]
    <3>1. /\ Len(Append(s, v)) = n + 1 /\ Append(s, v)[n + 1] = v /\ n \in Nat
          /\ \A i \in 1..n : Append(s, v)[i] = s[i]
      BY <2>2, AppendIs
    <3>2. \A i \in 1..(n + 1) : t[i] = Append(s, v)[i]
      BY <2>2, <2>5, <3>1
    <3>3. n + 1 \in 1..(n + 1) /\ \A i \in 1..n : i \in 1..(n + 1)
      BY <3>1
    <3>4. n + 1 <= Len(t)
      BY <2>2, <2>5, <3>1
    <3>5. DOMAIN s = 1..n /\ Len(t) \in Nat /\ DOMAIN t = 1..Len(t)
      BY <2>2, <2>6
    <3>6. t[n + 1] = v
      BY <3>1, <3>2, <3>3
    <3>7. \A i \in 1..n : t[i] = s[i]
      BY <3>1, <3>2, <3>3
    <3>8. QED
      BY <3>1, <3>4, <3>5, <3>6, <3>7
  <2> HIDE DEF n
  <2>8. PICK i \in 1..n : s[i] = v
    BY <2>3, <2>7 DEF ToSet
  <2>9. i \in DOMAIN t /\ n + 1 \in DOMAIN t /\ i # n + 1 /\ t[i] = t[n + 1]
    BY <2>7, <2>8
  <2>10. QED
    BY <2>4, <2>9 DEF IsInjective
<1>12. QED
  BY <1>6, <1>8, <1>9, <1>10, <1>11 DEF Finishes

(* The read_body() of every class succeeds on the bodies that are well     *)
(* formed, whatever the order of the children and whatever the object held *)
(* before, and on no others; and the object then holds what the body means.*)
THEOREM VerdictIsJustified == Spec => VerdictJustified
<1>1. ASSUME IInv, [Next]_vars, Reading, ~Reading', NothingIgnored
      PROVE  IF outcome' = "read"
             THEN \E k \in Cuts : WellFormed(k) /\ \A c \in Children : Means(k, c, obj'[c])
             ELSE \A k \in Cuts : ~WellFormed(k)
  <2>1. Finishes
    BY <1>1, OnlyEnds
  <2>2. CASE outcome' = "read"
    BY <1>1, <2>1, <2>2, ReadIsMeant
  <2>3. CASE outcome' # "read"
    BY <1>1, <2>1, <2>3, RefusedIsNot
  <2>4. QED
    BY <2>2, <2>3
<1>2. IInv /\ [Next]_vars =>
         [(Reading /\ ~Reading' /\ NothingIgnored) =>
            IF outcome' = "read"
            THEN \E k \in Cuts : WellFormed(k) /\ \A c \in Children : Means(k, c, obj'[c])
            ELSE \A k \in Cuts : ~WellFormed(k)]_vars
  BY <1>1
<1>3. QED
  BY <1>2, Holds, PTL DEF Spec, VerdictJustified

(* An object of any class, filled through its setters and written, is read *)
(* back equal, into whatever object of its class it is read.               *)
THEOREM RoundTrips == Spec => RoundTrip
<1> DEFINE n == Len(body.items)
<1>1. ASSUME IInv, [Next]_vars, Reading, ~Reading', sent # <<>>, WellFormed(n)
      PROVE  /\ outcome' = "read"
             /\ \A c \in Children : LeftUndefined(c) \/ obj'[c] = sent[c]
  <2>1. Finishes /\ TypeInv /\ kind \in DOMAIN Table /\ FilledBy(sent)
    BY <1>1, OnlyEnds DEF IInv, TypeInv, SentInv
  <2>2. n \in Cuts /\ n \in Nat /\ DOMAIN body.items = 1..n
    <3>1. body.items \in Seq(ItemSet)
      BY <2>1 DEF TypeInv
    <3>2. QED
      BY <3>1 DEF Cuts
  <2>3. NothingIgnored
    BY <1>1, <2>1, <2>2, ClassIs DEF WellFormed, NothingIgnored
  <2>4. body.items = Written(sent)
    BY <1>1, <2>3 DEF IInv, SentInv
  <2>5. outcome' = "read"
    BY <1>1, <2>1, <2>2, <2>3, RefusedIsNot
  <2>6. PICK k \in Cuts : WellFormed(k) /\ \A c \in Children : Means(k, c, obj'[c])
    BY <1>1, <2>1, <2>3, <2>5, ReadIsMeant
  <2>7. k = n
    <3>1. Ends(body.items)[k] = Ends(body.items)[n]
      BY <1>1, <2>6 DEF WellFormed
    <3>2. QED
      BY <2>1, <2>2, <3>1, EndsOrder
  <2>8. ASSUME NEW c \in Children PROVE LeftUndefined(c) \/ obj'[c] = sent[c]
    <3>1. Found(c)[n] = Members(c, sent[c])
      <4>1. Found(c)[n] = AllOf(Written(sent), c)
        BY <2>4 DEF Found, AllOf
      <4>2. QED
        BY <2>1, <4>1, WrittenIs
    <3>2. Means(n, c, obj'[c]) /\ RowGood(Rows[c])
      BY <2>1, <2>6, <2>7, ClassIs
    <3>3. CASE Rows[c].list
      <4>1. obj'[c] = InOrder(c, sent[c])
        BY <3>1, <3>2, <3>3 DEF Means, Members
      <4>2. Rows[c].keyed => sent[c] = Ascending(ToSet(sent[c]))
        BY <2>1, <3>3 DEF FilledBy
      <4>3. QED
        BY <4>1, <4>2 DEF InOrder
    <3>4. CASE ~Rows[c].list /\ sent[c] \in Rows[c].skip
      <4>1. LeftUndefined(c) \/ obj'[c] = Rows[c].reset
        BY <3>1, <3>2, <3>4 DEF Means, Members
      <4>2. QED
        BY <3>2, <3>4, <4>1 DEF RowGood, LeftUndefined
    <3>5. CASE ~Rows[c].list /\ sent[c] \notin Rows[c].skip
      <4>1. Found(c)[n] = <<sent[c]>>
        BY <3>1, <3>5 DEF Members
      <4>2. <<sent[c]>> # <<>> /\ Last(<<sent[c]>>) = sent[c]
        BY DEF Last
      <4>3. QED
        BY <3>2, <3>5, <4>1, <4>2 DEF Means
    <3>6. QED
      BY <3>3, <3>4, <3>5
  <2>9. QED
    BY <2>5, <2>8
<1>2. IInv /\ [Next]_vars =>
         [(Reading /\ ~Reading' /\ sent # <<>> /\ WellFormed(Len(body.items))) =>
             /\ outcome' = "read"
             /\ \A c \in Children : LeftUndefined(c) \/ obj'[c] = sent[c]]_vars
  BY <1>1
<1>3. QED
  BY <1>2, Holds, PTL DEF Spec, RoundTrip

=============================================================================
