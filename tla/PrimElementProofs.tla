------------------------- MODULE PrimElementProofs -------------------------
(***************************************************************************)
(* Numbers come back from the octets they are written as, whatever their   *)
(* width and the width of an octet, and elements from the stream; and what *)
(* calls return are the octets they took.                                  *)
(***************************************************************************)
EXTENDS PrimElement, WellFoundedInduction, TLAPS

(* The least-number principle, for a set, and induction up to a number.    *)
LEMMA LeastOf ==
    ASSUME NEW T, T \subseteq Nat, T # {}
    PROVE  \E x \in T : \A y \in T : x <= y
<1> DEFINE R == OpToRel(<, Nat)
<1>1. \A x, y \in Nat : <<y, x>> \in R <=> y < x
  BY DEF OpToRel
<1>2. IsWellFoundedOn(R, Nat)
  BY NatLessThanWellFounded
<1> HIDE DEF R
<1>3. PICK x \in T : \A y \in T : <<y, x>> \notin R
  BY <1>2, WFMin
<1>4. ASSUME NEW y \in T PROVE x <= y
  <2>1. x \in Nat /\ y \in Nat
    OBVIOUS
  <2>2. ~(y < x)
    BY <1>1, <1>3, <2>1
  <2>3. QED
    BY <2>1, <2>2
<1>5. QED
  BY <1>4

LEMMA Upto ==
    ASSUME NEW n \in Nat, NEW G, 0 \in G, \A i \in 1..n : i - 1 \in G => i \in G
    PROVE  \A i \in 0..n : i \in G
<1> DEFINE Out == {i \in 0..n : i \notin G}
<1> SUFFICES ASSUME Out # {} PROVE FALSE
  OBVIOUS
<1>1. Out \subseteq Nat
  OBVIOUS
<1>2. PICK m \in Out : \A i \in Out : m <= i
  BY <1>1, LeastOf
<1>3. m \in 1..n /\ m - 1 \in 0..n
  BY <1>2
<1>4. m - 1 \in G
  BY <1>2, <1>3
<1>5. QED
  BY <1>2, <1>3, <1>4


----------------------------------------------------------------------------
(* Powers of two.                                                          *)

LEMMA PowerThere ==
    ASSUME NEW n \in Nat
    PROVE  \E f \in [0..n -> Nat \ {0}] : f[0] = 1 /\ \A i \in 1..n : f[i] = 2 * f[i - 1]
<1> DEFINE Doubles(f, m) == f[0] = 1 /\ \A i \in 1..m : f[i] = 2 * f[i - 1]
           With == {m \in 0..n : \E f \in [0..m -> Nat \ {0}] : Doubles(f, m)}
<1>1. 0 \in With
  <2>1. Doubles([i \in 0..0 |-> 1], 0) /\ [i \in 0..0 |-> 1] \in [0..0 -> Nat \ {0}]
    OBVIOUS
  <2>2. 0 \in 0..n
    OBVIOUS
  <2> HIDE DEF Doubles
  <2>3. QED
    BY <2>1, <2>2
<1>2. ASSUME NEW m \in 1..n, m - 1 \in With PROVE m \in With
  <2>1. PICK f \in [0..(m - 1) -> Nat \ {0}] : Doubles(f, m - 1)
    BY <1>2
  <2> DEFINE g == [i \in 0..m |-> IF i = m THEN 2 * f[m - 1] ELSE f[i]]
  <2>2. m \in Nat /\ f[m - 1] \in Nat \ {0} /\ m - 1 \in 0..m
    BY <2>1
  <2>3. g \in [0..m -> Nat \ {0}]
    BY <2>1, <2>2
  <2>4. \A i \in 0..(m - 1) : g[i] = f[i]
    BY <2>2
  <2>5. g[m] = 2 * g[m - 1] /\ g[0] = 1
    BY <2>1, <2>2, <2>4
  <2> HIDE DEF g
  <2>6. \A i \in 1..m : i # m => g[i] = 2 * g[i - 1]
    <3> SUFFICES ASSUME NEW i \in 1..m, i # m PROVE g[i] = 2 * g[i - 1]
      OBVIOUS
    <3>1. i \in 1..(m - 1) /\ i \in 0..(m - 1) /\ i - 1 \in 0..(m - 1)
      BY <2>2
    <3>2. g[i] = f[i] /\ g[i - 1] = f[i - 1]
      BY <2>4, <3>1
    <3>3. QED
      BY <2>1, <3>1, <3>2
  <2>7. Doubles(g, m)
    BY <2>5, <2>6
  <2>8. m \in 0..n
    OBVIOUS
  <2>9. QED
    BY <2>3, <2>7, <2>8
<1>3. n \in With
  <2> HIDE DEF With
  <2>1. \A m \in 0..n : m \in With
    BY <1>1, <1>2, Upto
  <2>2. QED
    BY <2>1
<1>4. QED
  BY <1>3

(* There is one such function for each n, and each is the beginning of the *)
(* next.                                                                   *)
LEMMA TwoToIs ==
    ASSUME NEW n \in Nat, NEW f \in [0..n -> Nat \ {0}],
           f[0] = 1, \A i \in 1..n : f[i] = 2 * f[i - 1]
    PROVE  TwoTo(n) = f[n]
<1> DEFINE power == CHOOSE g : g = [i \in 0..n |-> IF i = 0 THEN 1 ELSE 2 * g[i - 1]]
<1>1. f = [i \in 0..n |-> IF i = 0 THEN 1 ELSE 2 * f[i - 1]]
  OBVIOUS
<1>2. power = [i \in 0..n |-> IF i = 0 THEN 1 ELSE 2 * power[i - 1]]
  BY <1>1
<1>3. TwoTo(n) = power[n]
  BY DEF TwoTo
<1> DEFINE G == {i \in 0..n : power[i] = f[i]}
<1> HIDE DEF power
<1>4. 0 \in G
  BY <1>2
<1>5. ASSUME NEW i \in 1..n, i - 1 \in G PROVE i \in G
  <2>1. i \in 0..n /\ i # 0
    OBVIOUS
  <2>2. power[i] = 2 * power[i - 1]
    BY <1>2, <2>1
  <2>3. QED
    BY <1>5, <2>1, <2>2
<1> HIDE DEF G
<1>6. \A i \in 0..n : i \in G
  BY <1>4, <1>5, Upto
<1>7. n \in G
  BY <1>6
<1>8. QED
  BY <1>3, <1>7 DEF G

LEMMA TwoToNext ==
    ASSUME NEW n \in Nat
    PROVE  /\ TwoTo(0) = 1
           /\ TwoTo(n) \in Nat /\ TwoTo(n) > 0
           /\ TwoTo(n + 1) = 2 * TwoTo(n)
<1>0. n + 1 \in Nat
  OBVIOUS
<1>1. PICK f \in [0..(n + 1) -> Nat \ {0}] :
          f[0] = 1 /\ \A i \in 1..(n + 1) : f[i] = 2 * f[i - 1]
  BY <1>0, PowerThere
<1> DEFINE g == [i \in 0..n |-> f[i]]
           h == [i \in 0..0 |-> 1]
<1>2. g \in [0..n -> Nat \ {0}] /\ g[0] = 1 /\ g[n] = f[n] /\ f[n] \in Nat \ {0}
  BY <1>1
<1>3. \A i \in 1..n : g[i] = 2 * g[i - 1]
  <2> SUFFICES ASSUME NEW i \in 1..n PROVE g[i] = 2 * g[i - 1]
    OBVIOUS
  <2>1. i \in 1..(n + 1) /\ i \in 0..n /\ i - 1 \in 0..n
    OBVIOUS
  <2>2. QED
    BY <1>1, <2>1
<1>4. TwoTo(n) = f[n]
  <2> HIDE DEF g
  <2>1. QED
    BY <1>2, <1>3, TwoToIs
<1>5. TwoTo(n + 1) = f[n + 1]
  BY <1>0, <1>1, TwoToIs
<1>6. f[n + 1] = 2 * f[n]
  <2>1. n + 1 \in 1..(n + 1) /\ (n + 1) - 1 = n
    OBVIOUS
  <2>2. QED
    BY <1>1, <2>1
<1>7. TwoTo(0) = 1
  <2>1. h \in [0..0 -> Nat \ {0}] /\ h[0] = 1 /\ \A i \in 1..0 : h[i] = 2 * h[i - 1]
    OBVIOUS
  <2> HIDE DEF h
  <2>2. QED
    BY <2>1, TwoToIs
<1>8. QED
  BY <1>2, <1>4, <1>5, <1>6, <1>7

LEMMA TwoToSum ==
    ASSUME NEW m \in Nat, NEW n \in Nat
    PROVE  TwoTo(m + n) = TwoTo(m) * TwoTo(n)
<1> DEFINE G == {k \in 0..n : TwoTo(m + k) = TwoTo(m) * TwoTo(k)}
<1>1. 0 \in G
  <2>1. TwoTo(0) = 1 /\ TwoTo(m) \in Nat /\ m + 0 = m
    BY TwoToNext
  <2>2. QED
    BY <2>1
<1>2. ASSUME NEW k \in 1..n, k - 1 \in G PROVE k \in G
  <2> DEFINE a == TwoTo(m)
             b == TwoTo(k - 1)
  <2>1. k - 1 \in Nat /\ m + (k - 1) \in Nat /\ (k - 1) + 1 = k /\ (m + (k - 1)) + 1 = m + k
    OBVIOUS
  <2>2. TwoTo(k) = 2 * b /\ a \in Nat /\ b \in Nat
    BY <2>1, TwoToNext
  <2>3. TwoTo(m + k) = 2 * TwoTo(m + (k - 1))
    BY <2>1, TwoToNext
  <2>4. TwoTo(m + (k - 1)) = a * b
    BY <1>2
  <2> HIDE DEF a, b
  <2>5. 2 * (a * b) = a * (2 * b)
    BY <2>2
  <2>6. QED
    BY <2>2, <2>3, <2>4, <2>5 DEF a
<1> HIDE DEF G
<1>3. \A k \in 0..n : k \in G
  BY <1>1, <1>2, Upto
<1>4. n \in G
  BY <1>3
<1>5. QED
  BY <1>4 DEF G

(* More precisely, what is needed of the order of powers.                  *)
LEMMA TwoToGrows ==
    ASSUME NEW m \in Nat, NEW n \in Nat, m <= n
    PROVE  /\ TwoTo(m) <= TwoTo(n)
           /\ m < n => 2 * TwoTo(m) <= TwoTo(n)
<1> DEFINE d == n - m
           a == TwoTo(m)
<1>1. d \in Nat /\ m + d = n
  OBVIOUS
<1>2. a \in Nat /\ TwoTo(0) = 1 /\ TwoTo(n) \in Nat
  BY TwoToNext
<1> HIDE DEF d
<1>3. TwoTo(n) = a * TwoTo(d)
  BY <1>1, TwoToSum
<1>4. CASE d = 0
  <2>1. m = n
    BY <1>1, <1>4
  <2>2. QED
    BY <1>2, <2>1
<1>5. CASE d # 0
  <2> DEFINE b == TwoTo(d - 1)
  <2>1. d - 1 \in Nat /\ (d - 1) + 1 = d
    BY <1>1, <1>5
  <2>2. TwoTo(d) = 2 * b /\ b \in Nat /\ b > 0
    BY <2>1, TwoToNext
  <2> HIDE DEF a, b
  <2>3. a * (2 * b) = 2 * (a * b) /\ a * b \in Nat /\ a * b >= a
    BY <1>2, <2>2
  <2>4. 2 * a <= TwoTo(n)
    BY <1>2, <1>3, <2>2, <2>3
  <2>5. QED
    BY <1>2, <2>4 DEF a
<1>6. QED
  BY <1>1, <1>4, <1>5

----------------------------------------------------------------------------
(* Quotients and remainders.                                               *)

LEMMA DivMod ==
    ASSUME NEW a \in Nat, NEW b \in Nat, b > 0
    PROVE  a \div b \in Nat /\ a % b \in 0..(b - 1) /\ a = b * (a \div b) + (a % b)
  OBVIOUS

(* Multiples are ordered as what they are multiples of.                    *)
LEMMA TimesGrows ==
    ASSUME NEW b \in Nat, NEW p \in Nat, NEW q \in Nat
    PROVE  /\ b * p \in Nat
           /\ p <= q => b * p <= b * q
           /\ p < q => b * p + b <= b * q
<1>1. b * p \in Nat /\ b * q \in Nat
  OBVIOUS
<1>2. ASSUME p <= q PROVE b * p <= b * q
  <2>1. PICK d \in Nat : q = p + d
    <3>1. q - p \in Nat /\ q = p + (q - p)
      BY <1>2
    <3>2. QED
      BY <3>1
  <2>2. b * q = b * p + b * d /\ b * d \in Nat
    BY <2>1
  <2>3. QED
    BY <1>1, <2>2
<1>3. ASSUME p < q PROVE b * p + b <= b * q
  <2>1. PICK d \in Nat : q = p + d + 1
    <3>1. q - p - 1 \in Nat /\ q = p + (q - p - 1) + 1
      BY <1>3
    <3>2. QED
      BY <3>1
  <2>2. b * q = b * p + b * d + b /\ b * d \in Nat
    BY <2>1
  <2>3. QED
    BY <1>1, <2>2
<1>4. QED
  BY <1>1, <1>2, <1>3

LEMMA DivIs ==
    ASSUME NEW b \in Nat, NEW q \in Nat, NEW r \in 0..(b - 1), NEW a, a = b * q + r
    PROVE  a \in Nat /\ a \div b = q /\ a % b = r
<1> DEFINE p == a \div b
           rem == a % b
<1>1. b > 0 /\ b * q \in Nat /\ a \in Nat
  OBVIOUS
<1>2. p \in Nat /\ rem \in 0..(b - 1) /\ a = b * p + rem
  BY <1>1, DivMod
<1> HIDE DEF p, rem
<1>3. b * p \in Nat
  BY <1>2
<1>4. ~(p < q)
  <2>1. p < q => b * p + b <= b * q
    BY <1>2, TimesGrows
  <2>2. QED
    BY <1>1, <1>2, <1>3, <2>1
<1>5. ~(q < p)
  <2>1. q < p => b * q + b <= b * p
    BY <1>2, TimesGrows
  <2>2. QED
    BY <1>1, <1>2, <1>3, <2>1
<1>6. p = q
  BY <1>2, <1>4, <1>5
<1>7. rem = r
  BY <1>1, <1>2, <1>6
<1>8. QED
  BY <1>1, <1>6, <1>7 DEF p, rem

LEMMA ModSmall ==
    ASSUME NEW b \in Nat, NEW a \in 0..(b - 1)
    PROVE  a % b = a /\ a \div b = 0
<1>1. a = b * 0 + a
  OBVIOUS
<1>2. QED
  BY <1>1, DivIs

LEMMA DivBounds ==
    ASSUME NEW a \in Nat, NEW b \in Nat, b > 0, NEW c \in Nat
    PROVE  /\ a < b * c => a \div b < c
           /\ b * c <= a => c <= a \div b
<1> DEFINE q == a \div b
           r == a % b
<1>1. q \in Nat /\ r \in 0..(b - 1) /\ a = b * q + r
  BY DivMod
<1> HIDE DEF q, r
<1>2. b * q \in Nat /\ b * c \in Nat
  BY <1>1
<1>3. ASSUME a < b * c PROVE q < c
  <2>1. c <= q => b * c <= b * q
    BY <1>1, TimesGrows
  <2>2. QED
    BY <1>1, <1>2, <1>3, <2>1
<1>4. ASSUME b * c <= a PROVE c <= q
  <2>1. q < c => b * q + b <= b * c
    BY <1>1, TimesGrows
  <2>2. QED
    BY <1>1, <1>2, <1>4, <2>1
<1>5. QED
  BY <1>3, <1>4 DEF q

(* Dividing twice is dividing by the product.                              *)
LEMMA DivDiv ==
    ASSUME NEW n \in Nat, NEW a \in Nat, a > 0, NEW b \in Nat, b > 0
    PROVE  (n \div a) \div b = n \div (a * b)
<1> DEFINE q == n \div a
           r == n % a
           p == q \div b
           t == q % b
<1>1. q \in Nat /\ r \in 0..(a - 1) /\ n = a * q + r
  BY DivMod
<1> HIDE DEF q, r
<1>2. p \in Nat /\ t \in 0..(b - 1) /\ q = b * p + t
  BY <1>1, DivMod
<1> HIDE DEF p, t
<1>3. a * q = (a * b) * p + a * t
  <2>1. a * q = a * (b * p) + a * t
    BY <1>2
  <2>2. a * (b * p) = (a * b) * p
    BY <1>2
  <2>3. QED
    BY <2>1, <2>2
<1>4. a * t \in Nat /\ a * b \in Nat /\ a * t + a <= a * b
  <2>1. a * t \in Nat /\ a * b \in Nat
    BY <1>2
  <2>2. t \in Nat /\ t < b
    BY <1>2
  <2>3. QED
    BY <2>1, <2>2, TimesGrows
<1> DEFINE c == a * b
           u == a * t + r
<1>5. c \in Nat /\ u \in 0..(c - 1) /\ n = c * p + u
  <2>1. (a * b) * p \in Nat
    BY <1>2, <1>4
  <2>2. u \in 0..(c - 1)
    BY <1>1, <1>4
  <2>3. n = c * p + u
    BY <1>1, <1>3, <1>4, <2>1
  <2>4. QED
    BY <1>4, <2>2, <2>3
<1> HIDE DEF c, u
<1>6. n \div c = p
  BY <1>2, <1>5, DivIs
<1>7. QED
  BY <1>6 DEF c, p, q

----------------------------------------------------------------------------
(* Octets, and how many numbers some of them hold.                         *)

LEMMA SpanIs ==
    ASSUME NEW k \in Nat
    PROVE  /\ OctetBits \in Nat /\ Octet \in Nat /\ Octet > 1
           /\ Span(k) \in Nat /\ Span(k) > 0 /\ Span(0) = 1 /\ Span(1) = Octet
           /\ Span(k + 1) = Octet * Span(k)
<1>1. OctetBits \in Nat /\ OctetBits > 0
  BY CodecAssumption
<1>2. /\ OctetBits * k \in Nat /\ OctetBits * (k + 1) = OctetBits + OctetBits * k
      /\ OctetBits * 0 = 0 /\ OctetBits * 1 = OctetBits
  BY <1>1
<1>3. Span(k) \in Nat /\ Span(k) > 0
  BY <1>2, TwoToNext DEF Span
<1>4. Span(k + 1) = Octet * Span(k)
  BY <1>1, <1>2, TwoToSum DEF Span, Octet
<1>5. Span(0) = 1 /\ Span(1) = Octet
  BY <1>1, <1>2, TwoToNext DEF Span, Octet
<1>6. Octet \in Nat /\ Octet > 1
  <2>1. TwoTo(OctetBits) \in Nat /\ TwoTo(0) = 1
    BY <1>1, TwoToNext
  <2>2. 2 * TwoTo(0) <= TwoTo(OctetBits)
    BY <1>1, TwoToGrows
  <2>3. QED
    BY <2>1, <2>2 DEF Octet
<1>7. QED
  BY <1>1, <1>3, <1>4, <1>5, <1>6

LEMMA SpanSum ==
    ASSUME NEW j \in Nat, NEW k \in Nat
    PROVE  Span(j + k) = Span(j) * Span(k)
<1>1. OctetBits \in Nat
  BY CodecAssumption
<1>2. /\ OctetBits * j \in Nat /\ OctetBits * k \in Nat
      /\ OctetBits * (j + k) = OctetBits * j + OctetBits * k
  BY <1>1
<1>3. QED
  BY <1>2, TwoToSum DEF Span

LEMMA SpanGrows ==
    ASSUME NEW j \in Nat, NEW k \in Nat, j <= k
    PROVE  Span(j) <= Span(k)
<1>1. OctetBits \in Nat
  BY CodecAssumption
<1>2. OctetBits * j \in Nat /\ OctetBits * k \in Nat /\ OctetBits * j <= OctetBits * k
  BY <1>1, TimesGrows
<1>3. QED
  BY <1>2, TwoToGrows DEF Span

LEMMA OctetsAre ==
    ASSUME NEW octets \in Seq(Octets)
    PROVE  octets \in Seq(Nat) /\ \A i \in 1..Len(octets) : octets[i] \in Octets
<1>1. Octets \subseteq Nat
  BY DEF Octets
<1>2. \A i \in 1..Len(octets) : octets[i] \in Octets
  OBVIOUS
<1>3. \A i \in 1..Len(octets) : octets[i] \in Nat
  BY <1>1, <1>2
<1>4. QED
  BY <1>2, <1>3

LEMMA OctetsOfIs ==
    ASSUME NEW n \in Nat, NEW k \in Nat
    PROVE  /\ OctetsOf(n, k) \in Seq(Octets) /\ Len(OctetsOf(n, k)) = k
           /\ \A i \in 1..k : OctetsOf(n, k)[i] = (n \div Span(k - i)) % Octet
<1>1. ASSUME NEW i \in 1..k PROVE (n \div Span(k - i)) % Octet \in Octets
  <2>1. k - i \in Nat
    OBVIOUS
  <2>2. Span(k - i) \in Nat /\ Span(k - i) > 0 /\ Octet \in Nat /\ Octet > 1
    BY <2>1, SpanIs
  <2>3. n \div Span(k - i) \in Nat
    BY <2>2, DivMod
  <2>4. QED
    BY <2>2, <2>3, DivMod DEF Octets
<1>2. QED
  BY <1>1 DEF OctetsOf

(* The function that reading builds up octet by octet.                     *)
LEMMA NumberThere ==
    ASSUME NEW octets \in Seq(Nat)
    PROVE  \E f \in [0..Len(octets) -> Nat] :
              f[0] = 0 /\ \A i \in 1..Len(octets) : f[i] = f[i - 1] * Octet + octets[i]
<1> DEFINE n == Len(octets)
           Takes(f, m) == f[0] = 0 /\ \A i \in 1..m : f[i] = f[i - 1] * Octet + octets[i]
           With == {m \in 0..n : \E f \in [0..m -> Nat] : Takes(f, m)}
<1>0. n \in Nat /\ \A i \in 1..n : octets[i] \in Nat
  OBVIOUS
<1> HIDE DEF n
<1>1. 0 \in With
  <2>1. Takes([i \in 0..0 |-> 0], 0) /\ [i \in 0..0 |-> 0] \in [0..0 -> Nat]
    OBVIOUS
  <2>2. 0 \in 0..n
    BY <1>0
  <2> HIDE DEF Takes
  <2>3. QED
    BY <2>1, <2>2
<1>2. ASSUME NEW m \in 1..n, m - 1 \in With PROVE m \in With
  <2>1. PICK f \in [0..(m - 1) -> Nat] : Takes(f, m - 1)
    BY <1>2
  <2> DEFINE x == f[m - 1] * Octet + octets[m]
             g == [i \in 0..m |-> IF i = m THEN x ELSE f[i]]
  <2>2. m \in Nat /\ f[m - 1] \in Nat /\ octets[m] \in Nat /\ m - 1 \in 0..m
    BY <1>0, <2>1
  <2>3. x \in Nat
    <3>1. Octet \in Nat
      BY SpanIs
    <3>2. \A p, q, r \in Nat : p * q + r \in Nat
      OBVIOUS
    <3>3. QED
      BY <2>2, <3>1, <3>2
  <2>4. \A i \in 0..(m - 1) : g[i] = f[i]
    BY <2>2
  <2>5. g[m] = g[m - 1] * Octet + octets[m] /\ g[0] = 0
    BY <2>1, <2>2, <2>4
  <2> HIDE DEF x
  <2>6. g \in [0..m -> Nat]
    BY <2>1, <2>2, <2>3
  <2> HIDE DEF g
  <2>7. \A i \in 1..m : i # m => g[i] = g[i - 1] * Octet + octets[i]
    <3> SUFFICES ASSUME NEW i \in 1..m, i # m
                 PROVE  g[i] = g[i - 1] * Octet + octets[i]
      OBVIOUS
    <3>1. i \in 1..(m - 1) /\ i \in 0..(m - 1) /\ i - 1 \in 0..(m - 1)
      BY <2>2
    <3>2. g[i] = f[i] /\ g[i - 1] = f[i - 1]
      BY <2>4, <3>1
    <3>3. QED
      BY <2>1, <3>1, <3>2
  <2>8. Takes(g, m)
    BY <2>5, <2>7
  <2>9. m \in 0..n
    BY <1>0
  <2>10. QED
    BY <2>6, <2>8, <2>9
<1>3. n \in With
  <2> HIDE DEF With
  <2>1. \A m \in 0..n : m \in With
    BY <1>0, <1>1, <1>2, Upto
  <2>2. QED
    BY <1>0, <2>1
<1>4. QED
  BY <1>3 DEF n

LEMMA NumberIs ==
    ASSUME NEW octets \in Seq(Nat), NEW f \in [0..Len(octets) -> Nat], f[0] = 0,
           \A i \in 1..Len(octets) : f[i] = f[i - 1] * Octet + octets[i]
    PROVE  NumberOf(octets) = f[Len(octets)]
<1> DEFINE n == Len(octets)
           upto == CHOOSE g : g = [i \in 0..n |-> IF i = 0 THEN 0
                                                  ELSE g[i - 1] * Octet + octets[i]]
<1>0. n \in Nat
  OBVIOUS
<1>1. f = [i \in 0..n |-> IF i = 0 THEN 0 ELSE f[i - 1] * Octet + octets[i]]
  OBVIOUS
<1>2. upto = [i \in 0..n |-> IF i = 0 THEN 0 ELSE upto[i - 1] * Octet + octets[i]]
  BY <1>1
<1>3. NumberOf(octets) = upto[n]
  BY DEF NumberOf
<1> DEFINE G == {i \in 0..n : upto[i] = f[i]}
<1> HIDE DEF upto, n
<1>4. 0 \in G
  BY <1>0, <1>2
<1>5. ASSUME NEW i \in 1..n, i - 1 \in G PROVE i \in G
  <2>1. i \in 0..n /\ i # 0
    BY <1>0
  <2>2. upto[i] = upto[i - 1] * Octet + octets[i]
    BY <1>2, <2>1
  <2>3. f[i] = f[i - 1] * Octet + octets[i]
    BY DEF n
  <2>4. QED
    BY <1>5, <2>1, <2>2, <2>3
<1> HIDE DEF G
<1>6. \A i \in 0..n : i \in G
  BY <1>0, <1>4, <1>5, Upto
<1>7. n \in G
  BY <1>0, <1>6
<1>8. QED
  BY <1>3, <1>7 DEF G, n

(* So many octets hold so large a number, and the first of them tells in   *)
(* which part of the range it lies.                                        *)
LEMMA NumberBound ==
    ASSUME NEW octets \in Seq(Octets)
    PROVE  /\ NumberOf(octets) \in Nat /\ NumberOf(octets) < Span(Len(octets))
           /\ octets # <<>> =>
                 /\ octets[1] \in Octets
                 /\ Span(Len(octets) - 1) * octets[1] <= NumberOf(octets)
                 /\ NumberOf(octets) < Span(Len(octets) - 1) * (octets[1] + 1)
<1> DEFINE n == Len(octets)
           a == octets[1]
<1>1. n \in Nat /\ octets \in Seq(Nat) /\ \A i \in 1..n : octets[i] \in Octets
  BY OctetsAre
<1>2. PICK f \in [0..n -> Nat] :
          f[0] = 0 /\ \A i \in 1..n : f[i] = f[i - 1] * Octet + octets[i]
  BY <1>1, NumberThere
<1>3. NumberOf(octets) = f[n]
  BY <1>1, <1>2, NumberIs
<1>4. Octet \in Nat /\ Octet > 1
  BY SpanIs
<1>5. n > 0 => a \in Octets /\ a \in Nat
  BY <1>1 DEF Octets
<1> DEFINE Lies(i) == i > 0 => Span(i - 1) * a <= f[i] /\ f[i] < Span(i - 1) * (a + 1)
           G == {i \in 0..n : f[i] < Span(i) /\ Lies(i)}
<1> HIDE DEF n, a
<1>6. 0 \in G
  BY <1>1, <1>2, SpanIs
<1>7. ASSUME NEW i \in 1..n, i - 1 \in G PROVE i \in G
  <2> DEFINE x == f[i - 1]
             d == octets[i]
             w == Span(i - 1)
  <2>1. i - 1 \in Nat /\ i - 1 \in 0..n /\ (i - 1) + 1 = i /\ i \in 0..n
    BY <1>1
  <2>2. w \in Nat /\ w > 0 /\ Span(i) = Octet * w
    BY <2>1, SpanIs
  <2>3. x \in Nat /\ d \in Octets /\ f[i] = x * Octet + d /\ x < w
    BY <1>1, <1>2, <1>7, <2>1
  <2>4. d \in Nat /\ d < Octet
    BY <1>4, <2>3 DEF Octets
  <2> HIDE DEF x, d, w
  <2>5. f[i] < Span(i)
    <3>1. Octet * x + Octet <= Octet * w /\ Octet * x \in Nat /\ Octet * w \in Nat
      BY <1>4, <2>2, <2>3, TimesGrows
    <3>2. x * Octet = Octet * x
      BY <1>4, <2>3
    <3>3. QED
      BY <1>4, <2>2, <2>3, <2>4, <3>1, <3>2
  <2>6. Lies(i)
    <3>1. CASE i = 1
      <4>1. x = 0 /\ d = a /\ w = 1
        BY <1>2, <3>1, SpanIs DEF x, d, w, a
      <4>2. f[i] = a
        BY <1>4, <2>3, <2>4, <4>1
      <4>3. QED
        BY <2>4, <4>1, <4>2 DEF w
    <3>2. CASE i > 1
      <4> DEFINE v == Span(i - 2)
      <4>1. i - 2 \in Nat /\ (i - 2) + 1 = i - 1 /\ (i - 1) - 1 = i - 2 /\ i - 1 > 0
        BY <2>1, <3>2
      <4>2. v \in Nat /\ v > 0 /\ w = Octet * v
        BY <4>1, SpanIs DEF w
      <4>3. v * a <= x /\ x < v * (a + 1)
        BY <1>7, <4>1 DEF x
      <4>4. a \in Nat
        BY <1>1, <1>5
      <4> HIDE DEF v
      <4>5. v * a \in Nat /\ v * (a + 1) \in Nat
        BY <4>2, <4>4
      <4>6. Octet * (v * a) <= Octet * x /\ Octet * x + Octet <= Octet * (v * (a + 1))
            /\ Octet * (v * a) \in Nat /\ Octet * x \in Nat /\ Octet * (v * (a + 1)) \in Nat
        BY <1>4, <2>3, <4>3, <4>5, TimesGrows
      <4>7. Octet * (v * a) = w * a /\ Octet * (v * (a + 1)) = w * (a + 1)
        BY <1>4, <4>2, <4>4
      <4>8. x * Octet = Octet * x
        BY <1>4, <2>3
      <4>9. w * a <= f[i] /\ f[i] < w * (a + 1)
        BY <1>4, <2>3, <2>4, <4>6, <4>7, <4>8
      <4>10. QED
        BY <4>9 DEF w
    <3>3. QED
      BY <2>1, <3>1, <3>2
  <2>7. QED
    BY <2>1, <2>5, <2>6
<1> HIDE DEF G
<1>8. \A i \in 0..n : i \in G
  BY <1>1, <1>6, <1>7, Upto
<1>9. n \in G
  BY <1>1, <1>8
<1>10. f[n] < Span(n) /\ Lies(n) /\ f[n] \in Nat
  BY <1>1, <1>2, <1>9 DEF G
<1>11. octets # <<>> => n > 0
  BY DEF n
<1>12. QED
  BY <1>3, <1>5, <1>10, <1>11 DEF n, a

(* A number comes back from its octets.                                    *)
LEMMA NumberBack ==
    ASSUME NEW k \in Nat, NEW n \in Nat, n < Span(k)
    PROVE  NumberOf(OctetsOf(n, k)) = n
<1> DEFINE octets == OctetsOf(n, k)
           f == [i \in 0..k |-> n \div Span(k - i)]
<1>1. octets \in Seq(Octets) /\ Len(octets) = k
  BY OctetsOfIs
<1>2. \A i \in 1..k : octets[i] = (n \div Span(k - i)) % Octet
  BY OctetsOfIs
<1>3. octets \in Seq(Nat)
  BY <1>1, OctetsAre
<1> HIDE DEF octets
<1>4. ASSUME NEW i \in 0..k PROVE f[i] \in Nat /\ f[i] = n \div Span(k - i)
  <2>1. k - i \in Nat
    OBVIOUS
  <2>2. Span(k - i) \in Nat /\ Span(k - i) > 0
    BY <2>1, SpanIs
  <2>3. n \div Span(k - i) \in Nat
    BY <2>2, DivMod
  <2>4. QED
    BY <2>3
<1>5. f \in [0..k -> Nat]
  BY <1>4
<1>6. f[0] = 0
  <2>1. Span(k) \in Nat /\ Span(k) > 0 /\ k - 0 = k
    BY SpanIs
  <2>2. n \in 0..(Span(k) - 1)
    BY <2>1
  <2>3. n \div Span(k) = 0
    BY <2>1, <2>2, ModSmall
  <2>4. QED
    BY <1>4, <2>1, <2>3
<1>7. f[k] = n
  <2>1. Span(k - k) = 1 /\ k \in 0..k
    <3>1. k - k = 0
      OBVIOUS
    <3>2. QED
      BY <3>1, SpanIs
  <2>2. n = 1 * n + 0 /\ 0 \in 0..(1 - 1) /\ 1 \in Nat
    OBVIOUS
  <2>3. n \div 1 = n
    BY <2>2, DivIs
  <2>4. QED
    BY <1>4, <2>1, <2>3
<1>8. ASSUME NEW i \in 1..k PROVE f[i] = f[i - 1] * Octet + octets[i]
  <2> DEFINE w == Span(k - i)
             x == n \div w
  <2>1. k - i \in Nat /\ (k - i) + 1 = k - (i - 1) /\ i \in 0..k /\ i - 1 \in 0..k
    OBVIOUS
  <2>2. w \in Nat /\ w > 0 /\ Octet \in Nat /\ Octet > 0 /\ Span(k - (i - 1)) = Octet * w
    BY <2>1, SpanIs
  <2>3. f[i] = x /\ octets[i] = x % Octet
    BY <1>2, <1>4, <2>1
  <2>4. f[i - 1] = n \div (Octet * w)
    BY <1>4, <2>1, <2>2
  <2> HIDE DEF w, f
  <2>5. n \div (w * Octet) = x \div Octet
    BY <2>2, DivDiv
  <2>6. w * Octet = Octet * w
    BY <2>2
  <2>7. x \in Nat
    BY <2>2, DivMod
  <2> HIDE DEF x
  <2>8. x = Octet * (x \div Octet) + (x % Octet) /\ x \div Octet \in Nat
    BY <2>2, <2>7, DivMod
  <2>9. Octet * (x \div Octet) = (x \div Octet) * Octet
    BY <2>2, <2>8
  <2>10. f[i - 1] = x \div Octet
    BY <2>4, <2>5, <2>6
  <2>11. QED
    BY <2>3, <2>8, <2>9, <2>10
<1> HIDE DEF f
<1>9. NumberOf(octets) = f[k]
  BY <1>1, <1>3, <1>5, <1>6, <1>8, NumberIs
<1>10. QED
  BY <1>7, <1>9 DEF octets

----------------------------------------------------------------------------
(* Lengths that the first octet announces.                                 *)

LEMMA CapacityIs ==
    ASSUME NEW k \in Widths
    PROVE  /\ k \in Nat /\ k - 1 \in Nat /\ (k - 1) + 1 = k
           /\ OctetBits - k \in Nat /\ OctetBits - k + 1 \in Nat
           /\ Capacity(k) \in Nat /\ Capacity(k) > 0
           /\ Capacity(k) = Span(k - 1) * TwoTo(OctetBits - k)
           /\ 2 * Capacity(k) = Span(k - 1) * TwoTo(OctetBits - k + 1)
           /\ 2 * Capacity(k) <= Span(k)
<1> DEFINE b == OctetBits
           p == TwoTo(b - k)
           w == Span(k - 1)
<1>1. b \in Nat /\ b > 0 /\ k \in Nat /\ k > 0 /\ k <= b
  BY CodecAssumption DEF Widths
<1>2. k - 1 \in Nat /\ (k - 1) + 1 = k /\ b - k \in Nat /\ b - 1 \in Nat /\ b - k + 1 <= b
  BY <1>1
<1>3. (b - 1) * k \in Nat /\ b * (k - 1) \in Nat /\ (b - 1) * k = b * (k - 1) + (b - k)
  BY <1>1, <1>2
<1>4. p \in Nat /\ p > 0 /\ TwoTo(b - k + 1) = 2 * p
  BY <1>2, TwoToNext
<1>5. w \in Nat /\ w > 0 /\ Span(k) = Octet * w /\ Octet \in Nat
  BY <1>2, SpanIs
<1>6. Capacity(k) = w * p
  BY <1>2, <1>3, TwoToSum DEF Capacity, Span
<1>7. 2 * p <= Octet
  <2>1. b - k + 1 \in Nat
    BY <1>2
  <2>2. TwoTo(b - k + 1) <= Octet
    BY <1>1, <1>2, <2>1, TwoToGrows DEF Octet
  <2>3. QED
    BY <1>4, <2>2
<1> HIDE DEF p, w, b
<1>8. w * p \in Nat /\ w * p > 0 /\ 2 * (w * p) = w * (2 * p)
  BY <1>4, <1>5
<1>9. w * (2 * p) <= w * Octet /\ w * Octet = Octet * w
  BY <1>4, <1>5, <1>7, TimesGrows
<1>10. QED
  BY <1>1, <1>2, <1>4, <1>5, <1>6, <1>8, <1>9 DEF b, p, w

LEMMA CapacityGrows ==
    ASSUME NEW j \in Widths, NEW k \in Widths, j < k
    PROVE  2 * Capacity(j) <= Capacity(k)
<1> DEFINE b == OctetBits - 1
<1>1. b \in Nat /\ b > 0 /\ j \in Nat /\ k \in Nat
  BY CodecAssumption DEF Widths
<1> HIDE DEF b
<1>2. b * j \in Nat /\ b * k \in Nat /\ b * j + b <= b * k
  BY <1>1, TimesGrows
<1>3. b * j < b * k
  BY <1>1, <1>2
<1>4. QED
  BY <1>2, <1>3, TwoToGrows DEF Capacity, b

(* The range of a width, and that ranges do not overlap.                   *)
Marked(n, k) == Capacity(k) <= n /\ n < 2 * Capacity(k)

LEMMA MarkedOnce ==
    ASSUME NEW n \in Nat, NEW j \in Widths, NEW k \in Widths, Marked(n, j), Marked(n, k)
    PROVE  j = k
<1>1. Capacity(j) \in Nat /\ Capacity(k) \in Nat /\ j \in Nat /\ k \in Nat
  BY CapacityIs
<1>2. ~(j < k)
  BY <1>1, CapacityGrows DEF Marked
<1>3. ~(k < j)
  BY <1>1, CapacityGrows DEF Marked
<1>4. QED
  BY <1>1, <1>2, <1>3

LEMMA AnnouncedIs ==
    ASSUME NEW first \in Octets, first # 0
    PROVE  /\ Announced(first) \in Widths
           /\ TwoTo(OctetBits - Announced(first)) <= first
           /\ first < TwoTo(OctetBits - Announced(first) + 1)
<1> DEFINE Fits(k) == TwoTo(OctetBits - k) <= first /\ first < TwoTo(OctetBits - k + 1)
           Above == {m \in 1..OctetBits : first < TwoTo(m)}
<1>1. first \in Nat /\ first > 0 /\ first < TwoTo(OctetBits)
      /\ OctetBits \in Nat /\ OctetBits > 0
  BY CodecAssumption, SpanIs DEF Octets, Octet
<1>2. Above \subseteq Nat /\ Above # {}
  <2>1. OctetBits \in Above
    BY <1>1
  <2>2. QED
    BY <2>1
<1>3. PICK m \in Above : \A i \in Above : m <= i
  BY <1>2, LeastOf
<1>4. m \in 1..OctetBits /\ first < TwoTo(m) /\ m - 1 \in Nat
  BY <1>3
<1>5. TwoTo(m - 1) <= first
  <2>1. m - 1 \notin Above
    BY <1>3, <1>4
  <2>2. TwoTo(0) = 1 /\ TwoTo(m - 1) \in Nat
    BY <1>4, TwoToNext
  <2>3. CASE m = 1
    <3>1. m - 1 = 0
      BY <2>3
    <3>2. QED
      BY <1>1, <2>2, <3>1
  <2>4. CASE m # 1
    <3>1. m - 1 \in 1..OctetBits
      BY <1>1, <1>4, <2>4
    <3>2. QED
      BY <1>1, <2>1, <2>2, <3>1
  <2>5. QED
    BY <2>3, <2>4
<1> DEFINE j == OctetBits - m + 1
<1>6. j \in Widths /\ OctetBits - j = m - 1 /\ OctetBits - j + 1 = m
  BY <1>1, <1>4 DEF Widths
<1> HIDE DEF j
<1>7. Fits(j)
  BY <1>4, <1>5, <1>6
<1>8. Announced(first) = CHOOSE k \in Widths : Fits(k)
  BY DEF Announced
<1> HIDE DEF Fits
<1>9. Announced(first) \in Widths /\ Fits(Announced(first))
  BY <1>6, <1>7, <1>8
<1>10. QED
  BY <1>9 DEF Fits

(* What is read where it is announced lies in the range of its width.      *)
LEMMA AnnouncedMarked ==
    ASSUME NEW octets \in Seq(Octets), octets # <<>>, octets[1] # 0,
           Announced(octets[1]) = Len(octets)
    PROVE  /\ Len(octets) \in Widths /\ NumberOf(octets) \in Nat
           /\ Marked(NumberOf(octets), Len(octets))
<1> DEFINE a == octets[1]
           k == Len(octets)
           n == NumberOf(octets)
           w == Span(k - 1)
           p == TwoTo(OctetBits - k)
           q == TwoTo(OctetBits - k + 1)
<1>1. /\ n \in Nat /\ a \in Octets
      /\ w * a <= n /\ n < w * (a + 1)
  BY NumberBound
<1>2. k \in Widths /\ p <= a /\ a < q
  BY <1>1, AnnouncedIs
<1>3. w \in Nat /\ p \in Nat /\ q \in Nat /\ a \in Nat
  <2>1. k - 1 \in Nat /\ OctetBits - k \in Nat /\ OctetBits - k + 1 \in Nat
    BY <1>2, CapacityIs
  <2>2. w \in Nat
    BY <2>1, SpanIs
  <2>3. p \in Nat /\ q \in Nat
    BY <2>1, TwoToNext
  <2>4. a \in Nat
    BY <1>1 DEF Octets
  <2>5. QED
    BY <2>2, <2>3, <2>4
<1>4. Capacity(k) = w * p /\ 2 * Capacity(k) = w * q
  BY <1>2, CapacityIs
<1> HIDE DEF a, k, n, w, p, q
<1>5. w * p <= w * a /\ w * p \in Nat /\ w * a \in Nat
  BY <1>2, <1>3, TimesGrows
<1>6. w * (a + 1) <= w * q /\ w * (a + 1) \in Nat /\ w * q \in Nat
  <2>1. a + 1 \in Nat /\ a + 1 <= q
    BY <1>2, <1>3
  <2>2. QED
    BY <1>3, <2>1, TimesGrows
<1>7. w * p <= n /\ n < w * q
  BY <1>1, <1>5, <1>6
<1>8. Marked(n, k)
  BY <1>4, <1>7 DEF Marked
<1>9. QED
  BY <1>1, <1>2, <1>8 DEF k, n

(* A number in the range of a width announces it.                          *)
LEMMA MarkedAnnounced ==
    ASSUME NEW k \in Widths, NEW n \in Nat, Marked(n, k)
    PROVE  /\ n < Span(k)
           /\ OctetsOf(n, k)[1] # 0 /\ Announced(OctetsOf(n, k)[1]) = k
<1> DEFINE octets == OctetsOf(n, k)
           w == Span(k - 1)
           p == TwoTo(OctetBits - k)
           q == TwoTo(OctetBits - k + 1)
           a == n \div w
<1>1. /\ k \in Nat /\ k - 1 \in Nat /\ OctetBits - k \in Nat /\ OctetBits - k + 1 \in Nat
      /\ Capacity(k) = w * p /\ 2 * Capacity(k) = w * q /\ 2 * Capacity(k) <= Span(k)
  BY CapacityIs
<1>2. /\ w \in Nat /\ w > 0 /\ p \in Nat /\ p > 0 /\ q \in Nat /\ Span(k) \in Nat
      /\ Octet \in Nat /\ Octet > 1 /\ OctetBits \in Nat
  BY <1>1, SpanIs, TwoToNext
<1>3. Capacity(k) \in Nat /\ Capacity(k) <= n /\ n < 2 * Capacity(k)
  BY CapacityIs DEF Marked
<1>4. n < Span(k)
  BY <1>1, <1>2, <1>3
<1>5. a \in Nat /\ p <= a /\ a < q
  <2>1. w * p <= n /\ n < w * q
    BY <1>1, <1>3
  <2> HIDE DEF w, p, q
  <2>2. QED
    BY <1>2, <2>1, DivMod, DivBounds DEF a
<1>6. q <= Octet
  <2>1. OctetBits - k + 1 <= OctetBits
    BY <1>2 DEF Widths
  <2>2. QED
    BY <1>1, <1>2, <2>1, TwoToGrows DEF Octet
<1>7. octets \in Seq(Octets) /\ Len(octets) = k /\ 1 \in 1..k /\ octets[1] = (n \div Span(k - 1)) % Octet
  BY <1>1, OctetsOfIs DEF Widths
<1>8. octets[1] = a
  <2>1. octets[1] = a % Octet
    BY <1>7
  <2> HIDE DEF a, octets, q, p
  <2>2. a \in 0..(Octet - 1)
    BY <1>2, <1>5, <1>6
  <2>3. a % Octet = a
    BY <1>2, <2>2, ModSmall
  <2>4. QED
    BY <2>1, <2>3
<1> HIDE DEF a, octets
<1>9. a \in Octets /\ a # 0
  BY <1>2, <1>5, <1>6 DEF Octets
<1> DEFINE j == Announced(a)
<1>10. j \in Widths /\ TwoTo(OctetBits - j) <= a /\ a < TwoTo(OctetBits - j + 1)
  BY <1>9, AnnouncedIs
<1> HIDE DEF j, p, q
<1>11. OctetBits - j \in Nat /\ OctetBits - j + 1 \in Nat /\ j \in Nat
  BY <1>10, CapacityIs
<1>12. TwoTo(OctetBits - j) \in Nat /\ TwoTo(OctetBits - j + 1) \in Nat
  BY <1>11, TwoToNext
<1>13. ~(j < k)
  <2>1. j < k => OctetBits - k + 1 <= OctetBits - j
    BY <1>1, <1>2, <1>11
  <2>2. j < k => q <= TwoTo(OctetBits - j)
    BY <1>1, <1>11, <2>1, TwoToGrows DEF q
  <2>3. QED
    BY <1>2, <1>5, <1>10, <1>12, <2>2
<1>14. ~(k < j)
  <2>1. k < j => OctetBits - j + 1 <= OctetBits - k
    BY <1>1, <1>2, <1>11
  <2>2. k < j => TwoTo(OctetBits - j + 1) <= p
    BY <1>1, <1>11, <2>1, TwoToGrows DEF p
  <2>3. QED
    BY <1>2, <1>5, <1>10, <1>12, <2>2
<1>15. j = k
  BY <1>1, <1>11, <1>13, <1>14
<1>16. QED
  BY <1>4, <1>8, <1>9, <1>15 DEF j, octets

(* What the two readers of lengths return.                                 *)
LEMMA GatheredIs ==
    ASSUME NEW octets \in Seq(Octets), NEW keep \in BOOLEAN, Ok(Gathered(octets, keep))
    PROVE  LET all == Gathered(octets, keep)
               n == NumberOf(SubSeq(octets, 1, all.len))
           IN  /\ all.len \in Widths /\ all.len <= Len(octets)
               /\ n \in Nat /\ Marked(n, all.len)
               /\ all.value = IF keep THEN n ELSE n - Capacity(all.len)
<1> DEFINE k == Announced(octets[1])
           first == SubSeq(octets, 1, k)
           n == NumberOf(first)
<1>1. octets # <<>> /\ octets[1] # 0
  BY DEF Gathered, Ok, Failed
<1>2. ~(Len(octets) < k)
  BY <1>1 DEF Gathered, Ok, Failed
<1>3. Gathered(octets, keep) = Got(IF keep THEN n ELSE n - Capacity(k), k)
  BY <1>1, <1>2 DEF Gathered
<1>4. octets[1] \in Octets
  BY <1>1, NumberBound
<1>5. k \in Widths
  BY <1>1, <1>4, AnnouncedIs
<1> HIDE DEF k
<1>6. k \in Nat /\ k >= 1 /\ k <= Len(octets)
  BY <1>2, <1>5, CodecAssumption DEF Widths
<1>7. first \in Seq(Octets) /\ Len(first) = k /\ first[1] = octets[1] /\ first # <<>>
  BY <1>6
<1> HIDE DEF first
<1>8. n \in Nat /\ Marked(n, k)
  BY <1>1, <1>7, AnnouncedMarked DEF k
<1> HIDE DEF n
<1>9. Gathered(octets, keep).len = k
      /\ Gathered(octets, keep).value = IF keep THEN n ELSE n - Capacity(k)
  BY <1>3 DEF Got
<1>10. QED
  BY <1>5, <1>6, <1>8, <1>9 DEF n, first

LEMMA VintReadIs ==
    ASSUME NEW octets \in Seq(Octets), Ok(VintRead(octets))
    PROVE  LET size == VintRead(octets)
           IN  /\ size.len \in Widths /\ size.len \in Nat /\ size.len <= Len(octets)
               /\ size.value \in Nat /\ size.value < Capacity(size.len)
<1> DEFINE size == VintRead(octets)
           n == NumberOf(SubSeq(octets, 1, size.len))
<1>1. /\ size.len \in Widths /\ size.len <= Len(octets)
      /\ n \in Nat /\ Marked(n, size.len) /\ size.value = n - Capacity(size.len)
  BY GatheredIs DEF VintRead
<1> HIDE DEF size, n
<1>2. Capacity(size.len) \in Nat /\ size.len \in Nat
  BY <1>1, CapacityIs
<1>3. QED
  BY <1>1, <1>2 DEF Marked, size

(* Something begins with these octets.                                     *)
Begins(octets, head) ==
    /\ Len(head) <= Len(octets)
    /\ \A i \in 1..Len(head) : octets[i] = head[i]

LEMMA GatheredBack ==
    ASSUME NEW octets \in Seq(Octets), NEW k \in Widths, NEW n \in Nat, Marked(n, k),
           Begins(octets, OctetsOf(n, k)), NEW keep \in BOOLEAN
    PROVE  Gathered(octets, keep) = Got(IF keep THEN n ELSE n - Capacity(k), k)
<1> DEFINE head == OctetsOf(n, k)
<1>1. k \in Nat /\ k >= 1
  BY CodecAssumption DEF Widths
<1>2. head \in Seq(Octets) /\ Len(head) = k
  BY <1>1, OctetsOfIs
<1>3. n < Span(k) /\ head[1] # 0 /\ Announced(head[1]) = k
  BY MarkedAnnounced
<1>4. NumberOf(head) = n
  BY <1>1, <1>3, NumberBack
<1> HIDE DEF head
<1>5. k <= Len(octets) /\ \A i \in 1..k : octets[i] = head[i]
  BY <1>2 DEF Begins, head
<1>6. octets # <<>> /\ octets[1] = head[1]
  BY <1>1, <1>5
<1>7. SubSeq(octets, 1, k) = head
  <2> DEFINE sub == SubSeq(octets, 1, k)
  <2>1. sub \in Seq(Octets) /\ Len(sub) = k /\ \A i \in 1..k : sub[i] = octets[i]
    BY <1>1, <1>5
  <2> HIDE DEF sub
  <2>2. sub = [i \in 1..k |-> octets[i]] /\ head = [i \in 1..k |-> head[i]]
    BY <1>2, <2>1
  <2>3. QED
    BY <1>5, <2>2 DEF sub
<1>8. ~(Len(octets) < k)
  BY <1>1, <1>5
<1>9. QED
  BY <1>3, <1>4, <1>6, <1>7, <1>8 DEF Gathered

----------------------------------------------------------------------------
(* Variable-length integers.                                               *)

LEMMA VintSizeIs ==
    ASSUME NEW n, V!IsVint(n)
    PROVE  /\ n \in Nat /\ V!VintSize(n) \in Widths /\ n < Capacity(V!VintSize(n))
           /\ \A k \in Widths : n < Capacity(k) => V!VintSize(n) <= k
<1> DEFINE limit == [k \in Widths |-> Capacity(k)]
           Fit == {k \in Widths : n < Capacity(k)}
           Is(k) == n < Capacity(k) /\ \A j \in 1..(k - 1) : ~(n < Capacity(j))
<1>1. OctetBits \in Nat /\ OctetBits > 0 /\ Widths = 1..OctetBits
  BY CodecAssumption DEF Widths
<1>2. Len(limit) = OctetBits /\ \A k \in Widths : limit[k] = Capacity(k)
  BY <1>1
<1>3. n \in Nat /\ n < Capacity(OctetBits)
  BY <1>1, <1>2 DEF V!IsVint
<1>4. OctetBits \in Fit /\ Fit \subseteq Nat
  BY <1>1, <1>3
<1>5. PICK m \in Fit : \A i \in Fit : m <= i
  BY <1>4, LeastOf
<1>6. m \in Widths /\ Is(m)
  <2>1. ASSUME NEW j \in 1..(m - 1) PROVE ~(n < Capacity(j))
    <3>1. j \in Widths /\ j < m /\ m \in Nat /\ j \in Nat
      BY <1>1, <1>5
    <3>2. QED
      BY <1>5, <3>1
  <2>2. QED
    BY <1>5, <2>1
<1>7. V!VintSize(n) = CHOOSE k \in Widths : Is(k)
  <2>1. \A k \in Widths : V!FitsIn(n, k) <=> n < Capacity(k)
    BY <1>2 DEF V!FitsIn
  <2>2. V!Widths = Widths
    BY <1>1, <1>2 DEF V!Widths
  <2>3. \A k \in Widths : \A j \in 1..(k - 1) : j \in Widths
    BY <1>1
  <2>4. \A k \in Widths :
            Is(k) <=> V!FitsIn(n, k) /\ \A j \in 1..(k - 1) : ~V!FitsIn(n, j)
    BY <2>1, <2>3
  <2> HIDE DEF Is
  <2>5. QED
    BY <2>2, <2>4 DEF V!VintSize
<1> HIDE DEF Is
<1>8. V!VintSize(n) \in Widths /\ Is(V!VintSize(n))
  BY <1>6, <1>7
<1> DEFINE z == V!VintSize(n)
<1>9. z \in Widths /\ n < Capacity(z) /\ \A j \in 1..(z - 1) : ~(n < Capacity(j))
  BY <1>8 DEF Is
<1> HIDE DEF z
<1>10. ASSUME NEW k \in Widths, n < Capacity(k) PROVE z <= k
  <2>1. k \in Nat /\ k >= 1 /\ z \in Nat
    BY <1>1, <1>9
  <2>2. z > k => k \in 1..(z - 1)
    BY <2>1
  <2>3. QED
    BY <1>9, <1>10, <2>1, <2>2
<1>11. QED
  BY <1>3, <1>9, <1>10 DEF z

(* What decode() and read() make of what encode() and write() left.        *)
LEMMA VintBack ==
    ASSUME NEW n, V!IsVint(n), NEW octets \in Seq(Octets), Begins(octets, VintOctets(n, 0))
    PROVE  VintRead(octets) = Got(n, V!VintSize(n))
<1> DEFINE k == V!VintSize(n)
<1>1. n \in Nat /\ k \in Widths /\ n < Capacity(k)
  BY VintSizeIs
<1>2. VintOctets(n, 0) = OctetsOf(n + Capacity(k), k)
  BY DEF VintOctets, VintWidth
<1> HIDE DEF k
<1>3. Capacity(k) \in Nat
  BY <1>1, CapacityIs
<1>4. n + Capacity(k) \in Nat /\ Marked(n + Capacity(k), k)
      /\ (n + Capacity(k)) - Capacity(k) = n
  BY <1>1, <1>3 DEF Marked
<1>5. VintRead(octets) = Got((n + Capacity(k)) - Capacity(k), k)
  BY <1>1, <1>2, <1>4, GatheredBack DEF VintRead
<1>6. QED
  BY <1>4, <1>5 DEF k

----------------------------------------------------------------------------
(* IDs.                                                                    *)

LEMMA IdWidthIs ==
    ASSUME NEW k \in IdWidths
    PROVE  k \in Widths /\ k \in Nat /\ MaxIdLen \in Nat /\ k <= MaxIdLen
  BY CodecAssumption DEF IdWidths, Widths

LEMMA IdSizeIs ==
    ASSUME NEW id \in Int, IsId(id)
    PROVE  /\ IdSize(id) \in IdWidths /\ IdSize(id) \in Widths /\ IdSize(id) \in Nat
           /\ id \in Nat /\ Marked(id, IdSize(id)) /\ id < Span(MaxIdLen)
<1> DEFINE k == IdSize(id)
<1>1. k \in IdWidths /\ IdFitsIn(id, k)
  BY DEF IdSize, IsId
<1> HIDE DEF k
<1>2. k \in Widths /\ k \in Nat /\ MaxIdLen \in Nat /\ k <= MaxIdLen
  BY <1>1, IdWidthIs
<1>3. Capacity(k) \in Nat /\ 2 * Capacity(k) <= Span(k)
  BY <1>2, CapacityIs
<1>4. Span(k) \in Nat /\ Span(MaxIdLen) \in Nat /\ Span(k) <= Span(MaxIdLen)
  BY <1>2, SpanIs, SpanGrows
<1>5. id \in Nat /\ Capacity(k) <= id /\ id < 2 * Capacity(k)
  BY <1>1, <1>3 DEF IdFitsIn
<1>6. id < Span(MaxIdLen)
  BY <1>3, <1>4, <1>5
<1>7. QED
  BY <1>1, <1>2, <1>5, <1>6 DEF Marked, k

LEMMA IdSpan == MaxIdLen \in Nat /\ Span(MaxIdLen) \in Nat /\ Span(MaxIdLen) > 0
<1>1. MaxIdLen \in Nat
  BY CodecAssumption
<1>2. QED
  BY <1>1, SpanIs

LEMMA IdBack ==
    ASSUME NEW id \in Int, IsId(id), NEW octets \in Seq(Octets), Begins(octets, IdOctets(id))
    PROVE  IdRead(octets) = Got(id, IdSize(id))
<1> DEFINE k == IdSize(id)
           all == Gathered(octets, TRUE)
<1>1. k \in Widths /\ id \in Nat /\ Marked(id, k) /\ id < Span(MaxIdLen)
  BY IdSizeIs
<1>2. IdOctets(id) = OctetsOf(id, k)
  BY DEF IdOctets
<1> HIDE DEF k
<1>3. all = Got(id, k)
  BY <1>1, <1>2, GatheredBack
<1> HIDE DEF all
<1>4. Ok(all) /\ all.value = id /\ all.len = k
  BY <1>3 DEF Ok, Got
<1>5. id % Span(MaxIdLen) = id
  <2>1. id \in 0..(Span(MaxIdLen) - 1) /\ Span(MaxIdLen) \in Nat
    BY <1>1, IdSpan
  <2>2. QED
    BY <2>1, ModSmall
<1>6. QED
  BY <1>4, <1>5 DEF IdRead, all, k

LEMMA IdReadIs ==
    ASSUME NEW octets \in Seq(Octets), Ok(IdRead(octets))
    PROVE  LET id == IdRead(octets)
           IN  /\ id.len \in Widths /\ id.len \in Nat /\ id.len <= Len(octets)
               /\ id.value \in Nat /\ IsId(id.value) /\ IdSize(id.value) <= id.len
<1> DEFINE all == Gathered(octets, TRUE)
           n == NumberOf(SubSeq(octets, 1, all.len))
           id == n % Span(MaxIdLen)
           k == all.len
<1>1. Ok(all)
  BY DEF IdRead, Ok, Failed
<1>2. k \in Widths /\ k <= Len(octets) /\ n \in Nat /\ Marked(n, k) /\ all.value = n
  BY <1>1, GatheredIs
<1>3. IsId(all.value % Span(MaxIdLen))
  BY <1>1 DEF IdRead, Ok, Failed
<1>4. IdRead(octets) = Got(all.value % Span(MaxIdLen), k)
  BY <1>1, <1>3 DEF IdRead
<1>5. IsId(id) /\ IdRead(octets) = Got(id, k)
  BY <1>2, <1>3, <1>4
<1> HIDE DEF all, n, k
<1>6. id \in Nat
  BY <1>2, IdSpan, DivMod
<1> DEFINE z == IdSize(id)
<1>7. z \in Widths /\ z \in Nat /\ Marked(id, z) /\ z <= MaxIdLen
  <2>1. id \in Int
    BY <1>6
  <2>2. z \in IdWidths /\ z \in Widths /\ z \in Nat /\ Marked(id, z)
    BY <1>5, <2>1, IdSizeIs
  <2>3. QED
    BY <2>2, IdWidthIs
<1>8. k \in Nat
  BY <1>2, CapacityIs
<1>9. z <= k
  <2>1. CASE k > MaxIdLen
    BY <1>7, <1>8, <2>1, IdSpan
  <2>2. CASE k <= MaxIdLen
    <3>1. Span(k) \in Nat /\ Span(k) <= Span(MaxIdLen) /\ 2 * Capacity(k) <= Span(k)
      BY <1>2, <1>8, <2>2, IdSpan, SpanIs, SpanGrows, CapacityIs
    <3>2. Capacity(k) \in Nat /\ n < 2 * Capacity(k)
      BY <1>2, CapacityIs DEF Marked
    <3>3. n \in 0..(Span(MaxIdLen) - 1)
      BY <1>2, <3>1, <3>2, IdSpan
    <3>4. id = n
      BY <3>3, IdSpan, ModSmall
    <3> HIDE DEF id, z
    <3>5. z = k
      BY <1>2, <1>7, <3>4, MarkedOnce
    <3>6. QED
      BY <1>8, <3>5
  <2>3. QED
    BY <1>8, <2>1, <2>2, IdSpan
<1> HIDE DEF id
<1>10. IdRead(octets).len = k /\ IdRead(octets).value = id
  BY <1>5 DEF Got
<1>11. QED
  BY <1>2, <1>5, <1>6, <1>8, <1>9, <1>10 DEF k

----------------------------------------------------------------------------
(* Integers in bodies.                                                     *)

LEMMA HalfIs ==
    ASSUME NEW k \in Nat, k > 0
    PROVE  /\ k - 1 \in Nat /\ Half(k) \in Nat /\ Half(k) > 0 /\ Span(k) = 2 * Half(k)
           /\ Octet \div 2 \in Nat /\ Octet = 2 * (Octet \div 2)
           /\ Half(k) = Span(k - 1) * (Octet \div 2)
<1>1. OctetBits \in Nat /\ OctetBits - 1 \in Nat /\ (OctetBits - 1) + 1 = OctetBits
      /\ k - 1 \in Nat /\ (k - 1) + 1 = k
  BY CodecAssumption
<1> DEFINE h == TwoTo(OctetBits - 1)
           w == Span(k - 1)
<1>2. h \in Nat /\ h > 0 /\ Octet = 2 * h
  BY <1>1, TwoToNext DEF Octet
<1>3. w \in Nat /\ w > 0 /\ Span(k) = Octet * w
  BY <1>1, SpanIs
<1> HIDE DEF h, w
<1>4. Octet \div 2 = h
  BY <1>2
<1>5. w * h \in Nat /\ w * h > 0 /\ (2 * h) * w = 2 * (w * h)
  BY <1>2, <1>3
<1> DEFINE x == w * h
<1> HIDE DEF x
<1>6. x \in Nat /\ x > 0 /\ Span(k) = 2 * x
  BY <1>2, <1>3, <1>5 DEF x
<1>7. Half(k) = x
  <2>1. (2 * x) \div 2 = x
    BY <1>6
  <2>2. QED
    BY <1>6, <2>1 DEF Half
<1>8. QED
  BY <1>1, <1>2, <1>4, <1>6, <1>7 DEF x, w

LEMMA LeastUIs ==
    ASSUME NEW n \in Nat, n < Span(OctetBits)
    PROVE  /\ LeastU(n) \in Widths /\ LeastU(n) \in Nat /\ LeastU(n) > 0 /\ n < Span(LeastU(n))
           /\ \A k \in Widths : n < Span(k) => LeastU(n) <= k
<1> DEFINE Is(k) == UFitsIn(n, k) /\ \A j \in 1..(k - 1) : ~UFitsIn(n, j)
           Fit == {k \in Widths : UFitsIn(n, k)}
           z == LeastU(n)
<1>1. OctetBits \in Nat /\ OctetBits > 0 /\ Widths = 1..OctetBits
  BY CodecAssumption DEF Widths
<1>2. OctetBits \in Fit /\ Fit \subseteq Nat
  BY <1>1 DEF UFitsIn
<1>3. PICK m \in Fit : \A i \in Fit : m <= i
  BY <1>2, LeastOf
<1>4. m \in Widths /\ Is(m)
  <2>1. ASSUME NEW j \in 1..(m - 1) PROVE ~UFitsIn(n, j)
    <3>1. j \in Widths /\ j < m /\ m \in Nat /\ j \in Nat
      BY <1>1, <1>3
    <3>2. QED
      BY <1>3, <3>1
  <2>2. QED
    BY <1>3, <2>1
<1>5. z = CHOOSE k \in Widths : Is(k)
  BY DEF LeastU
<1> HIDE DEF z, Is
<1>6. z \in Widths /\ Is(z)
  BY <1>4, <1>5
<1>7. z \in Nat /\ z > 0 /\ n < Span(z) /\ \A j \in 1..(z - 1) : ~(n < Span(j))
  BY <1>1, <1>6 DEF Is, UFitsIn
<1>8. ASSUME NEW k \in Widths, n < Span(k) PROVE z <= k
  <2>1. k \in Nat /\ k >= 1
    BY <1>1
  <2>2. z > k => k \in 1..(z - 1)
    BY <1>7, <2>1
  <2>3. QED
    BY <1>7, <1>8, <2>1, <2>2
<1>9. QED
  BY <1>6, <1>7, <1>8 DEF z

LEMMA LeastSIs ==
    ASSUME NEW n \in Int, -Half(OctetBits) <= n, n < Half(OctetBits)
    PROVE  /\ LeastS(n) \in Widths /\ LeastS(n) \in Nat /\ LeastS(n) > 0
           /\ -Half(LeastS(n)) <= n /\ n < Half(LeastS(n))
           /\ \A k \in Widths : -Half(k) <= n /\ n < Half(k) => LeastS(n) <= k
<1> DEFINE Is(k) == SFitsIn(n, k) /\ \A j \in 1..(k - 1) : ~SFitsIn(n, j)
           Fit == {k \in Widths : SFitsIn(n, k)}
           z == LeastS(n)
<1>1. OctetBits \in Nat /\ OctetBits > 0 /\ Widths = 1..OctetBits
  BY CodecAssumption DEF Widths
<1>2. OctetBits \in Fit /\ Fit \subseteq Nat
  BY <1>1 DEF SFitsIn
<1>3. PICK m \in Fit : \A i \in Fit : m <= i
  BY <1>2, LeastOf
<1>4. m \in Widths /\ Is(m)
  <2>1. ASSUME NEW j \in 1..(m - 1) PROVE ~SFitsIn(n, j)
    <3>1. j \in Widths /\ j < m /\ m \in Nat /\ j \in Nat
      BY <1>1, <1>3
    <3>2. QED
      BY <1>3, <3>1
  <2>2. QED
    BY <1>3, <2>1
<1>5. z = CHOOSE k \in Widths : Is(k)
  BY DEF LeastS
<1> HIDE DEF z, Is
<1>6. z \in Widths /\ Is(z)
  BY <1>4, <1>5
<1>7. z \in Nat /\ z > 0 /\ SFitsIn(n, z) /\ \A j \in 1..(z - 1) : ~SFitsIn(n, j)
  BY <1>1, <1>6 DEF Is
<1>8. ASSUME NEW k \in Widths, SFitsIn(n, k) PROVE z <= k
  <2>1. k \in Nat /\ k >= 1
    BY <1>1
  <2>2. z > k => k \in 1..(z - 1)
    BY <1>7, <2>1
  <2>3. QED
    BY <1>7, <1>8, <2>1, <2>2
<1>9. \A k \in Widths : SFitsIn(n, k) <=> -Half(k) <= n /\ n < Half(k)
  BY DEF SFitsIn
<1>10. QED
  BY <1>6, <1>7, <1>8, <1>9 DEF z

LEMMA UBack ==
    ASSUME NEW n \in Nat, n < Span(OctetBits)
    PROVE  /\ SizeU(n) \in Nat /\ EncodeU(n) \in Seq(Octets) /\ Len(EncodeU(n)) = SizeU(n)
           /\ DecodeU(EncodeU(n)) = n
<1> DEFINE k == SizeU(n)
<1>1. k \in Nat /\ n < Span(k)
  <2>1. CASE n = 0
    <3>1. k = 0
      BY <2>1 DEF SizeU
    <3>2. QED
      BY <2>1, <3>1, SpanIs
  <2>2. CASE n # 0
    <3>1. k = LeastU(n)
      BY <2>2 DEF SizeU
    <3>2. QED
      BY <3>1, LeastUIs
  <2>3. QED
    BY <2>1, <2>2
<1>2. EncodeU(n) = OctetsOf(n, k)
  BY DEF EncodeU
<1> HIDE DEF k
<1>3. OctetsOf(n, k) \in Seq(Octets) /\ Len(OctetsOf(n, k)) = k
  BY <1>1, OctetsOfIs
<1>4. NumberOf(OctetsOf(n, k)) = n
  BY <1>1, NumberBack
<1>5. QED
  BY <1>1, <1>2, <1>3, <1>4 DEF DecodeU, k

(* Octets never decode to a number that needs more of them.                *)
LEMMA UShort ==
    ASSUME NEW octets \in Seq(Octets), Len(octets) <= OctetBits
    PROVE  /\ DecodeU(octets) \in Nat /\ DecodeU(octets) < Span(OctetBits)
           /\ SizeU(DecodeU(octets)) \in Nat /\ SizeU(DecodeU(octets)) <= Len(octets)
<1> DEFINE n == NumberOf(octets)
           k == Len(octets)
<1>1. n \in Nat /\ n < Span(k) /\ k \in Nat /\ OctetBits \in Nat
  BY NumberBound, SpanIs
<1>2. Span(k) <= Span(OctetBits) /\ Span(k) \in Nat /\ Span(OctetBits) \in Nat
  BY <1>1, SpanIs, SpanGrows
<1>3. n < Span(OctetBits)
  <2> HIDE DEF n, k
  <2>1. QED
    BY <1>1, <1>2
<1>4. SizeU(n) \in Nat /\ SizeU(n) <= k
  <2>1. CASE n = 0
    BY <1>1, <2>1 DEF SizeU
  <2>2. CASE n # 0
    <3>1. SizeU(n) = LeastU(n)
      BY <2>2 DEF SizeU
    <3>2. k # 0
      <4>1. Span(0) = 1
        BY SpanIs
      <4> HIDE DEF n, k
      <4>2. QED
        BY <1>1, <2>2, <4>1
    <3>3. k \in Widths
      BY <1>1, <3>2 DEF Widths
    <3> HIDE DEF n, k
    <3>4. QED
      BY <1>1, <1>3, <3>1, <3>3, LeastUIs
  <2>3. QED
    BY <2>1, <2>2
<1>5. QED
  BY <1>1, <1>3, <1>4 DEF DecodeU

(* The first octet has the sign.                                           *)
LEMMA SignIs ==
    ASSUME NEW octets \in Seq(Octets), octets # <<>>
    PROVE  octets[1] >= Octet \div 2 <=> NumberOf(octets) >= Half(Len(octets))
<1> DEFINE n == NumberOf(octets)
           k == Len(octets)
           a == octets[1]
           w == Span(k - 1)
           h == Octet \div 2
<1>1. n \in Nat /\ a \in Octets /\ w * a <= n /\ n < w * (a + 1)
  BY NumberBound
<1>2. k \in Nat /\ k > 0
  OBVIOUS
<1>3. k - 1 \in Nat /\ h \in Nat /\ Half(k) = w * h
  BY <1>2, HalfIs
<1>4. w \in Nat /\ a \in Nat
  BY <1>1, <1>3, SpanIs DEF Octets
<1> HIDE DEF n, k, a, w, h
<1>5. w * h \in Nat /\ w * a \in Nat /\ w * (a + 1) \in Nat
  BY <1>3, <1>4
<1>6. ASSUME a >= h PROVE n >= Half(k)
  <2>1. w * h <= w * a
    BY <1>3, <1>4, <1>6, TimesGrows
  <2>2. QED
    BY <1>1, <1>3, <1>5, <2>1
<1>7. ASSUME ~(a >= h) PROVE ~(n >= Half(k))
  <2>1. a + 1 \in Nat /\ a + 1 <= h
    BY <1>3, <1>4, <1>7
  <2>2. w * (a + 1) <= w * h
    BY <1>3, <1>4, <2>1, TimesGrows
  <2>3. QED
    BY <1>1, <1>3, <1>5, <2>2
<1>8. QED
  BY <1>6, <1>7 DEF n, k, a, h

LEMMA SignedIs ==
    ASSUME NEW octets \in Seq(Octets)
    PROVE  /\ DecodeS(octets) \in Int
           /\ octets = <<>> => DecodeS(octets) = 0
           /\ octets # <<>> => /\ -Half(Len(octets)) <= DecodeS(octets)
                               /\ DecodeS(octets) < Half(Len(octets))
<1> DEFINE n == NumberOf(octets)
           k == Len(octets)
<1>1. n \in Nat /\ n < Span(k) /\ k \in Nat
  BY NumberBound
<1>2. CASE octets = <<>>
  <2>1. k = 0 /\ ~Negative(octets) /\ Span(0) = 1
    BY <1>2, SpanIs DEF Negative
  <2>2. DecodeS(octets) = n - 0
    BY <2>1 DEF DecodeS
  <2> HIDE DEF n, k
  <2>3. QED
    BY <1>1, <1>2, <2>1, <2>2
<1>3. CASE octets # <<>>
  <2>1. Negative(octets) <=> n >= Half(k)
    BY <1>3, SignIs DEF Negative
  <2>2. k > 0
    BY <1>3
  <2>3. DecodeS(octets) = n - (IF Negative(octets) THEN Span(k) ELSE 0)
    BY DEF DecodeS
  <2> DEFINE x == DecodeS(octets)
  <2> HIDE DEF n, k, x
  <2>4. Half(k) \in Nat /\ Span(k) = 2 * Half(k)
    BY <1>1, <2>2, HalfIs
  <2>5. x \in Int /\ -Half(k) <= x /\ x < Half(k)
    BY <1>1, <2>1, <2>3, <2>4 DEF x
  <2>6. QED
    BY <1>3, <2>5 DEF x, k
<1>4. QED
  BY <1>2, <1>3

LEMMA ModShift ==
    ASSUME NEW b \in Nat, NEW a \in Int, a < 0, -b <= a
    PROVE  a % b = a + b
<1>1. b > 0 /\ a + b \in 0..(b - 1)
  OBVIOUS
<1>2. a % b \in 0..(b - 1) /\ a = b * (a \div b) + (a % b) /\ a \div b \in Int
  BY <1>1
<1> DEFINE q == a \div b
           r == a % b
<1> HIDE DEF q, r
<1>3. q \in Int /\ r \in 0..(b - 1) /\ a = b * q + r
  BY <1>2 DEF q, r
<1>4. q = -1
  <2>1. CASE q >= 0
    <3>1. b * q >= 0 /\ b * q \in Int
      BY <1>1, <1>3, <2>1
    <3>2. QED
      BY <1>3, <3>1
  <2>2. CASE q <= -2
    <3> DEFINE p == -q
    <3>1. p \in Nat /\ 2 <= p
      BY <1>3, <2>2
    <3>2. b * 2 <= b * p /\ b * p \in Nat
      BY <3>1, TimesGrows
    <3>3. b * q = -(b * p)
      BY <1>3
    <3> HIDE DEF p
    <3>4. QED
      BY <1>1, <1>3, <3>1, <3>2, <3>3
  <2>3. QED
    BY <1>3, <2>1, <2>2
<1>5. QED
  BY <1>3, <1>4 DEF r

(* A signed number comes back from its two's complement.                   *)
LEMMA SignedBack ==
    ASSUME NEW k \in Nat, k > 0, NEW n \in Int, -Half(k) <= n, n < Half(k)
    PROVE  /\ n % Span(k) \in Nat
           /\ OctetsOf(n % Span(k), k) \in Seq(Octets) /\ Len(OctetsOf(n % Span(k), k)) = k
           /\ DecodeS(OctetsOf(n % Span(k), k)) = n
<1> DEFINE m == n % Span(k)
           octets == OctetsOf(m, k)
<1>1. Half(k) \in Nat /\ Half(k) > 0 /\ Span(k) = 2 * Half(k) /\ Span(k) \in Nat
  BY HalfIs, SpanIs
<1>2. m = IF n < 0 THEN n + Span(k) ELSE n
  <2>1. CASE n < 0
    <3>1. -Span(k) <= n
      BY <1>1
    <3>2. QED
      BY <1>1, <2>1, <3>1, ModShift
  <2>2. CASE n >= 0
    <3>1. n \in 0..(Span(k) - 1)
      BY <1>1, <2>2
    <3>2. QED
      BY <1>1, <2>2, <3>1, ModSmall
  <2>3. QED
    BY <2>1, <2>2
<1> HIDE DEF m
<1>3. m \in Nat /\ m < Span(k) /\ (n < 0 <=> m >= Half(k))
  BY <1>1, <1>2
<1>4. octets \in Seq(Octets) /\ Len(octets) = k /\ NumberOf(octets) = m
  BY <1>3, OctetsOfIs, NumberBack
<1> HIDE DEF octets
<1>5. octets # <<>>
  BY <1>4
<1>6. Negative(octets) <=> m >= Half(k)
  BY <1>4, <1>5, SignIs DEF Negative
<1>7. DecodeS(octets) = m - (IF Negative(octets) THEN Span(k) ELSE 0)
  BY <1>4 DEF DecodeS
<1>8. DecodeS(octets) = n
  BY <1>1, <1>2, <1>3, <1>6, <1>7
<1>9. QED
  BY <1>3, <1>4, <1>8 DEF octets, m

LEMMA SBack ==
    ASSUME NEW n \in Int, -Half(OctetBits) <= n, n < Half(OctetBits)
    PROVE  /\ SizeS(n) \in Nat /\ EncodeS(n) \in Seq(Octets) /\ Len(EncodeS(n)) = SizeS(n)
           /\ DecodeS(EncodeS(n)) = n
<1>1. CASE n = 0
  <2>1. SizeS(n) = 0 /\ n % Span(0) = 0
    BY <1>1, SpanIs DEF SizeS
  <2>2. OctetsOf(0, 0) \in Seq(Octets) /\ Len(OctetsOf(0, 0)) = 0
    BY OctetsOfIs
  <2>3. OctetsOf(0, 0) = <<>>
    BY <2>2
  <2>4. EncodeS(n) = <<>>
    BY <2>1, <2>3 DEF EncodeS
  <2>5. DecodeS(EncodeS(n)) = 0
    BY <2>2, <2>3, <2>4, SignedIs
  <2>6. QED
    BY <1>1, <2>1, <2>2, <2>3, <2>4, <2>5
<1>2. CASE n # 0
  <2> DEFINE k == LeastS(n)
  <2>1. SizeS(n) = k /\ EncodeS(n) = OctetsOf(n % Span(k), k)
    BY <1>2 DEF SizeS, EncodeS
  <2>2. k \in Nat /\ k > 0 /\ -Half(k) <= n /\ n < Half(k)
    BY LeastSIs
  <2> HIDE DEF k
  <2>3. QED
    BY <2>1, <2>2, SignedBack
<1>3. QED
  BY <1>1, <1>2

LEMMA HalfGrows ==
    ASSUME NEW j \in Nat, j > 0, NEW k \in Nat, j <= k
    PROVE  Half(j) \in Nat /\ Half(k) \in Nat /\ Half(j) <= Half(k)
<1>1. Span(j) <= Span(k)
  BY SpanGrows
<1>2. /\ Half(j) \in Nat /\ Span(j) = 2 * Half(j)
      /\ Half(k) \in Nat /\ Span(k) = 2 * Half(k)
  BY HalfIs
<1>3. QED
  BY <1>1, <1>2

LEMMA SShort ==
    ASSUME NEW octets \in Seq(Octets), Len(octets) <= OctetBits
    PROVE  /\ DecodeS(octets) \in -Half(OctetBits)..(Half(OctetBits) - 1)
           /\ SizeS(DecodeS(octets)) \in Nat /\ SizeS(DecodeS(octets)) <= Len(octets)
<1> DEFINE n == DecodeS(octets)
           k == Len(octets)
<1>1. k \in Nat /\ n \in Int /\ OctetBits \in Nat /\ OctetBits > 0
  BY SignedIs, CodecAssumption
<1>2. Half(OctetBits) \in Nat /\ Half(OctetBits) > 0
  BY <1>1, HalfIs
<1>3. CASE octets = <<>>
  <2>1. n = 0 /\ SizeS(n) = 0 /\ k = 0
    BY <1>3, SignedIs DEF SizeS
  <2> HIDE DEF n, k
  <2>2. QED
    BY <1>2, <2>1 DEF n, k
<1>4. CASE octets # <<>>
  <2>1. -Half(k) <= n /\ n < Half(k) /\ k > 0
    BY <1>4, SignedIs
  <2>2. k \in Widths
    BY <1>1, <2>1 DEF Widths
  <2> HIDE DEF n, k
  <2>3. Half(k) \in Nat /\ Half(k) <= Half(OctetBits)
    <3>1. k <= OctetBits
      BY DEF k
    <3>2. QED
      BY <1>1, <2>1, <3>1, HalfGrows
  <2>4. -Half(OctetBits) <= n /\ n < Half(OctetBits)
    BY <1>1, <1>2, <2>1, <2>3
  <2>5. SizeS(n) \in Nat /\ SizeS(n) <= k
    <3>1. CASE n = 0
      BY <1>1, <3>1 DEF SizeS
    <3>2. CASE n # 0
      <4>1. SizeS(n) = LeastS(n)
        BY <3>2 DEF SizeS
      <4>2. QED
        BY <1>1, <2>1, <2>2, <2>4, <4>1, LeastSIs
    <3>3. QED
      BY <3>1, <3>2
  <2>6. n \in -Half(OctetBits)..(Half(OctetBits) - 1)
    BY <1>1, <1>2, <2>4
  <2>7. QED
    BY <2>5, <2>6 DEF n, k
<1>5. QED
  BY <1>3, <1>4

----------------------------------------------------------------------------
(* The order in memory.                                                    *)

LEMMA ReverseIs ==
    ASSUME NEW octets \in Seq(Octets)
    PROVE  /\ Reverse(octets) \in Seq(Octets) /\ Len(Reverse(octets)) = Len(octets)
           /\ \A i \in 1..Len(octets) : Reverse(octets)[i] = octets[Len(octets) - i + 1]
           /\ Reverse(Reverse(octets)) = octets
           /\ octets # <<>> => Reverse(octets) # <<>> /\ Reverse(octets)[1] = Last(octets)
<1> DEFINE n == Len(octets)
           back == Reverse(octets)
<1>1. n \in Nat /\ \A i \in 1..n : octets[i] \in Octets
  OBVIOUS
<1>2. \A i \in 1..n : n - i + 1 \in 1..n /\ n - (n - i + 1) + 1 = i
  BY <1>1
<1>3. back = [i \in 1..n |-> octets[n - i + 1]]
  BY DEF Reverse
<1>4. back \in Seq(Octets) /\ Len(back) = n /\ \A i \in 1..n : back[i] = octets[n - i + 1]
  BY <1>1, <1>2, <1>3
<1>5. Reverse(back) = [i \in 1..n |-> back[n - i + 1]]
  BY <1>4 DEF Reverse
<1>6. Reverse(back) = octets
  <2>1. \A i \in 1..n : back[n - i + 1] = octets[i]
    BY <1>2, <1>4
  <2>2. octets = [i \in 1..n |-> octets[i]]
    OBVIOUS
  <2> HIDE DEF back, n
  <2>3. [i \in 1..n |-> back[n - i + 1]] = [i \in 1..n |-> octets[i]]
    BY <2>1
  <2>4. QED
    BY <1>5, <2>2, <2>3
<1>7. octets # <<>> => back # <<>> /\ back[1] = Last(octets)
  <2>1. octets # <<>> => n > 0 /\ 1 \in 1..n /\ n - 1 + 1 = n
    OBVIOUS
  <2>2. QED
    BY <1>4, <2>1 DEF Last
<1>8. QED
  BY <1>4, <1>6, <1>7

(* A date read is two's complement in the order of memory.                 *)
LEMMA SignedDateIs ==
    ASSUME NEW octets \in Seq(Octets), Len(octets) = DateLen
    PROVE  SignedDate(octets) = DecodeS(Reverse(octets))
<1>1. octets # <<>>
  BY CodecAssumption DEF DateLen
<1>2. /\ Reverse(octets) # <<>> /\ Reverse(octets)[1] = Last(octets)
      /\ Len(Reverse(octets)) = DateLen
  BY <1>1, ReverseIs
<1>3. QED
  BY <1>2 DEF SignedDate, DecodeS, Negative, FromMemory

LEMMA MemoryBack ==
    ASSUME NEW k \in Nat, NEW n \in Nat, n < Span(k)
    PROVE  /\ InMemory(n, k) \in Seq(Octets) /\ Len(InMemory(n, k)) = k
           /\ Reverse(InMemory(n, k)) = OctetsOf(n, k) /\ FromMemory(InMemory(n, k)) = n
<1>1. OctetsOf(n, k) \in Seq(Octets) /\ Len(OctetsOf(n, k)) = k
  BY OctetsOfIs
<1>2. NumberOf(OctetsOf(n, k)) = n
  BY NumberBack
<1>3. QED
  BY <1>1, <1>2, ReverseIs DEF InMemory, FromMemory

----------------------------------------------------------------------------
(* Bodies.                                                                 *)

LEMMA LensAre ==
    /\ SingleLen \in Nat /\ SingleLen > 0 /\ DoubleLen \in Nat /\ DoubleLen > 0
    /\ DoubleLen - SingleLen \in Nat
    /\ Shorter \in Nat /\ Shorter > 0 /\ Span(DoubleLen) = Shorter * Span(SingleLen)
    /\ Span(SingleLen) \in Nat /\ Span(SingleLen) > 0 /\ Span(DoubleLen) \in Nat
    /\ DateLen \in Nat /\ DateLen > 0 /\ OctetBits \in Nat
<1>1. /\ SingleLen \in Nat /\ SingleLen > 0 /\ DoubleLen \in Nat /\ DoubleLen > 0
      /\ DoubleLen - SingleLen \in Nat /\ (DoubleLen - SingleLen) + SingleLen = DoubleLen
  BY PrimAssumption
<1>2. OctetBits \in Nat /\ DateLen \in Nat /\ DateLen > 0
  BY CodecAssumption DEF DateLen
<1>3. Shorter \in Nat /\ Shorter > 0
  BY <1>1, SpanIs DEF Shorter
<1>4. Span(SingleLen) \in Nat /\ Span(SingleLen) > 0 /\ Span(DoubleLen) \in Nat
  BY <1>1, SpanIs
<1>5. Span(DoubleLen) = Shorter * Span(SingleLen)
  BY <1>1, SpanSum DEF Shorter
<1>6. QED
  BY <1>1, <1>2, <1>3, <1>4, <1>5

LEMMA ValuesAre ==
    ASSUME NEW e, IsElement(e)
    PROVE  /\ e.kind = "UInt" => e.value \in Nat /\ e.value < Span(OctetBits)
           /\ e.kind = "Int" => /\ e.value \in Int /\ -Half(OctetBits) <= e.value
                                /\ e.value < Half(OctetBits)
           /\ e.kind = "Float" => e.value \in Nat /\ e.value < Span(DoubleLen)
           /\ e.kind = "Date" => /\ e.value \in Int /\ -Half(DateLen) <= e.value
                                 /\ e.value < Half(DateLen)
           /\ e.kind \in {"String", "Binary"} => e.value \in Seq(Octets)
<1>1. e.value \in ValuesOf(e.kind)
  BY DEF IsElement
<1>2. Span(OctetBits) \in Nat /\ Half(OctetBits) \in Nat /\ Half(DateLen) \in Nat
      /\ Span(DoubleLen) \in Nat
  <2>1. OctetBits \in Nat /\ OctetBits > 0 /\ DateLen = OctetBits
    BY CodecAssumption DEF DateLen
  <2>2. QED
    BY <2>1, LensAre, SpanIs, HalfIs
<1>3. CASE e.kind = "UInt"
  BY <1>1, <1>2, <1>3 DEF ValuesOf
<1>4. CASE e.kind = "Int"
  BY <1>1, <1>2, <1>4 DEF ValuesOf
<1>5. CASE e.kind = "Float"
  BY <1>1, <1>2, <1>5 DEF ValuesOf
<1>6. CASE e.kind = "Date"
  BY <1>1, <1>2, <1>6 DEF ValuesOf
<1>7. CASE e.kind \in {"String", "Binary"}
  BY <1>1, <1>7 DEF ValuesOf
<1>8. QED
  BY <1>3, <1>4, <1>5, <1>6, <1>7 DEF IsElement, Kinds

(* The body has the length that was declared, and is understood.           *)
Understood(e, d) ==
    /\ Filled(d, Body(e)).value = Meant(e)
    /\ d.kind = "Float" => Filled(d, Body(e)).prec = e.prec

LEMMA BodyIs ==
    ASSUME NEW e, IsElement(e)
    PROVE  /\ BodySize(e) \in Nat /\ Body(e) \in Seq(Octets) /\ Len(Body(e)) = BodySize(e)
           /\ \A d : IsElement(d) /\ d.kind = e.kind => Understood(e, d)
<1> DEFINE Good == /\ BodySize(e) \in Nat /\ Body(e) \in Seq(Octets)
                   /\ Len(Body(e)) = BodySize(e)
<1>1. \A d : IsElement(d) =>
          d = [kind |-> d.kind, id |-> d.id, value |-> d.value, padding |-> d.padding,
               prec |-> d.prec, offset |-> d.offset]
  BY DEF IsElement
<1>2. CASE e.kind = "UInt"
  <2>1. e.value \in Nat /\ e.value < Span(OctetBits)
    BY <1>2, ValuesAre
  <2>2. BodySize(e) = SizeU(e.value) /\ Body(e) = EncodeU(e.value) /\ Meant(e) = e.value
    BY <1>2 DEF BodySize, Body, Meant
  <2>3. Good /\ DecodeU(Body(e)) = e.value
    BY <2>1, <2>2, UBack
  <2>4. ASSUME NEW d, IsElement(d), d.kind = e.kind PROVE Understood(e, d)
    <3>1. Filled(d, Body(e)) = [d EXCEPT !.value = DecodeU(Body(e))]
      BY <1>2, <2>4 DEF Filled
    <3>2. Filled(d, Body(e)).value = DecodeU(Body(e))
      BY <1>1, <2>4, <3>1
    <3>3. QED
      BY <1>2, <2>2, <2>3, <2>4, <3>2 DEF Understood
  <2>5. QED
    BY <2>3, <2>4
<1>3. CASE e.kind = "Int"
  <2>1. e.value \in Int /\ -Half(OctetBits) <= e.value /\ e.value < Half(OctetBits)
    BY <1>3, ValuesAre
  <2>2. BodySize(e) = SizeS(e.value) /\ Body(e) = EncodeS(e.value) /\ Meant(e) = e.value
    BY <1>3 DEF BodySize, Body, Meant
  <2>3. Good /\ DecodeS(Body(e)) = e.value
    BY <2>1, <2>2, SBack
  <2>4. ASSUME NEW d, IsElement(d), d.kind = e.kind PROVE Understood(e, d)
    <3>1. Filled(d, Body(e)) = [d EXCEPT !.value = DecodeS(Body(e))]
      BY <1>3, <2>4 DEF Filled
    <3>2. Filled(d, Body(e)).value = DecodeS(Body(e))
      BY <1>1, <2>4, <3>1
    <3>3. QED
      BY <1>3, <2>2, <2>3, <2>4, <3>2 DEF Understood
  <2>5. QED
    BY <2>3, <2>4
<1>4. CASE e.kind = "Float"
  <2> DEFINE n == IF e.prec = SingleLen THEN e.value \div Shorter ELSE e.value
             k == e.prec
             x == n * (IF k = SingleLen THEN Shorter ELSE 1)
  <2>1. e.value \in Nat /\ e.value < Span(DoubleLen) /\ k \in {SingleLen, DoubleLen}
    BY <1>4, ValuesAre DEF IsElement
  <2>2. BodySize(e) = k /\ Body(e) = InMemory(n, k) /\ k \in Nat
    BY <1>4, <2>1, LensAre DEF BodySize, Body, FloatBody
  <2>3. n \in Nat /\ n < Span(k)
    <3>1. CASE k = SingleLen
      <4>1. e.value \div Shorter \in Nat
        BY <2>1, LensAre, DivMod
      <4>2. e.value < Shorter * Span(SingleLen)
        BY <2>1, LensAre
      <4>3. e.value \div Shorter < Span(SingleLen)
        BY <2>1, <4>2, LensAre, DivBounds
      <4>4. QED
        BY <3>1, <4>1, <4>3
    <3>2. CASE k # SingleLen
      BY <2>1, <3>2
    <3>3. QED
      BY <3>1, <3>2
  <2>4. Meant(e) = x
    <3>1. CASE k = SingleLen
      <4> DEFINE v == e.value
                 q == v \div Shorter
                 r == v % Shorter
      <4>1. Meant(e) = v - r /\ x = q * Shorter
        BY <1>4, <3>1 DEF Meant
      <4>2. q \in Nat /\ r \in Nat /\ v \in Nat /\ v = Shorter * q + r
        <5>1. v \in Nat /\ Shorter \in Nat /\ Shorter > 0
          BY <2>1, LensAre
        <5> HIDE DEF v
        <5>2. q \in Nat /\ r \in 0..(Shorter - 1) /\ v = Shorter * q + r
          BY <5>1, DivMod
        <5> HIDE DEF q, r
        <5>3. QED
          BY <5>1, <5>2
      <4> HIDE DEF q, r, v, x
      <4>3. q * Shorter = Shorter * q /\ Shorter * q \in Nat
        BY <4>2, LensAre
      <4>4. QED
        BY <4>1, <4>2, <4>3
    <3>2. CASE k # SingleLen
      BY <1>4, <2>1, <2>3, <3>2 DEF Meant
    <3>3. QED
      BY <3>1, <3>2
  <2> HIDE DEF n, k
  <2>5. Good /\ FromMemory(Body(e)) = n
    BY <2>2, <2>3, MemoryBack
  <2>6. ASSUME NEW d, IsElement(d), d.kind = e.kind PROVE Understood(e, d)
    <3>1. Filled(d, Body(e)) = [d EXCEPT !.prec = k, !.value = x]
      BY <1>4, <2>2, <2>5, <2>6 DEF Filled, FloatRead
    <3>2. Filled(d, Body(e)).value = x /\ Filled(d, Body(e)).prec = k
      BY <1>1, <2>6, <3>1
    <3>3. QED
      BY <2>4, <3>2 DEF Understood, k
  <2>7. QED
    BY <2>5, <2>6
<1>5. CASE e.kind = "Date"
  <2> DEFINE m == e.value % Span(DateLen)
  <2>1. e.value \in Int /\ -Half(DateLen) <= e.value /\ e.value < Half(DateLen)
        /\ DateLen \in Nat /\ DateLen > 0
    BY <1>5, ValuesAre, LensAre
  <2>2. BodySize(e) = DateLen /\ Body(e) = InMemory(m, DateLen) /\ Meant(e) = e.value
    BY <1>5 DEF BodySize, Body, DateBody, Meant
  <2>3. m \in Nat /\ OctetsOf(m, DateLen) \in Seq(Octets)
        /\ Len(OctetsOf(m, DateLen)) = DateLen /\ DecodeS(OctetsOf(m, DateLen)) = e.value
    BY <2>1, SignedBack
  <2>4. Body(e) = Reverse(OctetsOf(m, DateLen))
    BY <2>2 DEF InMemory
  <2> HIDE DEF m
  <2>5. Body(e) \in Seq(Octets) /\ Len(Body(e)) = DateLen
        /\ Reverse(Body(e)) = OctetsOf(m, DateLen)
    BY <2>3, <2>4, ReverseIs
  <2>6. Good /\ SignedDate(Body(e)) = e.value
    BY <2>1, <2>2, <2>3, <2>5, SignedDateIs
  <2>7. ASSUME NEW d, IsElement(d), d.kind = e.kind PROVE Understood(e, d)
    <3>1. Filled(d, Body(e)) = [d EXCEPT !.value = SignedDate(Body(e))]
      BY <1>5, <2>7 DEF Filled
    <3>2. Filled(d, Body(e)).value = SignedDate(Body(e))
      BY <1>1, <2>7, <3>1
    <3>3. QED
      BY <1>5, <2>2, <2>6, <2>7, <3>2 DEF Understood
  <2>8. QED
    BY <2>6, <2>7
<1>6. CASE e.kind \in {"String", "Binary"}
  <2>1. e.value \in Seq(Octets) /\ e.padding \in Nat
    BY <1>6, ValuesAre DEF IsElement
  <2>2. Good /\ Meant(e) = Body(e)
    <3>1. CASE e.kind = "String"
      <4>1. [i \in 1..e.padding |-> 0] \in Seq(Octets) /\ Len([i \in 1..e.padding |-> 0]) = e.padding
        <5>1. 0 \in Octets
          BY SpanIs DEF Octets
        <5>2. QED
          BY <2>1, <5>1
      <4>2. Body(e) = e.value \o [i \in 1..e.padding |-> 0]
            /\ BodySize(e) = Len(e.value) + e.padding /\ Meant(e) = Body(e)
        BY <3>1 DEF Body, StringBody, BodySize, StringSize, Meant
      <4>3. QED
        BY <2>1, <4>1, <4>2
    <3>2. CASE e.kind = "Binary"
      <4>1. Body(e) = e.value /\ BodySize(e) = Len(e.value) /\ Meant(e) = e.value
        BY <3>2 DEF Body, BodySize, Meant
      <4>2. QED
        BY <2>1, <4>1
    <3>3. QED
      BY <1>6, <3>1, <3>2
  <2>3. ASSUME NEW d, IsElement(d), d.kind = e.kind PROVE Understood(e, d)
    <3>1. Filled(d, Body(e)) = [d EXCEPT !.value = Body(e)]
      BY <1>6, <2>3 DEF Filled
    <3>2. Filled(d, Body(e)).value = Body(e)
      BY <1>1, <2>3, <3>1
    <3>3. QED
      BY <1>6, <2>2, <2>3, <3>2 DEF Understood
  <2>4. QED
    BY <2>2, <2>3
<1>7. QED
  BY <1>2, <1>3, <1>4, <1>5, <1>6 DEF IsElement, Kinds

(* What is read is an element of the class, and takes no more octets than  *)
(* it was read from.                                                       *)
LEMMA FilledIs ==
    ASSUME NEW e, IsElement(e), NEW octets \in Seq(Octets),
           BodyFault(e, Len(octets)) = "ok", NEW f, f = Filled(e, octets)
    PROVE  /\ IsElement(f) /\ f.kind = e.kind /\ f.id = e.id /\ f.offset = e.offset
           /\ [f EXCEPT !.padding = 0].id = e.id
           /\ BodySize([f EXCEPT !.padding = 0]) \in Nat
           /\ BodySize([f EXCEPT !.padding = 0]) <= Len(octets)
<1> DEFINE n == Len(octets)
           Rec(v, p, d) == [kind |-> e.kind, id |-> e.id, value |-> v, padding |-> d,
                            prec |-> p, offset |-> e.offset]
           Fine(v, p) == /\ v \in ValuesOf(e.kind) /\ p \in {SingleLen, DoubleLen}
                         /\ f = Rec(v, p, e.padding)
                         /\ BodySize(Rec(v, p, 0)) \in Nat /\ BodySize(Rec(v, p, 0)) <= n
<1>0. n \in Nat
  OBVIOUS
<1>1. e = Rec(e.value, e.prec, e.padding) /\ e.prec \in {SingleLen, DoubleLen}
  BY DEF IsElement
<1>2. ASSUME e.kind = "UInt" PROVE \E v1, p1 : Fine(v1, p1)
  <2> DEFINE v == DecodeU(octets)
  <2>1. n <= OctetBits
    BY <1>0, <1>2, LensAre DEF BodyFault
  <2>2. v \in Nat /\ v < Span(OctetBits) /\ SizeU(v) \in Nat /\ SizeU(v) <= n
    BY <2>1, UShort
  <2>3. f = [e EXCEPT !.value = v]
    BY <1>2 DEF Filled
  <2> HIDE DEF v, n
  <2>4. f = Rec(v, e.prec, e.padding)
    BY <1>1, <2>3
  <2>5. v \in ValuesOf(e.kind)
    <3>1. Span(OctetBits) \in Nat
      BY LensAre, SpanIs
    <3>2. QED
      BY <1>2, <2>2, <3>1 DEF ValuesOf
  <2>6. BodySize(Rec(v, e.prec, 0)) = SizeU(v)
    BY <1>2 DEF BodySize
  <2>7. Fine(v, e.prec)
    BY <1>1, <2>2, <2>4, <2>5, <2>6
  <2> HIDE DEF Fine
  <2>8. QED
    BY <2>7
<1>3. ASSUME e.kind = "Int" PROVE \E v1, p1 : Fine(v1, p1)
  <2> DEFINE v == DecodeS(octets)
  <2>1. n <= OctetBits
    BY <1>0, <1>3, LensAre DEF BodyFault
  <2>2. v \in -Half(OctetBits)..(Half(OctetBits) - 1) /\ SizeS(v) \in Nat /\ SizeS(v) <= n
    BY <2>1, SShort
  <2>3. f = [e EXCEPT !.value = v]
    BY <1>3 DEF Filled
  <2> HIDE DEF v, n
  <2>4. f = Rec(v, e.prec, e.padding)
    BY <1>1, <2>3
  <2>5. v \in ValuesOf(e.kind)
    BY <1>3, <2>2 DEF ValuesOf
  <2>6. BodySize(Rec(v, e.prec, 0)) = SizeS(v)
    BY <1>3 DEF BodySize
  <2>7. Fine(v, e.prec)
    BY <1>1, <2>2, <2>4, <2>5, <2>6
  <2> HIDE DEF Fine
  <2>8. QED
    BY <2>7
<1>4. ASSUME e.kind = "Float" PROVE \E v1, p1 : Fine(v1, p1)
  <2> DEFINE m == FromMemory(octets)
             v == m * (IF n = SingleLen THEN Shorter ELSE 1)
  <2>1. n \in {SingleLen, DoubleLen}
    BY <1>4 DEF BodyFault
  <2>2. m \in Nat /\ m < Span(n)
    BY ReverseIs, NumberBound DEF FromMemory
  <2>3. f = [e EXCEPT !.prec = n, !.value = v]
    BY <1>4 DEF Filled, FloatRead
  <2> HIDE DEF m
  <2>4. f = Rec(v, n, e.padding)
    BY <1>1, <2>3
  <2>5. v \in Nat /\ v < Span(DoubleLen)
    <3>1. CASE n = SingleLen
      <4>1. Shorter * m + Shorter <= Shorter * Span(SingleLen)
            /\ Shorter * m \in Nat
        BY <2>2, <3>1, LensAre, TimesGrows
      <4>2. v = Shorter * m
        BY <2>2, <3>1, LensAre
      <4>3. QED
        BY <4>1, <4>2, LensAre
    <3>2. CASE n # SingleLen
      BY <2>1, <2>2, <3>2
    <3>3. QED
      BY <3>1, <3>2
  <2> HIDE DEF v, n
  <2>6. v \in ValuesOf(e.kind)
    BY <1>4, <2>5, LensAre DEF ValuesOf
  <2>7. BodySize(Rec(v, n, 0)) = n
    BY <1>4 DEF BodySize
  <2>8. Fine(v, n)
    BY <1>0, <2>1, <2>4, <2>6, <2>7
  <2> HIDE DEF Fine
  <2>9. QED
    BY <2>8
<1>5. ASSUME e.kind = "Date" PROVE \E v1, p1 : Fine(v1, p1)
  <2> DEFINE v == SignedDate(octets)
             back == Reverse(octets)
  <2>1. n = DateLen
    BY <1>5 DEF BodyFault
  <2>2. v = DecodeS(back) /\ back \in Seq(Octets) /\ Len(back) = DateLen
    BY <2>1, SignedDateIs, ReverseIs
  <2>3. v \in -Half(DateLen)..(Half(DateLen) - 1)
    <3>1. Len(back) <= OctetBits /\ DateLen = OctetBits
      BY <2>2, LensAre DEF DateLen
    <3>2. QED
      BY <2>2, <3>1, SShort
  <2>4. f = [e EXCEPT !.value = v]
    BY <1>5 DEF Filled
  <2> HIDE DEF v, n
  <2>5. f = Rec(v, e.prec, e.padding)
    BY <1>1, <2>4
  <2>6. v \in ValuesOf(e.kind)
    BY <1>5, <2>3 DEF ValuesOf
  <2>7. BodySize(Rec(v, e.prec, 0)) = DateLen
    BY <1>5 DEF BodySize
  <2>8. Fine(v, e.prec)
    BY <1>0, <1>1, <2>1, <2>5, <2>6, <2>7
  <2> HIDE DEF Fine
  <2>9. QED
    BY <2>8
<1>6. ASSUME e.kind \in {"String", "Binary"} PROVE \E v1, p1 : Fine(v1, p1)
  <2>1. f = [e EXCEPT !.value = octets]
    BY <1>6 DEF Filled
  <2>2. f = Rec(octets, e.prec, e.padding)
    BY <1>1, <2>1
  <2>3. octets \in ValuesOf(e.kind)
    BY <1>6 DEF ValuesOf
  <2>4. BodySize(Rec(octets, e.prec, 0)) = n
    BY <1>0, <1>6 DEF BodySize, StringSize
  <2>5. Fine(octets, e.prec)
    BY <1>0, <1>1, <2>2, <2>3, <2>4
  <2> HIDE DEF Fine
  <2>6. QED
    BY <2>5
<1>7. \E v1, p1 : Fine(v1, p1)
  <2>1. e.kind \in Kinds
    BY DEF IsElement
  <2> HIDE DEF Fine
  <2>2. QED
    BY <1>2, <1>3, <1>4, <1>5, <1>6, <2>1 DEF Kinds
<1> HIDE DEF Fine
<1>8. PICK v, p : Fine(v, p)
  BY <1>7
<1>9. /\ v \in ValuesOf(e.kind) /\ p \in {SingleLen, DoubleLen}
      /\ f = [kind |-> e.kind, id |-> e.id, value |-> v, padding |-> e.padding,
              prec |-> p, offset |-> e.offset]
      /\ BodySize(Rec(v, p, 0)) \in Nat /\ BodySize(Rec(v, p, 0)) <= n
  BY <1>8 DEF Fine
<1>10. IsElement(f)
  BY <1>9 DEF IsElement
<1>11. f.kind = e.kind /\ f.id = e.id /\ f.offset = e.offset /\ Rec(v, p, 0).id = e.id
  BY <1>9
<1> DEFINE g == [f EXCEPT !.padding = 0]
<1>12. g = Rec(v, p, 0)
  BY <1>9
<1> HIDE DEF g, Rec
<1>13. g.id = e.id /\ BodySize(g) \in Nat /\ BodySize(g) <= n
  BY <1>9, <1>11, <1>12
<1>14. QED
  BY <1>10, <1>11, <1>13 DEF g

----------------------------------------------------------------------------
(* Whole elements, and where their parts are in the stream.                *)

Rest(octets, p) == SubSeq(octets, p + 1, Len(octets))

LEMMA RestIs ==
    ASSUME NEW octets \in Seq(Octets), NEW p \in Nat
    PROVE  /\ Rest(octets, p) \in Seq(Octets)
           /\ Len(Rest(octets, p)) = IF p < Len(octets) THEN Len(octets) - p ELSE 0
           /\ \A i \in 1..Len(Rest(octets, p)) : Rest(octets, p)[i] = octets[p + i]
<1>1. CASE p < Len(octets)
  <2>1. p + 1 \in 1..Len(octets) /\ Len(octets) - (p + 1) + 1 = Len(octets) - p
    BY <1>1
  <2>2. QED
    BY <1>1, <2>1 DEF Rest
<1>2. CASE ~(p < Len(octets))
  BY <1>2 DEF Rest
<1>3. QED
  BY <1>1, <1>2

LEMMA JoinedIs ==
    ASSUME NEW a \in Seq(Octets), NEW b \in Seq(Octets)
    PROVE  /\ a \o b \in Seq(Octets)
           /\ Len(a) \in Nat /\ Len(b) \in Nat /\ Len(a \o b) = Len(a) + Len(b)
  OBVIOUS

(* What begins with a and then b has b behind a.                           *)
LEMMA BeginsParts ==
    ASSUME NEW octets \in Seq(Octets), NEW p \in Nat, NEW a \in Seq(Octets),
           NEW b \in Seq(Octets), Begins(Rest(octets, p), a \o b)
    PROVE  /\ Begins(Rest(octets, p), a)
           /\ Len(a) \in Nat /\ Begins(Rest(octets, p + Len(a)), b)
<1> DEFINE m == Len(a)
           n == Len(b)
           t == Len(octets)
           x == Rest(octets, p)
           y == Rest(octets, p + m)
<1>1. /\ m \in Nat /\ n \in Nat /\ t \in Nat /\ Len(a \o b) = m + n
      /\ \A i \in 1..m : (a \o b)[i] = a[i]
      /\ \A i \in 1..n : (a \o b)[m + i] = b[i]
  OBVIOUS
<1>2. /\ Len(x) = IF p < t THEN t - p ELSE 0
      /\ \A i \in 1..Len(x) : x[i] = octets[p + i]
  BY RestIs
<1>3. /\ Len(y) = IF p + m < t THEN t - (p + m) ELSE 0
      /\ \A i \in 1..Len(y) : y[i] = octets[(p + m) + i]
  BY <1>1, RestIs
<1>4. m + n <= Len(x) /\ \A i \in 1..(m + n) : x[i] = (a \o b)[i]
  BY <1>1 DEF Begins
<1> HIDE DEF x, y, m, n, t
<1>5. m <= Len(x) /\ n <= Len(y)
  BY <1>1, <1>2, <1>3, <1>4
<1>6. \A i \in 1..m : x[i] = a[i]
  BY <1>1, <1>4
<1>7. ASSUME NEW i \in 1..n PROVE y[i] = b[i]
  <2>1. i \in 1..Len(y) /\ m + i \in 1..(m + n) /\ m + i \in 1..Len(x) /\ (p + m) + i = p + (m + i)
    BY <1>1, <1>2, <1>3, <1>4, <1>5
  <2>2. y[i] = octets[p + (m + i)] /\ x[m + i] = octets[p + (m + i)]
    BY <1>2, <1>3, <2>1
  <2>3. x[m + i] = b[i]
    BY <1>1, <1>4, <2>1
  <2>4. QED
    BY <2>2, <2>3
<1>8. Begins(x, a) /\ Begins(y, b)
  BY <1>5, <1>6, <1>7 DEF Begins, m, n
<1>9. QED
  BY <1>1, <1>8 DEF x, y, m

(* What is taken where b begins is b.                                      *)
LEMMA TakenIs ==
    ASSUME NEW octets \in Seq(Octets), NEW p \in Nat, NEW b \in Seq(Octets),
           Begins(Rest(octets, p), b)
    PROVE  SubSeq(octets, p + 1, p + Len(b)) = b
<1> DEFINE n == Len(b)
           t == Len(octets)
           x == Rest(octets, p)
           y == SubSeq(octets, p + 1, p + n)
<1>1. /\ n \in Nat /\ t \in Nat /\ Len(x) = (IF p < t THEN t - p ELSE 0)
      /\ \A i \in 1..Len(x) : x[i] = octets[p + i]
  BY RestIs
<1>2. n <= Len(x) /\ \A i \in 1..n : x[i] = b[i]
  BY DEF Begins
<1>3. CASE n = 0
  BY <1>3
<1>4. CASE n # 0
  <2>1. p + 1 \in 1..t /\ p + n \in 1..t /\ (p + n) - (p + 1) + 1 = n /\ p + 1 <= p + n
    BY <1>1, <1>2, <1>4
  <2>2. y \in Seq(Octets) /\ Len(y) = n
    BY <2>1
  <2>3. \A i \in 1..n : y[i] = octets[p + i]
    BY <2>1
  <2>4. \A i \in 1..n : y[i] = b[i]
    BY <1>1, <1>2, <2>3
  <2>5. b \in Seq(Octets) /\ Len(b) = n
    OBVIOUS
  <2> HIDE DEF y, n
  <2>6. y = [i \in 1..n |-> y[i]]
    BY <2>2
  <2>7. b = [i \in 1..n |-> b[i]]
    BY <2>5
  <2>8. y = b
    BY <2>4, <2>6, <2>7
  <2>9. QED
    BY <2>8 DEF y, n
<1>5. QED
  BY <1>3, <1>4

(* What is appended begins where the octets ended.                         *)
LEMMA AppendedBegins ==
    ASSUME NEW octets \in Seq(Octets), NEW b \in Seq(Octets)
    PROVE  Begins(Rest(octets \o b, Len(octets)), b)
<1> DEFINE n == Len(b)
           t == Len(octets)
           c == octets \o b
           x == Rest(c, t)
<1>1. n \in Nat /\ t \in Nat /\ c \in Seq(Octets) /\ Len(c) = t + n
      /\ \A i \in 1..n : c[t + i] = b[i]
  OBVIOUS
<1> HIDE DEF n, t, c
<1>2. /\ Len(x) = IF t < Len(c) THEN Len(c) - t ELSE 0
      /\ \A i \in 1..Len(x) : x[i] = c[t + i]
  BY <1>1, RestIs
<1> HIDE DEF x
<1>3. n <= Len(x) /\ \A i \in 1..n : x[i] = b[i]
  BY <1>1, <1>2
<1>4. Begins(x, b)
  BY <1>3 DEF Begins, n
<1>5. QED
  BY <1>4 DEF x, t, c

(* An element takes as many octets as it says, and they are its parts.     *)
LEMMA WrittenIs ==
    ASSUME NEW e, IsElement(e), IsId(e.id), V!IsVint(BodySize(e))
    PROVE  /\ Written(e) \in Seq(Octets) /\ Len(Written(e)) = Size(e)
           /\ IdOctets(e.id) \in Seq(Octets) /\ Len(IdOctets(e.id)) = IdSize(e.id)
           /\ VintOctets(BodySize(e), 0) \in Seq(Octets)
           /\ Len(VintOctets(BodySize(e), 0)) = V!VintSize(BodySize(e))
<1> DEFINE k == IdSize(e.id)
           n == BodySize(e)
           z == V!VintSize(n)
<1>1. e.id \in Nat /\ k \in Nat
  BY IdSizeIs DEF IsElement
<1>2. n \in Nat /\ Body(e) \in Seq(Octets) /\ Len(Body(e)) = n
  BY BodyIs
<1>3. z \in Widths
  BY VintSizeIs
<1>4. z \in Nat /\ n + Capacity(z) \in Nat
  BY <1>2, <1>3, CapacityIs
<1>5. IdOctets(e.id) \in Seq(Octets) /\ Len(IdOctets(e.id)) = k
  BY <1>1, OctetsOfIs DEF IdOctets
<1>6. VintOctets(n, 0) = OctetsOf(n + Capacity(z), z)
  BY DEF VintOctets, VintWidth
<1>7. VintOctets(n, 0) \in Seq(Octets) /\ Len(VintOctets(n, 0)) = z
  BY <1>4, <1>6, OctetsOfIs
<1> HIDE DEF k, n, z
<1>8. Written(e) \in Seq(Octets) /\ Len(Written(e)) = k + z + n
  <2> DEFINE a == IdOctets(e.id)
             b == VintOctets(n, 0)
             c == Body(e)
  <2>1. /\ a \in Seq(Octets) /\ Len(a) = k /\ b \in Seq(Octets) /\ Len(b) = z
        /\ c \in Seq(Octets) /\ Len(c) = n
    BY <1>2, <1>5, <1>7
  <2>2. Written(e) = a \o b \o c
    BY DEF Written, n
  <2> HIDE DEF a, b, c
  <2>3. a \o b \in Seq(Octets) /\ Len(a \o b) = k + z
    BY <2>1, JoinedIs
  <2>4. (a \o b) \o c \in Seq(Octets) /\ Len((a \o b) \o c) = (k + z) + n
    BY <2>1, <2>3, JoinedIs
  <2>5. QED
    BY <2>2, <2>4
<1>9. QED
  BY <1>5, <1>7, <1>8 DEF Size, k, n, z

(* Where an element was written, its ID, its size and its body are read.   *)
LEMMA ReadBack ==
    ASSUME NEW octets \in Seq(Octets), NEW p \in Nat, NEW e, IsElement(e), IsId(e.id),
           V!IsVint(BodySize(e)), Begins(Rest(octets, p), Written(e)),
           NEW q, q = p + IdSize(e.id), NEW r, r = q + V!VintSize(BodySize(e))
    PROVE  /\ IdRead(Rest(octets, p)) = Got(e.id, IdSize(e.id))
           /\ VintRead(Rest(octets, q)) = Got(BodySize(e), V!VintSize(BodySize(e)))
           /\ SubSeq(octets, r + 1, r + BodySize(e)) = Body(e)
<1> DEFINE a == IdOctets(e.id)
           b == VintOctets(BodySize(e), 0)
           c == Body(e)
           k == IdSize(e.id)
           z == V!VintSize(BodySize(e))
<1>1. a \in Seq(Octets) /\ b \in Seq(Octets) /\ Len(a) = k /\ Len(b) = z
  BY WrittenIs
<1>2. c \in Seq(Octets) /\ Len(c) = BodySize(e)
  BY BodyIs
<1>3. Begins(Rest(octets, p), (a \o b) \o c)
  BY DEF Written
<1>4. e.id \in Int
  BY DEF IsElement
<1> HIDE DEF a, b, c, k, z
<1>5. a \o b \in Seq(Octets) /\ Len(a \o b) = k + z /\ k \in Nat /\ z \in Nat
  BY <1>1, JoinedIs
<1>6. Begins(Rest(octets, p), a \o b) /\ Begins(Rest(octets, p + Len(a \o b)), c)
  BY <1>2, <1>3, <1>5, BeginsParts
<1>7. Begins(Rest(octets, p), a) /\ Begins(Rest(octets, p + Len(a)), b)
  BY <1>1, <1>6, BeginsParts
<1>8. q = p + Len(a) /\ r = p + Len(a \o b) /\ q \in Nat /\ r \in Nat
  BY <1>1, <1>5 DEF k, z
<1>9. Rest(octets, p) \in Seq(Octets) /\ Rest(octets, q) \in Seq(Octets)
  BY <1>8, RestIs
<1>10. IdRead(Rest(octets, p)) = Got(e.id, IdSize(e.id))
  BY <1>4, <1>7, <1>9, IdBack DEF a
<1>11. VintRead(Rest(octets, q)) = Got(BodySize(e), V!VintSize(BodySize(e)))
  BY <1>7, <1>8, <1>9, VintBack DEF b
<1>12. SubSeq(octets, r + 1, r + Len(c)) = c
  BY <1>2, <1>6, <1>8, TakenIs
<1>13. QED
  BY <1>2, <1>10, <1>11, <1>12 DEF c

(* A body that is not cut short has all its octets.                        *)
LEMMA TakenFits ==
    ASSUME NEW octets \in Seq(Octets), NEW p \in Nat, NEW n \in Nat,
           n = 0 \/ p + n <= Len(octets)
    PROVE  /\ SubSeq(octets, p + 1, p + n) \in Seq(Octets)
           /\ Len(SubSeq(octets, p + 1, p + n)) = n
<1>1. Len(octets) \in Nat
  OBVIOUS
<1>2. CASE n = 0
  BY <1>2
<1>3. CASE n # 0
  <2>1. p + 1 \in 1..Len(octets) /\ p + n \in 1..Len(octets) /\ p + 1 <= p + n
        /\ (p + n) - (p + 1) + 1 = n
    BY <1>1, <1>3
  <2>2. QED
    BY <2>1
<1>4. QED
  BY <1>2, <1>3

(* Other fields than the value leave an element an element.                *)
LEMMA OtherId ==
    ASSUME NEW e, IsElement(e), NEW id \in Nat, NEW f, f = [e EXCEPT !.id = id]
    PROVE  IsElement(f) /\ f.kind = e.kind
<1>1. e = [kind |-> e.kind, id |-> e.id, value |-> e.value, padding |-> e.padding,
           prec |-> e.prec, offset |-> e.offset]
  BY DEF IsElement
<1>2. f = [kind |-> e.kind, id |-> id, value |-> e.value, padding |-> e.padding,
           prec |-> e.prec, offset |-> e.offset]
  BY <1>1
<1>3. QED
  BY <1>2 DEF IsElement

LEMMA OtherPadding ==
    ASSUME NEW e, IsElement(e), NEW padding \in Nat, NEW f, f = [e EXCEPT !.padding = padding]
    PROVE  IsElement(f) /\ f.kind = e.kind
<1>1. e = [kind |-> e.kind, id |-> e.id, value |-> e.value, padding |-> e.padding,
           prec |-> e.prec, offset |-> e.offset]
  BY DEF IsElement
<1>2. f = [kind |-> e.kind, id |-> e.id, value |-> e.value, padding |-> padding,
           prec |-> e.prec, offset |-> e.offset]
  BY <1>1
<1>3. QED
  BY <1>2 DEF IsElement

LEMMA OtherOffset ==
    ASSUME NEW e, IsElement(e), NEW offset \in Int, NEW f, f = [e EXCEPT !.offset = offset]
    PROVE  /\ IsElement(f) /\ f.kind = e.kind /\ f.id = e.id /\ f.offset = offset
           /\ f.value = e.value
<1>1. e = [kind |-> e.kind, id |-> e.id, value |-> e.value, padding |-> e.padding,
           prec |-> e.prec, offset |-> e.offset]
  BY DEF IsElement
<1>2. f = [kind |-> e.kind, id |-> e.id, value |-> e.value, padding |-> e.padding,
           prec |-> e.prec, offset |-> offset]
  BY <1>1
<1>3. QED
  BY <1>2 DEF IsElement

----------------------------------------------------------------------------
(* The invariant: the positions and octets are numbers, the object is one  *)
(* of its class, the ID read is where it was read, and the element written *)
(* last is still where it was written.                                     *)

TypeInv ==
    /\ s \in Seq(Octets) /\ rpos \in Nat /\ wpos \in Nat /\ at \in Nat
    /\ sent.at \in Nat
    /\ phase # "stopped" => IsElement(el)

IdIsThere ==
    phase = "id" => /\ Ok(IdRead(Rest(s, at))) /\ got = IdRead(Rest(s, at)).value
                    /\ rpos = at + IdRead(Rest(s, at)).len

SentIsThere ==
    WasSent => /\ IsElement(sent.el) /\ IsId(sent.el.id) /\ V!IsVint(BodySize(sent.el))
               /\ Begins(Rest(s, sent.at), Written(sent.el))
               /\ phase # "stopped" => sent.el.kind = el.kind

Inv == TypeInv /\ IdIsThere /\ SentIsThere

(* Steps that move nothing but positions, and those that stop.             *)
LEMMA Moves ==
    ASSUME Inv, phase # "stopped", rpos' \in Nat, wpos' \in Nat, at' \in Nat,
           IsElement(el'), el'.kind = el.kind, phase' \in {"idle", "stopped"},
           UNCHANGED <<s, sent>>
    PROVE  Inv'
<1>1. TypeInv'
  BY DEF Inv, TypeInv
<1>2. IdIsThere'
  BY DEF IdIsThere
<1>3. WasSent' = WasSent
  BY DEF WasSent
<1>4. SentIsThere'
  BY <1>3 DEF Inv, SentIsThere, IsElement, IsId, V!IsVint
<1>5. QED
  BY <1>1, <1>2, <1>4 DEF Inv

LEMMA Stops ==
    ASSUME Inv, phase # "stopped", NEW why, Stop(why)
    PROVE  Inv'
<1>1. /\ phase' = "stopped" /\ at' = 0 /\ s' = s /\ rpos' = rpos /\ wpos' = wpos
      /\ sent' = sent
  BY DEF Stop
<1>2. TypeInv'
  BY <1>1 DEF Inv, TypeInv
<1>3. IdIsThere'
  BY <1>1 DEF IdIsThere
<1>4. SentIsThere'
  BY <1>1 DEF Inv, SentIsThere, WasSent
<1>5. QED
  BY <1>2, <1>3, <1>4 DEF Inv

LEMMA InvFrame ==
    ASSUME Inv, UNCHANGED vars
    PROVE  Inv'
  BY DEF Inv, TypeInv, IdIsThere, SentIsThere, WasSent, vars

LEMMA InvInit ==
    ASSUME Init
    PROVE  Inv
<1>1. s \in Seq(Octets)
  <2>1. CASE s = <<>>
    BY <2>1
  <2>2. CASE s \in Foreign
    BY <2>2, PrimAssumption
  <2>3. QED
    BY <2>1, <2>2 DEF Init
<1>2. IsElement(el)
  BY PrimAssumption DEF Init
<1>3. sent.at = 0 /\ sent.writes = 0
  BY DEF Init, Unsent
<1>4. phase = "idle" /\ rpos = 0 /\ wpos = 0 /\ at = 0
  BY DEF Init
<1>5. TypeInv
  BY <1>1, <1>2, <1>3, <1>4 DEF TypeInv
<1>6. IdIsThere /\ SentIsThere
  BY <1>3, <1>4 DEF IdIsThere, SentIsThere, WasSent
<1>7. QED
  BY <1>5, <1>6 DEF Inv

LEMMA ClientInv ==
    ASSUME Inv, SetId \/ SetPadding \/ TakeOther
    PROVE  Inv'
<1>1. /\ phase = "idle" /\ phase' = "idle" /\ rpos' = rpos /\ wpos' = wpos /\ at' = at
      /\ s' = s /\ sent' = sent
  BY DEF SetId, SetPadding, TakeOther, Idle
<1>2. IsElement(el) /\ rpos \in Nat /\ wpos \in Nat /\ at \in Nat
  BY <1>1 DEF Inv, TypeInv
<1>3. el.id \in Nat
  BY <1>2 DEF IsElement
<1>4. IsElement(el') /\ el'.kind = el.kind
  <2>1. CASE SetId
    <3>1. PICK id \in Ids : el' = [el EXCEPT !.id = id]
      BY <2>1 DEF SetId
    <3>2. id \in Nat
      BY PrimAssumption
    <3>3. QED
      BY <1>2, <3>1, <3>2, OtherId
  <2>2. CASE SetPadding
    <3>1. PICK n \in Paddings : el' = [el EXCEPT !.padding = n]
      BY <2>2 DEF SetPadding
    <3>2. n \in Nat
      BY PrimAssumption
    <3>3. QED
      BY <1>2, <3>1, <3>2, OtherPadding
  <2>3. CASE TakeOther
    <3>1. PICK e \in Used : e.kind = el.kind /\ el' = [e EXCEPT !.id = el.id]
      BY <2>3 DEF TakeOther
    <3>2. IsElement(e)
      BY PrimAssumption
    <3>3. QED
      BY <1>3, <3>1, <3>2, OtherId
  <2>4. QED
    BY <2>1, <2>2, <2>3
<1>5. QED
  BY <1>1, <1>2, <1>4, Moves

LEMMA SeekInv ==
    ASSUME Inv, SeekRead \/ SeekWrite
    PROVE  Inv'
<1>1. /\ phase = "idle" /\ phase' = "idle" /\ at' = at /\ el' = el /\ s' = s /\ sent' = sent
  BY DEF SeekRead, SeekWrite, Idle
<1>2. IsElement(el) /\ rpos \in Nat /\ wpos \in Nat /\ at \in Nat
  BY <1>1 DEF Inv, TypeInv
<1>3. 0 \in Nat /\ sent.at \in Nat /\ Len(s) \in Nat
  BY DEF Inv, TypeInv
<1>4. rpos' \in Nat /\ wpos' \in Nat
  BY <1>2, <1>3 DEF SeekRead, SeekWrite, Starts
<1>5. QED
  BY <1>1, <1>2, <1>4, Moves

(* What a write adds, and that it says so.                                 *)
LEMMA WriteIs ==
    ASSUME Inv, Write
    PROVE  /\ IsElement(el) /\ IsId(el.id) /\ V!IsVint(BodySize(el)) /\ phase = "idle"
           /\ Written(el) \in Seq(Octets) /\ Len(Written(el)) = Size(el)
           /\ Len(Written(el)) \in Nat /\ wpos = Len(s) /\ wpos \in Nat
           /\ s' = s \o Written(el) /\ Len(s') = Len(s) + Size(el)
           /\ el'.offset = wpos
<1>1. phase = "idle" /\ IsId(el.id) /\ V!IsVint(BodySize(el)) /\ wpos = Len(s)
      /\ s' = s \o Written(el) /\ el' = [el EXCEPT !.offset = wpos]
  BY DEF Write, Idle
<1>2. IsElement(el) /\ wpos \in Nat /\ s \in Seq(Octets)
  BY <1>1 DEF Inv, TypeInv
<1>3. Written(el) \in Seq(Octets) /\ Len(Written(el)) = Size(el)
  BY <1>1, <1>2, WrittenIs
<1>4. Len(Written(el)) \in Nat /\ Len(s') = Len(s) + Size(el)
  <2> DEFINE w == Written(el)
             n == Size(el)
  <2>1. w \in Seq(Octets) /\ Len(w) = n /\ s' = s \o w
    BY <1>1, <1>3
  <2> HIDE DEF w, n
  <2>2. Len(w) \in Nat /\ Len(s \o w) = Len(s) + Len(w)
    BY <1>2, <2>1
  <2>3. Len(w) \in Nat /\ Len(s') = Len(s) + n
    BY <2>1, <2>2
  <2>4. QED
    BY <2>3 DEF w, n
<1>5. el'.offset = wpos
  <2>1. wpos \in Int
    BY <1>2
  <2>2. QED
    BY <1>1, <1>2, <2>1, OtherOffset
<1>6. QED
  BY <1>1, <1>2, <1>3, <1>4, <1>5

LEMMA WriteInv ==
    ASSUME Inv, Write
    PROVE  Inv'
<1>1. /\ IsElement(el) /\ IsId(el.id) /\ V!IsVint(BodySize(el)) /\ phase = "idle"
      /\ Written(el) \in Seq(Octets) /\ Len(Written(el)) \in Nat /\ wpos = Len(s)
      /\ wpos \in Nat /\ s' = s \o Written(el)
  BY WriteIs
<1>2. /\ el' = [el EXCEPT !.offset = wpos] /\ wpos' = wpos + Len(Written(el))
      /\ rpos' = (IF joint THEN wpos' ELSE rpos) /\ phase' = phase /\ at' = at
      /\ sent' = [el |-> el, at |-> wpos, writes |-> sent.writes + 1]
  BY DEF Write
<1>3. s \in Seq(Octets) /\ rpos \in Nat /\ at \in Nat
  BY DEF Inv, TypeInv
<1>4. s' \in Seq(Octets)
  BY <1>1, <1>3
<1>5. rpos' \in Nat /\ wpos' \in Nat
  BY <1>1, <1>2, <1>3
<1>6. IsElement(el') /\ el'.kind = el.kind
  <2>1. wpos \in Int
    BY <1>1
  <2>2. QED
    BY <1>1, <1>2, <2>1, OtherOffset
<1>7. sent'.el = el /\ sent'.at = wpos
  BY <1>2
<1>8. TypeInv'
  BY <1>1, <1>2, <1>3, <1>4, <1>5, <1>6, <1>7 DEF TypeInv
<1>9. IdIsThere'
  BY <1>1, <1>2 DEF IdIsThere
<1>10. Begins(Rest(s', sent'.at), Written(sent'.el))
  BY <1>1, <1>3, <1>7, AppendedBegins
<1>11. SentIsThere'
  BY <1>1, <1>6, <1>7, <1>10 DEF SentIsThere, IsElement, IsId, V!IsVint
<1>12. QED
  BY <1>8, <1>9, <1>11 DEF Inv

LEMMA RefusedInv ==
    ASSUME Inv, WriteRefused
    PROVE  Inv'
<1>1. /\ phase = "idle" /\ phase' = "idle" /\ rpos' = rpos /\ wpos' = wpos /\ at' = at
      /\ s' = s /\ sent' = sent /\ el' = [el EXCEPT !.offset = wpos]
  BY DEF WriteRefused, Idle
<1>2. IsElement(el) /\ rpos \in Nat /\ wpos \in Nat /\ wpos \in Int /\ at \in Nat
  BY <1>1 DEF Inv, TypeInv
<1>3. IsElement(el') /\ el'.kind = el.kind
  BY <1>1, <1>2, OtherOffset
<1>4. QED
  BY <1>1, <1>2, <1>3, Moves

LEMMA MoveToIs ==
    ASSUME NEW p \in Nat, wpos \in Nat, MoveTo(p)
    PROVE  rpos' = p /\ rpos' \in Nat /\ wpos' \in Nat
  BY DEF MoveTo

LEMMA BehindIs == ASSUME NEW p PROVE Behind(p) = Rest(s, p)
  BY DEF Behind, Rest

LEMMA ReadIdInv ==
    ASSUME Inv, ReadId
    PROVE  Inv'
<1> DEFINE id == IdRead(Rest(s, rpos))
<1>1. phase = "idle" /\ el' = el /\ Behind(rpos) = Rest(s, rpos)
  BY BehindIs DEF ReadId, Idle
<1>2. IsElement(el) /\ s \in Seq(Octets) /\ rpos \in Nat /\ wpos \in Nat
  BY <1>1 DEF Inv, TypeInv
<1>3. CASE Ok(id)
  <2>1. /\ phase' = "id" /\ at' = rpos /\ got' = id.value /\ MoveTo(rpos + id.len)
        /\ s' = s /\ sent' = sent
    BY <1>1, <1>3 DEF ReadId
  <2>2. id.len \in Nat
    BY <1>2, <1>3, RestIs, IdReadIs
  <2>3. rpos' = rpos + id.len /\ rpos' \in Nat /\ wpos' \in Nat
    BY <1>2, <2>1, <2>2, MoveToIs
  <2>4. TypeInv'
    BY <1>1, <1>2, <2>1, <2>3 DEF Inv, TypeInv
  <2>5. IdIsThere'
    BY <1>3, <2>1, <2>3 DEF IdIsThere
  <2>6. SentIsThere'
    BY <1>1, <2>1 DEF Inv, SentIsThere, WasSent
  <2>7. QED
    BY <2>4, <2>5, <2>6 DEF Inv
<1>4. CASE ~Ok(id)
  <2>1. Stop(id.status)
    BY <1>1, <1>4 DEF ReadId
  <2>2. QED
    BY <1>1, <2>1, Stops
<1>5. QED
  BY <1>3, <1>4

(* The parts of a read that succeeds: a size field, and a body of the      *)
(* length that the field says, accepted for the class.                     *)
LEMMA ReadIs ==
    ASSUME Inv, Read, phase' # "stopped",
           NEW id, id = IdRead(Rest(s, at)), NEW size, size = VintRead(Rest(s, rpos)),
           NEW octets, octets = Taken(rpos + size.len, size.value)
    PROVE  /\ Ok(id) /\ el.id = id.value /\ rpos = at + id.len /\ id.len \in Nat
           /\ IsId(el.id) /\ IdSize(el.id) \in Nat /\ IdSize(el.id) <= id.len
           /\ Ok(size) /\ size.len \in Widths /\ size.len \in Nat
           /\ size.value \in Nat /\ size.value < Capacity(size.len)
           /\ octets \in Seq(Octets) /\ Len(octets) = size.value
           /\ IsElement(Opened) /\ Opened.kind = el.kind /\ Opened.id = el.id
           /\ Opened.offset = rpos - IdSize(el.id)
           /\ BodyFault(Opened, Len(octets)) = "ok" /\ el' = Filled(Opened, octets)
           /\ MoveTo(rpos + size.len + size.value)
           /\ phase' = "idle" /\ at' = 0 /\ s' = s /\ sent' = sent
           /\ last' = Call("read", at, size.len + size.value)
<1>1. phase = "id" /\ got = el.id /\ Behind(rpos) = Rest(s, rpos)
  BY BehindIs DEF Read
<1>2. IsElement(el) /\ s \in Seq(Octets) /\ rpos \in Nat /\ wpos \in Nat /\ at \in Nat
  BY <1>1 DEF Inv, TypeInv
<1>3. Ok(id) /\ el.id = id.value /\ rpos = at + id.len
  BY <1>1 DEF Inv, IdIsThere
<1>4. id.len \in Nat /\ IsId(el.id) /\ IdSize(el.id) <= id.len
  BY <1>2, <1>3, RestIs, IdReadIs
<1>5. IdSize(el.id) \in Nat
  <2>1. el.id \in Int
    BY <1>2 DEF IsElement
  <2>2. QED
    BY <1>4, <2>1, IdSizeIs
<1>6. /\ Ok(size) /\ BodyFault(el, size.value) = "ok"
      /\ Left(rpos + size.len) >= size.value
      /\ el' = Filled(Opened, octets)
      /\ MoveTo(rpos + size.len + size.value)
      /\ phase' = "idle" /\ at' = 0 /\ s' = s /\ sent' = sent
      /\ last' = Call("read", at, size.len + BodyCount(el, size.value))
  BY <1>1 DEF Read, Stop
<1>7. /\ size.len \in Widths /\ size.len \in Nat
      /\ size.value \in Nat /\ size.value < Capacity(size.len)
  BY <1>2, <1>6, RestIs, VintReadIs
<1>8. octets \in Seq(Octets) /\ Len(octets) = size.value
  <2>1. rpos + size.len \in Nat
    BY <1>2, <1>7
  <2>2. (IF rpos + size.len < Len(s) THEN Len(s) - (rpos + size.len) ELSE 0) >= size.value
    BY <1>6 DEF Left
  <2> DEFINE p == rpos + size.len
             n == size.value
  <2>3. octets = SubSeq(s, p + 1, p + n)
    BY DEF Taken
  <2>4. s \in Seq(Octets) /\ p \in Nat /\ n \in Nat
    BY <1>2, <1>7, <2>1
  <2>5. n = 0 \/ p + n <= Len(s)
    BY <2>2, <2>4
  <2> HIDE DEF p, n
  <2>6. SubSeq(s, p + 1, p + n) \in Seq(Octets) /\ Len(SubSeq(s, p + 1, p + n)) = n
    BY <2>4, <2>5, TakenFits
  <2>7. octets \in Seq(Octets) /\ Len(octets) = n
    BY <2>3, <2>6
  <2>8. QED
    BY <2>7 DEF n
<1>9. /\ IsElement(Opened) /\ Opened.kind = el.kind /\ Opened.id = el.id
      /\ Opened.offset = rpos - IdSize(el.id)
  <2>1. rpos - IdSize(el.id) \in Int
    BY <1>2, <1>5
  <2>2. Opened = [el EXCEPT !.offset = rpos - IdSize(el.id)]
    BY DEF Opened, OffsetBehindId
  <2>3. QED
    BY <1>2, <2>1, <2>2, OtherOffset
<1>10. BodyFault(Opened, Len(octets)) = "ok"
  BY <1>6, <1>8, <1>9 DEF BodyFault
<1>11. last' = Call("read", at, size.len + size.value)
  BY <1>6 DEF BodyCount
<1>12. QED
  BY <1>3, <1>4, <1>5, <1>6, <1>7, <1>8, <1>9, <1>10, <1>11

LEMMA ReadInv ==
    ASSUME Inv, Read
    PROVE  Inv'
<1>1. phase = "id" /\ phase # "stopped"
  BY DEF Read
<1>2. CASE phase' = "stopped"
  <2>1. \E why : Stop(why)
    BY <1>1, <1>2 DEF Read
  <2>2. PICK why : Stop(why)
    BY <2>1
  <2>3. QED
    BY <1>1, <2>2, Stops
<1>3. CASE phase' # "stopped"
  <2> DEFINE size == VintRead(Rest(s, rpos))
             octets == Taken(rpos + size.len, size.value)
  <2>1. /\ size.len \in Nat /\ size.value \in Nat /\ octets \in Seq(Octets)
        /\ IsElement(Opened) /\ Opened.kind = el.kind
        /\ BodyFault(Opened, Len(octets)) = "ok" /\ el' = Filled(Opened, octets)
        /\ MoveTo(rpos + size.len + size.value)
        /\ phase' = "idle" /\ at' = 0 /\ s' = s /\ sent' = sent
    BY <1>3, ReadIs
  <2> HIDE DEF size, octets
  <2>2. IsElement(el') /\ el'.kind = el.kind
    BY <2>1, FilledIs
  <2>3. rpos \in Nat /\ wpos \in Nat
    BY DEF Inv, TypeInv
  <2>4. rpos' \in Nat /\ wpos' \in Nat
    <3>1. rpos + size.len + size.value \in Nat
      BY <2>1, <2>3
    <3>2. QED
      BY <2>1, <2>3, <3>1, MoveToIs
  <2>5. QED
    BY <1>1, <2>1, <2>2, <2>4, Moves
<1>4. QED
  BY <1>2, <1>3

(* What is skipped is the ID, unless it has been read, and the rest.       *)
LEMMA SkipIs ==
    ASSUME s \in Seq(Octets), NEW p \in Nat, NEW and_id \in BOOLEAN, Ok(Skip(p, and_id))
    PROVE  Skip(p, and_id).len \in Nat
<1> DEFINE id == IdLenAt(p, and_id)
           size == VintRead(Behind(p + id.len))
<1>1. Ok(id)
  BY DEF Skip
<1>2. id.len \in Nat
  <2>1. CASE and_id
    <3>1. id = IdRead(Rest(s, p))
      BY <2>1, BehindIs DEF IdLenAt
    <3>2. QED
      BY <1>1, <3>1, RestIs, IdReadIs
  <2>2. CASE ~and_id
    BY <2>2 DEF IdLenAt, Got
  <2>3. QED
    BY <2>1, <2>2
<1>3. Ok(size) /\ Skip(p, and_id) = Got(0, id.len + size.len + size.value)
  BY <1>1 DEF Skip
<1>4. size = VintRead(Rest(s, p + id.len)) /\ p + id.len \in Nat
  BY <1>2, BehindIs
<1>5. size.len \in Nat /\ size.value \in Nat
  BY <1>3, <1>4, RestIs, VintReadIs
<1> HIDE DEF id, size
<1>6. id.len + size.len + size.value \in Nat
  BY <1>2, <1>5
<1>7. QED
  BY <1>3, <1>6 DEF Got

LEMMA SkipInv ==
    ASSUME Inv, SkipRead \/ SkipWrite
    PROVE  Inv'
<1>1. el' = el /\ phase \in {"idle", "id"}
  BY DEF SkipRead, SkipWrite, Idle
<1>2. s \in Seq(Octets) /\ rpos \in Nat /\ wpos \in Nat /\ at \in Nat /\ IsElement(el)
  BY <1>1 DEF Inv, TypeInv
<1>3. CASE SkipRead
  <2> DEFINE skip == Skip(rpos, Idle)
  <2>1. CASE Ok(skip)
    <3>1. MoveTo(rpos + skip.len) /\ phase' = "idle" /\ at' = 0 /\ s' = s /\ sent' = sent
      BY <1>3, <2>1 DEF SkipRead
    <3>2. skip.len \in Nat
      <4>1. Idle \in BOOLEAN
        BY DEF Idle
      <4>2. QED
        BY <1>2, <2>1, <4>1, SkipIs
    <3>3. rpos' \in Nat /\ wpos' \in Nat
      BY <1>2, <3>1, <3>2, MoveToIs
    <3>4. QED
      BY <1>1, <1>2, <3>1, <3>3, Moves
  <2>2. CASE ~Ok(skip)
    <3>1. Stop(skip.status)
      BY <1>3, <2>2 DEF SkipRead
    <3>2. QED
      BY <1>1, <3>1, Stops
  <2>3. QED
    BY <2>1, <2>2
<1>4. CASE SkipWrite
  <2> DEFINE skip == Skip(wpos, TRUE)
  <2>1. CASE Ok(skip)
    <3>1. /\ wpos' = (IF joint THEN rpos ELSE wpos + skip.len) /\ rpos' = rpos
          /\ phase' = phase /\ at' = at /\ s' = s /\ sent' = sent /\ phase = "idle"
      BY <1>4, <2>1 DEF SkipWrite, Idle
    <3>2. skip.len \in Nat
      <4>1. \A b \in BOOLEAN : Ok(Skip(wpos, b)) => Skip(wpos, b).len \in Nat
        BY <1>2, SkipIs
      <4>2. TRUE \in BOOLEAN
        OBVIOUS
      <4>3. Ok(Skip(wpos, TRUE)) => Skip(wpos, TRUE).len \in Nat
        BY <4>1, <4>2, Zenon
      <4>4. QED
        BY <2>1, <4>3
    <3> HIDE DEF skip
    <3>3. rpos' \in Nat /\ wpos' \in Nat
      BY <1>2, <3>1, <3>2
    <3>4. QED
      BY <1>1, <1>2, <3>1, <3>3, Moves
  <2>2. CASE ~Ok(skip)
    <3>1. Stop(skip.status)
      BY <1>4, <2>2 DEF SkipWrite
    <3>2. QED
      BY <1>1, <3>1, Stops
  <2>3. QED
    BY <2>1, <2>2
<1>5. QED
  BY <1>3, <1>4

LEMMA InvNext ==
    ASSUME Inv, [Next]_vars
    PROVE  Inv'
<1>1. CASE UNCHANGED vars
  BY <1>1, InvFrame
<1>2. CASE Next
  BY <1>2, ClientInv, SeekInv, WriteInv, RefusedInv, ReadIdInv, ReadInv, SkipInv DEF Next
<1>3. QED
  BY <1>1, <1>2

(* Whatever the client does and whatever the streams hold, the octets, the *)
(* object, the ID just read and the element written last stay as the       *)
(* invariant says.                                                         *)
THEOREM Holds == Spec => []Inv
<1>1. Init => Inv
  BY InvInit
<1>2. Inv /\ [Next]_vars => Inv'
  BY InvNext
<1>3. QED
  BY <1>1, <1>2, PTL DEF Spec

----------------------------------------------------------------------------
(* The properties.                                                         *)

(* Only Read ends a read with an element.                                  *)
LEMMA ReadDoneIs ==
    ASSUME [Next]_vars, ReadDone
    PROVE  Read /\ phase' # "stopped"
<1>1. phase = "id" /\ phase' = "idle" /\ last'.op = "read"
  BY DEF ReadDone
<1>2. ~SkipRead
  BY <1>1 DEF SkipRead, None, Stop
<1>3. QED
  BY <1>1, <1>2 DEF Next, vars, Idle, SetId, SetPadding, TakeOther, SeekRead, SeekWrite,
     Write, WriteRefused, ReadId, SkipWrite

(* Only Write changes the stream.                                          *)
LEMMA WriteDoneIs ==
    ASSUME [Next]_vars, WriteDone
    PROVE  Write
  BY DEF WriteDone, Next, vars, SetId, SetPadding, TakeOther, SeekRead, SeekWrite,
     WriteRefused, ReadId, Read, SkipRead, SkipWrite, Stop

LEMMA WriteCounts ==
    ASSUME Inv, [Next]_vars, WriteDone
    PROVE  Len(s') - Len(s) = last'.count /\ el'.offset = last'.from
<1>1. Write
  BY WriteDoneIs
<1>2. last' = Call("write", wpos, Size(el))
  BY <1>1 DEF Write
<1>3. last'.count = Size(el) /\ last'.from = wpos
  BY <1>2 DEF Call
<1>4. /\ Len(Written(el)) = Size(el) /\ Len(Written(el)) \in Nat
      /\ Len(s') = Len(s) + Size(el) /\ el'.offset = wpos
  BY <1>1, WriteIs
<1>5. Len(s) \in Nat
  BY DEF Inv, TypeInv
<1>6. QED
  BY <1>3, <1>4, <1>5

LEMMA ReadCounts ==
    ASSUME Inv, [Next]_vars, ReadDone
    PROVE  /\ rpos' = rpos + last'.count
           /\ rpos' = at + Skip(at, TRUE).len
           /\ Canonical => el'.offset = at
<1> DEFINE id == IdRead(Rest(s, at))
           size == VintRead(Rest(s, rpos))
           octets == Taken(rpos + size.len, size.value)
<1>1. Read /\ phase' # "stopped"
  BY ReadDoneIs
<1>2. /\ Ok(id) /\ rpos = at + id.len /\ id.len \in Nat /\ IdSize(el.id) \in Nat
      /\ Ok(size) /\ size.len \in Nat /\ size.value \in Nat
      /\ octets \in Seq(Octets) /\ Len(octets) = size.value
      /\ IsElement(Opened) /\ Opened.kind = el.kind
      /\ Opened.offset = rpos - IdSize(el.id)
      /\ BodyFault(Opened, Len(octets)) = "ok" /\ el' = Filled(Opened, octets)
      /\ MoveTo(rpos + size.len + size.value)
      /\ last' = Call("read", at, size.len + size.value)
  BY <1>1, ReadIs
<1>3. rpos \in Nat /\ at \in Nat
  BY DEF Inv, TypeInv
<1>4. IdLenAt(at, TRUE) = id /\ Behind(at + id.len) = Rest(s, rpos)
  BY <1>2, BehindIs DEF IdLenAt
<1>5. Skip(at, TRUE) = Got(0, id.len + size.len + size.value)
  BY <1>2, <1>4 DEF Skip
<1> DEFINE skip == Skip(at, TRUE)
<1> HIDE DEF id, size, octets, skip
<1>6. skip.len = id.len + size.len + size.value
  <2>1. skip = Got(0, id.len + size.len + size.value)
    BY <1>5 DEF skip
  <2>2. QED
    BY <2>1 DEF Got
<1>7. rpos' = rpos + size.len + size.value
  BY <1>2 DEF MoveTo
<1>8. last'.count = size.len + size.value
  BY <1>2 DEF Call
<1>9. el'.offset = rpos - IdSize(el.id)
  BY <1>2, FilledIs
<1>10. rpos' = rpos + last'.count
  <2>1. rpos + size.len + size.value = rpos + (size.len + size.value)
    BY <1>2, <1>3
  <2>2. QED
    BY <1>7, <1>8, <2>1
<1>11. rpos' = at + skip.len
  <2>1. rpos + size.len + size.value = at + (id.len + size.len + size.value)
    <3>1. /\ rpos = at + id.len /\ id.len \in Nat /\ size.len \in Nat /\ size.value \in Nat
          /\ at \in Nat
      BY <1>2, <1>3
    <3>2. QED
      BY <3>1
  <2>2. QED
    BY <1>6, <1>7, <2>1
<1>12. Canonical => el'.offset = at
  BY <1>2, <1>3, <1>9 DEF Canonical
<1>13. QED
  BY <1>10, <1>11, <1>12 DEF skip

(* What size() announces, what write() returns, what is in the stream,     *)
(* what read() returns and what skip_read() passes over are the same       *)
(* count, for values, IDs, paddings and foreign octets of every length.    *)
THEOREM CountsOfOctets == Spec => CountsAreOctets
<1>1. Inv /\ [Next]_vars => [WriteDone => /\ Len(s') - Len(s) = last'.count
                                          /\ el'.offset = last'.from]_vars
  BY WriteCounts
<1>2. Inv /\ [Next]_vars => [ReadDone => /\ rpos' = rpos + last'.count
                                         /\ rpos' = at + Skip(at, TRUE).len
                                         /\ Canonical => el'.offset = at]_vars
  BY ReadCounts
<1>3. QED
  BY <1>1, <1>2, Holds, PTL DEF Spec, CountsAreOctets

LEMMA ReadsBack ==
    ASSUME Inv, [Next]_vars, ReadDone, WasSent, last'.from = sent.at
    PROVE  /\ el'.value = Meant(sent.el)
           /\ el.kind = "Float" => el'.prec = sent.el.prec
<1> DEFINE e == sent.el
           id == IdRead(Rest(s, at))
           size == VintRead(Rest(s, rpos))
           octets == Taken(rpos + size.len, size.value)
<1>1. Read /\ phase' # "stopped" /\ phase # "stopped"
  BY ReadDoneIs DEF ReadDone
<1>2. /\ rpos = at + id.len
      /\ IsElement(Opened) /\ Opened.kind = el.kind /\ el' = Filled(Opened, octets)
      /\ last' = Call("read", at, size.len + size.value)
  BY <1>1, ReadIs
<1>3. at = sent.at
  BY <1>2 DEF Call
<1>4. /\ IsElement(e) /\ IsId(e.id) /\ V!IsVint(BodySize(e)) /\ e.kind = el.kind
      /\ Begins(Rest(s, at), Written(e)) /\ s \in Seq(Octets) /\ at \in Nat
  BY <1>1, <1>3 DEF Inv, TypeInv, SentIsThere
<1> HIDE DEF e
<1>5. id = Got(e.id, IdSize(e.id))
  BY <1>4, ReadBack
<1>6. rpos = at + IdSize(e.id)
  BY <1>2, <1>5 DEF Got
<1>7. size = Got(BodySize(e), V!VintSize(BodySize(e)))
  BY <1>4, <1>6, ReadBack
<1> HIDE DEF id, size
<1>8. size.len = V!VintSize(BodySize(e)) /\ size.value = BodySize(e)
  BY <1>7 DEF Got
<1>9. octets = Body(e)
  BY <1>4, <1>6, <1>8, ReadBack DEF Taken
<1>10. Understood(e, Opened)
  BY <1>2, <1>4, BodyIs
<1> HIDE DEF octets
<1>11. el'.value = Meant(e) /\ (el.kind = "Float" => el'.prec = e.prec)
  BY <1>2, <1>9, <1>10 DEF Understood
<1>12. QED
  BY <1>11 DEF e

(* An element written is read back with the value it had, into any object  *)
(* of its class, whatever numbers, strings and IDs there may be.           *)
THEOREM RoundTripHolds == Spec => RoundTrip
<1>1. Inv /\ [Next]_vars =>
          [(ReadDone /\ WasSent /\ last'.from = sent.at) =>
              /\ el'.value = Meant(sent.el)
              /\ el.kind = "Float" => el'.prec = sent.el.prec]_vars
  BY ReadsBack
<1>2. QED
  BY <1>1, Holds, PTL DEF Spec, RoundTrip

LEMMA ReadFits ==
    ASSUME Inv, [Next]_vars, ReadDone
    PROVE  Size([el' EXCEPT !.padding = 0]) <= rpos' - at
<1> DEFINE id == IdRead(Rest(s, at))
           size == VintRead(Rest(s, rpos))
           octets == Taken(rpos + size.len, size.value)
           g == [el' EXCEPT !.padding = 0]
           n == BodySize(g)
           z == V!VintSize(n)
           k == IdSize(el.id)
<1>1. Read /\ phase' # "stopped"
  BY ReadDoneIs
<1>2. /\ rpos = at + id.len /\ id.len \in Nat /\ k \in Nat /\ k <= id.len
      /\ size.len \in Widths /\ size.len \in Nat
      /\ size.value \in Nat /\ size.value < Capacity(size.len)
      /\ octets \in Seq(Octets) /\ Len(octets) = size.value
      /\ IsElement(Opened) /\ Opened.id = el.id
      /\ BodyFault(Opened, Len(octets)) = "ok" /\ el' = Filled(Opened, octets)
      /\ MoveTo(rpos + size.len + size.value)
  BY <1>1, ReadIs
<1>3. rpos \in Nat /\ at \in Nat
  BY DEF Inv, TypeInv
<1> HIDE DEF id, size, octets, k
<1>4. g.id = el.id /\ n \in Nat /\ n <= size.value
  BY <1>2, FilledIs
<1>5. Size(g) = k + z + n
  BY <1>4 DEF Size, k
<1> HIDE DEF g, n
<1>6. n < Capacity(size.len)
  <2>1. size.len \in Widths /\ size.value \in Nat /\ size.value < Capacity(size.len)
    BY <1>2
  <2>2. Capacity(size.len) \in Nat
    BY <2>1, CapacityIs
  <2>3. QED
    BY <1>4, <2>1, <2>2
<1>7. z \in Nat /\ z <= size.len
  <2>1. /\ OctetBits \in Nat /\ OctetBits \in Widths /\ size.len <= OctetBits
        /\ Widths = 1..OctetBits
    BY <1>2, CodecAssumption DEF Widths
  <2>2. Capacity(size.len) \in Nat /\ Capacity(OctetBits) \in Nat
        /\ Capacity(size.len) <= Capacity(OctetBits)
    <3>1. Capacity(size.len) \in Nat /\ Capacity(OctetBits) \in Nat
      BY <1>2, <2>1, CapacityIs
    <3>2. CASE size.len = OctetBits
      BY <3>1, <3>2
    <3>3. CASE size.len # OctetBits
      <4>1. size.len < OctetBits
        BY <1>2, <2>1, <3>3
      <4>2. 2 * Capacity(size.len) <= Capacity(OctetBits)
        BY <1>2, <2>1, <4>1, CapacityGrows
      <4>3. QED
        BY <3>1, <4>2
    <3>4. QED
      BY <3>2, <3>3
  <2>3. V!IsVint(n)
    BY <1>4, <1>6, <2>1, <2>2 DEF V!IsVint
  <2>4. z \in Widths /\ z <= size.len
    BY <1>2, <1>6, <2>3, VintSizeIs
  <2>5. QED
    BY <2>1, <2>4
<1>8. rpos' = rpos + size.len + size.value
  BY <1>2 DEF MoveTo
<1> HIDE DEF z
<1>9. rpos' - at = id.len + size.len + size.value
  <2>1. /\ at \in Nat /\ id.len \in Nat /\ size.len \in Nat /\ size.value \in Nat
        /\ rpos' = (at + id.len) + size.len + size.value
    BY <1>2, <1>3, <1>8
  <2>2. QED
    BY <2>1
<1>10. k + z + n <= id.len + size.len + size.value
  BY <1>2, <1>4, <1>7
<1>11. QED
  BY <1>5, <1>9, <1>10 DEF g

(* Written again in its old place, an element read never reaches into what *)
(* follows it: no field comes out longer than any program wrote it.        *)
THEOREM RewritesFit == Spec => RewriteFits
<1>1. Inv /\ [Next]_vars =>
          [ReadDone => Size([el' EXCEPT !.padding = 0]) <= rpos' - at]_vars
  BY ReadFits
<1>2. QED
  BY <1>1, Holds, PTL DEF Spec, RewriteFits

LEMMA FailureKeeps ==
    ASSUME Inv, [Next]_vars, phase = "id", phase' = "stopped", el.kind # "Date"
    PROVE  el'.value = el.value
<1>1. Read \/ SkipRead
  BY DEF Next, vars, Idle, SetId, SetPadding, TakeOther, SeekRead, SeekWrite,
     Write, WriteRefused, ReadId, SkipWrite
<1>2. CASE SkipRead
  BY <1>2 DEF SkipRead
<1>3. CASE Read
  <2>1. IsElement(el)
    BY DEF Inv, TypeInv
  <2>2. el.kind \in InTemporary
    BY <2>1 DEF IsElement, Kinds, InTemporary, NotStrings
  <2>3. el = [kind |-> el.kind, id |-> el.id, value |-> el.value, padding |-> el.padding,
              prec |-> el.prec, offset |-> el.offset]
    BY <2>1 DEF IsElement
  <2>4. Opened.kind = el.kind /\ Opened.value = el.value
    BY <2>3 DEF Opened
  <2>5. \A octets : CutShort(Opened, octets) = Opened
    BY <2>2, <2>4 DEF CutShort
  <2>6. el' = Opened
    BY <1>3, <2>5 DEF Read
  <2>7. QED
    BY <2>4, <2>6
<1>4. QED
  BY <1>1, <1>2, <1>3

(* A read that throws leaves the caller the value it had, dates apart.     *)
THEOREM FailedReadKeeps == Spec => FailedReadKeepsValue
<1>1. Inv /\ [Next]_vars =>
          [(phase = "id" /\ phase' = "stopped" /\ el.kind # "Date") =>
              el'.value = el.value]_vars
  BY FailureKeeps
<1>2. QED
  BY <1>1, Holds, PTL DEF Spec, FailedReadKeepsValue

=============================================================================
