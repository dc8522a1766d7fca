----------------------------- MODULE EBMLCodec -----------------------------
(***************************************************************************)
(* How numbers lie in the stream: variable-length integers                 *)
(* (src/src/vint.cpp), element IDs (src/src/el_ids.cpp) and the integers   *)
(* in element bodies (src/src/ebml_int.cpp).                               *)
(*                                                                         *)
(* An octet has OctetBits bits, which is also the number of octets of the  *)
(* longest integer, since the leading zero bits of the first octet count   *)
(* the others.  In the code both are 8, and the longest ID has 4 octets.   *)
(***************************************************************************)
EXTENDS Integers, SequencesExt

CONSTANTS OctetBits, MaxIdLen

ASSUME CodecAssumption ==
    /\ OctetBits \in 5..8
    /\ MaxIdLen \in 1..(OctetBits - 1)

(* 2^n, by recursion, which is what the proofs know of it.                 *)
TwoTo(n) ==
    LET power[i \in 0..n] == IF i = 0 THEN 1 ELSE 2 * power[i - 1] IN power[n]

Octet == TwoTo(OctetBits)
Octets == 0..(Octet - 1)
Widths == 1..OctetBits
IdWidths == 1..MaxIdLen

(* How many numbers k octets hold.                                         *)
Span(k) == TwoTo(OctetBits * k)

(* The first number that k octets less their length bits cannot hold; it   *)
(* is also the length bit itself, in its place.                            *)
Capacity(k) == TwoTo((OctetBits - 1) * k)

V == INSTANCE Vint WITH VintLimit <- [k \in Widths |-> Capacity(k)]

(* A number as k octets, the most significant first, and back.             *)
OctetsOf(n, k) == [i \in 1..k |-> (n \div Span(k - i)) % Octet]

NumberOf(octets) ==
    LET upto[i \in 0..Len(octets)] ==
            IF i = 0 THEN 0 ELSE upto[i - 1] * Octet + octets[i]
    IN  upto[Len(octets)]

(* What a call returns, or the exception it throws.                        *)
Failed(why) == [status |-> why, value |-> 0, len |-> 0]
Got(value, len) == [status |-> "ok", value |-> value, len |-> len]
Ok(result) == result.status = "ok"

----------------------------------------------------------------------------
(* Variable-length integers.  A width may be asked for; 0 asks for the     *)
(* least.                                                                  *)
VintWidth(n, req) == IF req > 0 THEN req ELSE V!VintSize(n)

VintFault(n, req) ==
    IF ~V!IsVint(n) THEN "VarIntTooBig"
    ELSE IF req > 0 /\ req < V!VintSize(n) THEN "SpecSizeTooSmall" ELSE "ok"

VintOctets(n, req) ==
    LET k == VintWidth(n, req) IN OctetsOf(n + Capacity(k), k)

(* The width that a first octet announces.  Zero announces none.           *)
Announced(first) ==
    CHOOSE k \in Widths :
        TwoTo(OctetBits - k) <= first /\ first < TwoTo(OctetBits - k + 1)

(* Both readers, decode() from a buffer and read() from a stream, take the *)
(* first octet, then as many as it announces.                              *)
Gathered(octets, keep) ==
    IF octets = <<>> THEN Failed("short")
    ELSE IF octets[1] = 0 THEN Failed("InvalidVarInt")
    ELSE LET k == Announced(octets[1]) IN
         IF Len(octets) < k THEN Failed("short")
         ELSE LET n == NumberOf(SubSeq(octets, 1, k))
              IN  Got(IF keep THEN n ELSE n - Capacity(k), k)

VintRead(octets) == Gathered(octets, FALSE)

----------------------------------------------------------------------------
(* IDs keep their length bit.  All other bits set is no ID.                *)
IdFitsIn(id, k) == Capacity(k) <= id /\ id <= 2 * Capacity(k) - 2

IsId(id) == \E k \in IdWidths : IdFitsIn(id, k)

IdSize(id) == CHOOSE k \in IdWidths : IdFitsIn(id, k)

IdOctets(id) == OctetsOf(id, IdSize(id))

(* The variable that takes an ID has MaxIdLen octets: of a longer one the  *)
(* first octets are shifted out before the value is checked.               *)
IdRead(octets) ==
    LET all == Gathered(octets, TRUE)
        id == all.value % Span(MaxIdLen)
    IN  IF ~Ok(all) THEN all
        ELSE IF ~IsId(id) THEN Failed("InvalidEBMLID") ELSE Got(id, all.len)

----------------------------------------------------------------------------
(* Integers in bodies.  Zero takes no octets at all.                       *)
Half(k) == Span(k) \div 2

UFitsIn(n, k) == n < Span(k)
SFitsUnsigned(n, k) == -Half(k) <= n /\ n < Span(k)
SFitsIn(n, k) == -Half(k) <= n /\ n < Half(k)

LeastU(n) == CHOOSE k \in Widths : UFitsIn(n, k) /\ \A j \in 1..(k - 1) : ~UFitsIn(n, j)
LeastS(n) == CHOOSE k \in Widths : SFitsIn(n, k) /\ \A j \in 1..(k - 1) : ~SFitsIn(n, j)

ZeroTakesOne(n) == LeastU(n)
SizeU(n) == IF n = 0 THEN 0 ELSE LeastU(n)
SizeS(n) == IF n = 0 THEN 0 ELSE LeastS(n)

EncodeU(n) == OctetsOf(n, SizeU(n))
EncodeS(n) == OctetsOf(n % Span(SizeS(n)), SizeS(n))

DecodeU(octets) == NumberOf(octets)

Negative(octets) == octets # <<>> /\ octets[1] >= Octet \div 2
DecodeS(octets) ==
    NumberOf(octets) - (IF Negative(octets) THEN Span(Len(octets)) ELSE 0)
=============================================================================
