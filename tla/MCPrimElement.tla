--------------------------- MODULE MCPrimElement ---------------------------
(* Octets of five bits.  Values lie around every boundary of the widths;   *)
(* streams of other programs have IDs of one, two and four octets (the     *)
(* last longer than any ID), size fields of every width, right and wrong,  *)
(* and end early or late.                                                  *)
EXTENDS PrimElement

Object(kind, value, padding, prec) ==
    [kind |-> kind, id |-> 17, value |-> value, padding |-> padding,
     prec |-> prec, offset |-> -1]

Run(n, octet) == [i \in 1..n |-> octet]

Numbers(kind, ns) == {Object(kind, n, 0, 2) : n \in ns}

MCObjects ==
    Numbers("UInt", {0, 1, 31, 32, 1023, 1024, 32767, 32768, 1048576, 33554431})
    \cup Numbers("Int", {0, 1, 15, 16, -1, -16, -17, 511, 512, -512, -513, -16777216})
    \cup Numbers("Date", {0, 5, -1, 16777215, -16777216})
    \cup {Object("Float", n, 0, p) : n \in {0, 32, 33, 1023}, p \in {1, 2}}
    \cup {Object("String", v, p, 2) :
            v \in {<<>>, <<7>>, <<7, 0>>, Run(14, 3)}, p \in {0, 1, 2}}
    \cup {Object("Binary", v, 0, 2) : v \in {<<>>, <<31, 0>>, Run(15, 3), Run(16, 3)}}

MCUsed ==
    {Object("UInt", 9, 0, 2), Object("Int", -9, 0, 2), Object("Date", -9, 0, 2),
     Object("Float", 99, 0, 1), Object("String", <<9, 9>>, 3, 2),
     Object("Binary", <<9>>, 0, 2)}

MCIds == {300, 40}

IdFields == {<<17>>, <<9, 12>>, <<2, 0, 0, 17>>, <<16>>, <<0>>}

SizeFields ==
    {<<16 + n>> : n \in {0, 1, 2, 5, 6}} \cup {<<8, n>> : n \in {1, 2, 5}}
    \cup {<<4, 0, 2>>, <<1, 0, 0, 0, 1>>, <<0>>}

Bodies ==
    {<<>>, <<16>>, <<0, 31>>, <<16, 0>>, <<31, 16, 3>>, Run(5, 31), Run(7, 2)}

MCForeign == {i \o z \o b : i \in IdFields, z \in SizeFields, b \in Bodies} \cup {<<2, 0, 0>>}

(* A vint written in any width that is asked for comes back, also from     *)
(* between other octets; a width that is too small is refused, and so is   *)
(* only the number that no width holds.                                    *)
Boundaries == UNION {{Capacity(k) - 1, Capacity(k), Capacity(k) + 1} : k \in 1..4} \cup {0}

ASSUME RequestedWidths ==
    \A n \in Boundaries, req \in 0..OctetBits :
        IF req = 0 \/ n < Capacity(req)
        THEN /\ VintFault(n, req) = "ok"
             /\ VintRead(VintOctets(n, req) \o <<31>>) = Got(n, VintWidth(n, req))
        ELSE VintFault(n, req) # "ok"
=============================================================================
