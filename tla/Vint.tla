------------------------------- MODULE Vint -------------------------------
(***************************************************************************)
(* Sizes of EBML variable-length integers (src/src/vint.cpp), of the Void  *)
(* elements whose size field they are (src/src/void_element.cpp), and the  *)
(* signed integers of laces.                                               *)
(*                                                                         *)
(* A value is stored in the fewest bytes that hold it.  VintLimit[k] is    *)
(* the first value that k bytes cannot hold; in the code it is 2^(7k) for  *)
(* k in 1..8.  The sequence is a parameter so that the checks can meet     *)
(* every class boundary with small numbers and the proofs hold for all.    *)
(***************************************************************************)
EXTENDS Integers, Sequences

CONSTANT VintLimit

(* The code's limits grow by a factor of 128: far more than the width of   *)
(* the widest class, which is all the sizing of Void elements relies on.   *)
ASSUME VintLimitAssumption ==
    /\ VintLimit \in Seq(Nat)
    /\ Len(VintLimit) \in 2..8
    /\ VintLimit[1] > 8
    /\ \A k \in 1..(Len(VintLimit) - 1) : VintLimit[k] + 8 < VintLimit[k + 1]

Widths == 1..Len(VintLimit)

(* Values the format can hold; the code throws VarIntTooBig for others.    *)
IsVint(n) == n \in Nat /\ n < VintLimit[Len(VintLimit)]

FitsIn(n, k) == n < VintLimit[k]

(* The number of bytes a value takes: one for each shorter width it        *)
(* overflows, and one more.                                                *)
VintSize(n) ==
    CHOOSE k \in Widths : FitsIn(n, k) /\ \A j \in 1..(k - 1) : ~FitsIn(n, j)

----------------------------------------------------------------------------
(* A Void element is an ID of one byte, a size field and `body` bytes to   *)
(* skip.  `extra` bytes widen the size field beyond what the body needs.   *)

VoidIdLen == 1

VoidLen(body, extra) == VoidIdLen + VintSize(body) + extra + body

(* The body chosen for a requested total: an estimate, one byte short when *)
(* taking the field's own width off crosses a class boundary downwards.    *)
VoidBody(target) == (target - VoidIdLen) - VintSize(target - VoidIdLen)

(* The wider size field that makes up for the missing byte.                *)
NeverExtra(target) == 0
VoidExtra(target) == IF VoidLen(VoidBody(target), 0) # target THEN 1 ELSE 0

VoidMin == 2
----------------------------------------------------------------------------
(* Signed integers, the differences of frame sizes in a lace.  A width     *)
(* holds the differences up to half its range, shifted to be positive.     *)

DiffLimit(k) == VintLimit[k] \div 2 - 1

DiffWidths == 1..(Len(VintLimit) - 1)

DiffFitsIn(d, k) == -DiffLimit(k) <= d /\ d <= DiffLimit(k)

(* Other differences throw VarIntTooBig.                                   *)
IsDiff(d) == d \in Int /\ \E k \in DiffWidths : DiffFitsIn(d, k)

SToU(d) ==
    LET k == CHOOSE k \in DiffWidths :
                 DiffFitsIn(d, k) /\ \A j \in 1..(k - 1) : ~DiffFitsIn(d, j)
    IN  [value |-> d + DiffLimit(k), width |-> k]

UToS(stored) == stored.value - DiffLimit(stored.width)
=============================================================================
