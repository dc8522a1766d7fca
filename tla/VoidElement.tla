---------------------------- MODULE VoidElement ----------------------------
(***************************************************************************)
(* A VoidElement object (src/src/void_element.cpp) through its life: made  *)
(* for a target size, resized, written to a stream and read back.  Void    *)
(* elements keep the place of other elements, so what matters is that one  *)
(* occupies exactly the bytes asked for: a byte more destroys the element  *)
(* that follows it, a byte less leaves a byte that belongs to nothing.     *)
(***************************************************************************)
EXTENDS Vint

CONSTANT Targets       \* total sizes that callers ask for

ASSUME TargetsAssumption == Targets \subseteq {t \in Nat : IsVint(t)}

VARIABLES
    body,      \* size_: bytes to skip
    extra,     \* extra_size_: bytes added to the width of the size field
    target,    \* the size the last constructor or set_size was asked for
    stored,    \* the element in the stream: its body and field width
    outcome    \* how the last call ended

voidVars == <<body, extra, target, stored, outcome>>

Stored == [body : Nat, width : Widths]

(* size() *)
Size == VoidLen(body, extra)

(* What an element found in a stream occupies.                             *)
Footprint(s) == VoidIdLen + s.width + s.body

VoidTypeOK ==
    /\ body \in Nat
    /\ extra \in 0..8
    /\ target \in Targets
    /\ stored \in Stored
    /\ outcome \in {"made", "resized", "written", "foreign",
                   "read", "VoidTooSmall"}

----------------------------------------------------------------------------
(* VoidElement(tgt_size): too small a target is refused.  The constructor  *)
(* that replaces another element computes the same from element.size().    *)
Construct(t) ==
    /\ t >= VoidMin
    /\ body' = VoidBody(t)
    /\ extra' = VoidExtra(t)
    /\ target' = t
    /\ outcome' = "made"
    /\ UNCHANGED stored

(* set_size() computes the same, but sets extra_size_ only when the        *)
(* estimate does not fit: it never takes back an extra byte it has.        *)
ResizedExtra(t) == IF VoidLen(VoidBody(t), extra) # t THEN 1 ELSE extra

SetSize(t) ==
    /\ t >= VoidMin
    /\ body' = VoidBody(t)
    /\ extra' = ResizedExtra(t)
    /\ target' = t
    /\ outcome' = "resized"
    /\ UNCHANGED stored

Refuse(t) ==
    /\ t < VoidMin
    /\ outcome' = "VoidTooSmall"
    /\ UNCHANGED <<body, extra, target, stored>>

(* write(): a size field as wide as size() counts it, then the body.  A    *)
(* wider one than the format has would fail the assertion in vint::write.  *)
WriteVoid ==
    /\ VintSize(body) + extra \in Widths
    /\ stored' = [body |-> body, width |-> VintSize(body) + extra]
    /\ outcome' = "written"
    /\ UNCHANGED <<body, extra, target>>

(* Another program may have written any Void element into the stream.      *)
Foreign(b, w) ==
    /\ IsVint(b) /\ VintSize(b) <= w
    /\ stored' = [body |-> b, width |-> w]
    /\ outcome' = "foreign"
    /\ UNCHANGED <<body, extra, target>>

(* read(): the width found beyond the minimal one is kept as extra bytes.  *)
DropsExtra(s) == 0
ReadExtra(s) == s.width - VintSize(s.body)

Read ==
    /\ body' = stored.body
    /\ extra' = ReadExtra(stored)
    /\ outcome' = "read"
    /\ UNCHANGED <<target, stored>>

VoidInit ==
    /\ target \in {t \in Targets : t >= VoidMin}
    /\ body = VoidBody(target)
    /\ extra = VoidExtra(target)
    /\ stored = [body |-> 0, width |-> 1]
    /\ outcome = "made"

VoidNext ==
    \/ \E t \in Targets : Construct(t) \/ SetSize(t) \/ Refuse(t)
    \/ \E b \in Targets, w \in Widths : Foreign(b, w)
    \/ WriteVoid
    \/ Read

VoidSpec == VoidInit /\ [][VoidNext]_voidVars

----------------------------------------------------------------------------
(* A constructed Void element occupies exactly the bytes it was made for,  *)
(* whatever class boundary its size field sits on (the assertion that ends *)
(* both constructors).                                                     *)
ConstructedExact == outcome = "made" => Size = target

(* Reading an element another program wrote and writing it again does not  *)
(* move what follows it: the object accounts for the very bytes it found,  *)
(* and writes as many.                                                     *)
ReadKeepsFootprint == outcome \in {"read", "written"} => Size = Footprint(stored)
=============================================================================
