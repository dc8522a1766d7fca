----------------------------- MODULE ByteStream -----------------------------
(***************************************************************************)
(* The byte stream that elements are written to (a std::iostream opened by *)
(* the caller).  A stream maps each position to the element that was last  *)
(* written over it, so an element is whole exactly when every one of its   *)
(* bytes is still its own.                                                 *)
(***************************************************************************)
EXTENDS Integers

CONSTANT StreamMax     \* bound: positions the model's stream has

ASSUME StreamMaxAssumption == StreamMax \in Nat

Positions == 0..(StreamMax - 1)

(* An element as it lies in the stream.  `size` is the value of a size     *)
(* field; `entries` are the entries of a SeekHead.                         *)
Extent(kind, at, len, size, entries) ==
    [kind |-> kind, at |-> at, len |-> len, size |-> size, entries |-> entries]

Plain(kind, at, len) == Extent(kind, at, len, 0, <<>>)

Free == Plain("Free", 0, 0)

End(e) == e.at + e.len

Bytes(e) == e.at..(End(e) - 1)

(* Writing an element takes over the bytes under it.                       *)
Put(s, e) ==
    [p \in Positions |-> IF e.at <= p /\ p < End(e) THEN e ELSE s[p]]

Whole(s, e) == \A p \in Bytes(e) : s[p] = e

(* Every byte from `from` up to `to` belongs to a whole element that lies  *)
(* between them: a reader that starts at `from` meets element after        *)
(* element and ends at `to`.                                               *)
Tiled(s, from, to) ==
    \A p \in Positions : from <= p /\ p < to =>
        LET e == s[p] IN
        /\ e.kind # "Free"
        /\ from <= e.at /\ End(e) <= to
        /\ Whole(s, e)
=============================================================================
