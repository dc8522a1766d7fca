-------------------------- MODULE TracksContainer --------------------------
(***************************************************************************)
(* Tracks elements as containers (src/src/tracks.cpp): maps from track     *)
(* numbers to entries.  The maps hold shared pointers, so that an entry    *)
(* can be in several of them, and the client that holds one can change the *)
(* number and UID of the entry at any time.  The map does not notice: the  *)
(* key stays what the number was.                                          *)
(*                                                                         *)
(* A body is the sequence of its entries' numbers and UIDs.                *)
(***************************************************************************)
EXTENDS Integers, Sequences

CONSTANTS
    Holders,         \* Tracks objects
    Entries,         \* TrackEntry objects
    Numbers, Uids,   \* track numbers and UIDs; zero is refused
    Foreign          \* bodies that other programs have written

Records == [number : Numbers, uid : Uids]

ASSUME TracksAssumption ==
    /\ Numbers \subseteq Nat \ {0} /\ Uids \subseteq Nat \ {0}
    /\ Foreign \subseteq Seq(Records)

VARIABLES
    entry,         \* what each entry says
    tracks,        \* entries_ of each Tracks object
    body, origin,  \* what the stream holds, and who wrote it to its end
    phase, cur,    \* the call under way, on which object
    done,          \* keys written, or records read
    outcome,       \* how the last call ended
    touched        \* history: an entry was changed while in a map

vars == <<entry, tracks, body, origin, phase, cur, done, outcome, touched>>

Maps == UNION {[ks -> Entries] : ks \in SUBSET Numbers}

Keys(t) == DOMAIN tracks[t]
Said(t, k) == entry[tracks[t][k]]
InMap(e) == \E t \in Holders : \E k \in Keys(t) : tracks[t][k] = e

Nothing == [k \in {} |-> 0]
Only(m, ks) == [k \in ks |-> m[k]]

(* map::insert() does not replace.                                         *)
Extended(m, new) ==
    [k \in DOMAIN m \cup DOMAIN new |-> IF k \in DOMAIN m THEN m[k] ELSE new[k]]

(* verify_not_duplicate() looks for the number among the keys and for the  *)
(* UID among the entries.                                                  *)
NoSuchNumber(t, rec) == rec.number \notin Keys(t)
NotDuplicate(t, rec) ==
    NoSuchNumber(t, rec) /\ \A k \in Keys(t) : Said(t, k).uid # rec.uid

(* validate_entries() compares what the entries say.                       *)
KeysDiffer(t) == \A j, k \in Keys(t) : j # k => Said(t, j).uid # Said(t, k).uid
Validated(t) ==
    \A j, k \in Keys(t) : j # k =>
        /\ Said(t, j).number # Said(t, k).number
        /\ Said(t, j).uid # Said(t, k).uid

----------------------------------------------------------------------------
(* The client and the containers                                           *)
Idle == phase = "idle" /\ outcome' = "none" /\ UNCHANGED <<body, origin, phase, cur, done>>

(* Through a pointer; setters refuse zero.                                 *)
SetEntry(e) ==
    /\ Idle
    /\ \E rec \in Records :
        /\ rec.number = entry[e].number \/ rec.uid = entry[e].uid
        /\ entry' = [entry EXCEPT ![e] = rec]
    /\ touched' = (touched \/ InMap(e))
    /\ UNCHANGED tracks

(* at() and operator[] give out the pointer in the map itself.             *)
Assign(t, k, e) ==
    /\ Idle
    /\ tracks' = [tracks EXCEPT ![t] = [@ EXCEPT ![k] = e]]
    /\ touched' = TRUE
    /\ UNCHANGED entry

Insert(t, e) ==
    /\ Idle
    /\ NotDuplicate(t, entry[e])
    /\ tracks' = [tracks EXCEPT ![t] = Extended(@, [k \in {entry[e].number} |-> e])]
    /\ UNCHANGED <<entry, touched>>

(* A range of another map, or of the same; its members are compared with   *)
(* the map as it is, and go where they were in theirs.                     *)
Between(m, lo, hi) == {k \in DOMAIN m : lo <= k /\ k <= hi}

InsertRange(t, from, lo, hi) ==
    LET ks == Between(tracks[from], lo, hi) IN
    /\ Idle
    /\ \A k \in ks : NotDuplicate(t, Said(from, k))
    /\ tracks' = [tracks EXCEPT ![t] = Extended(@, Only(tracks[from], ks))]
    /\ UNCHANGED <<entry, touched>>

(* erase() in its three forms, and clear()                                 *)
Erase(t, lo, hi) ==
    /\ Idle
    /\ tracks' = [tracks EXCEPT ![t] = Only(@, DOMAIN @ \ Between(@, lo, hi))]
    /\ UNCHANGED <<entry, touched>>

Swap(t, u) ==
    /\ Idle
    /\ tracks' = [tracks EXCEPT ![t] = tracks[u], ![u] = tracks[t]]
    /\ UNCHANGED <<entry, touched>>

Copy(t, u) ==
    /\ Idle
    /\ tracks' = [tracks EXCEPT ![t] = tracks[u]]
    /\ UNCHANGED <<entry, touched>>

----------------------------------------------------------------------------
(* write_body(): checked first, then entry by entry in the order of keys.  *)
Begin(call, t) == phase = "idle" /\ phase' = call /\ cur' = t /\ outcome' = "none"
End(how) == phase' = "idle" /\ outcome' = how /\ done' = {}

Writable(t) == Keys(t) # {} /\ Validated(t)

BeginWrite(t) ==
    /\ Begin("write", t) /\ Writable(t)
    /\ body' = <<>> /\ origin' = "none" /\ done' = {}
    /\ UNCHANGED <<entry, tracks, touched>>

(* The ID and size of the element are in the stream when it is refused.    *)
WriteRefused(t) ==
    /\ phase = "idle" /\ ~Writable(t)
    /\ cur' = t /\ End("write refused")
    /\ body' = <<>> /\ origin' = "none"
    /\ UNCHANGED <<entry, tracks, touched>>

WriteEntry ==
    /\ phase = "write"
    /\ \E k \in Keys(cur) \ done :
        /\ \A j \in Keys(cur) \ done : k <= j
        /\ body' = Append(body, Said(cur, k))
        /\ done' = done \cup {k}
    /\ UNCHANGED <<entry, tracks, origin, phase, cur, outcome, touched>>

EndWrite ==
    /\ phase = "write" /\ Keys(cur) \subseteq done
    /\ End("written") /\ origin' = "own"
    /\ UNCHANGED <<entry, tracks, body, cur, touched>>

----------------------------------------------------------------------------
(* read_body(): new entries, each inserted as it has been read.            *)
Arrive ==
    /\ phase = "idle" /\ outcome' = "none"
    /\ body' \in Foreign /\ origin' = "foreign"
    /\ UNCHANGED <<entry, tracks, phase, cur, done, touched>>

KeepsThem(m) == m
Forgotten(m) == Nothing

BeginRead(t) ==
    /\ Begin("read", t) /\ origin # "none"
    /\ tracks' = [tracks EXCEPT ![t] = Forgotten(@)]
    /\ done' = {}
    /\ UNCHANGED <<entry, body, origin, touched>>

ReadEntry ==
    /\ phase = "read"
    /\ \E i \in DOMAIN body \ done :
        /\ \A j \in DOMAIN body \ done : i <= j
        /\ NotDuplicate(cur, body[i])
        /\ done' = done \cup {i}
        /\ \E e \in Entries :
            /\ ~InMap(e)
            /\ entry' = [entry EXCEPT ![e] = body[i]]
            /\ tracks' = [tracks EXCEPT ![cur] = Extended(@, [k \in {body[i].number} |-> e])]
    /\ UNCHANGED <<body, origin, phase, cur, outcome, touched>>

(* A duplicate ends the reading; the entries before it stay.               *)
ReadRefused ==
    /\ phase = "read"
    /\ \E i \in DOMAIN body \ done :
        /\ \A j \in DOMAIN body \ done : i <= j
        /\ ~NotDuplicate(cur, body[i])
    /\ End("read refused")
    /\ UNCHANGED <<entry, tracks, body, origin, cur, touched>>

EndRead ==
    /\ phase = "read" /\ DOMAIN body \subseteq done
    /\ End(IF Keys(cur) # {} /\ Validated(cur) THEN "read" ELSE "read refused")
    /\ UNCHANGED <<entry, tracks, body, origin, cur, touched>>

----------------------------------------------------------------------------
Init ==
    /\ entry \in [Entries -> Records]
    /\ tracks = [t \in Holders |-> Nothing]
    /\ body = <<>> /\ origin = "none"
    /\ phase = "idle" /\ cur \in Holders /\ done = {}
    /\ outcome = "none" /\ touched = FALSE

Client ==
    \/ \E e \in Entries : SetEntry(e)
    \/ \E t \in Holders :
        \/ \E e \in Entries : Insert(t, e)
        \/ \E k \in Keys(t), e \in Entries : Assign(t, k, e)
        \/ \E lo, hi \in Numbers :
            Erase(t, lo, hi) \/ \E u \in Holders : InsertRange(t, u, lo, hi)
        \/ \E u \in Holders : Swap(t, u) \/ Copy(t, u)

Write == WriteEntry \/ EndWrite \/ \E t \in Holders : BeginWrite(t) \/ WriteRefused(t)

Read ==
    Arrive \/ ReadEntry \/ ReadRefused \/ EndRead \/ \E t \in Holders : BeginRead(t)

Next == Client \/ Write \/ Read

Spec == Init /\ [][Next]_vars

----------------------------------------------------------------------------
TypeOK ==
    /\ entry \in [Entries -> Records]
    /\ tracks \in [Holders -> Maps]
    /\ body \in Seq(Records)
    /\ origin \in {"none", "own", "foreign"}
    /\ phase \in {"idle", "write", "read"} /\ cur \in Holders
    /\ done \subseteq Nat
    /\ outcome \in {"none", "written", "write refused", "read", "read refused"}
    /\ touched \in BOOLEAN

Distinct(b) ==
    \A i, j \in DOMAIN b : i # j => b[i].number # b[j].number /\ b[i].uid # b[j].uid

(* Whatever the client has done to the entries through its pointers, a     *)
(* Tracks element that write() has written to its end has neither a number *)
(* nor a UID twice (tracks.h:230-235).                                     *)
WrittenDistinct == origin = "own" => Distinct(body) /\ body # <<>>

(* The container has what the body says, and nothing else.                 *)
AllHeld ==
    /\ \A i \in DOMAIN body :
        body[i].number \in Keys(cur) /\ Said(cur, body[i].number) = body[i]
    /\ \A k \in Keys(cur) : \E i \in DOMAIN body : body[i].number = k

(* What write() has accepted, read() accepts; and what read() accepts,     *)
(* written by whomever, is in the container entry by entry, under the      *)
(* number it has.                                                          *)
RoundTrip ==
    /\ outcome = "read refused" => origin # "own"
    /\ outcome = "read" => AllHeld

(* Insertions, of ranges as well although their members are not compared   *)
(* with one another, erasures, exchanges and reading keep the keys true    *)
(* and the numbers and UIDs distinct; only changes through the pointers    *)
(* do not.                                                                 *)
Legal(t) == Validated(t) /\ \A k \in Keys(t) : Said(t, k).number = k

UntouchedLegal == ~touched => \A t \in Holders : Legal(t)
=============================================================================
