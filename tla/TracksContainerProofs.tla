----------------------- MODULE TracksContainerProofs -----------------------
(***************************************************************************)
(* The properties of TracksContainer, for any number of containers and     *)
(* entries, any numbers and UIDs, and any bodies of other programs.        *)
(***************************************************************************)
EXTENDS TracksContainer, TLAPS

(* While an element is written, the body holds what the keys dealt with    *)
(* say; while one is read, the container holds the records dealt with.     *)
(* This, and not the properties themselves, is what the steps preserve.    *)
Writing ==
    phase = "write" =>
        /\ origin = "none" /\ outcome = "none"
        /\ Writable(cur) /\ done \subseteq Keys(cur)
        /\ \A i \in DOMAIN body : \E k \in done : body[i] = Said(cur, k)
        /\ Distinct(body)
        /\ done # {} => body # <<>>

Holding ==
    /\ \A i \in done : body[i].number \in Keys(cur) /\ Said(cur, body[i].number) = body[i]
    /\ \A k \in Keys(cur) : \E i \in done : body[i].number = k

Reading ==
    phase = "read" =>
        /\ outcome = "none"
        /\ done \subseteq DOMAIN body
        /\ Legal(cur)
        /\ Holding

IInv == TypeOK /\ UntouchedLegal /\ Writing /\ Reading /\ WrittenDistinct /\ RoundTrip

-----------------------------------------------------------------------------
(* Maps                                                                      *)

(* A map is a function on numbers.                                           *)
LEMMA MapFacts ==
    ASSUME NEW m
    PROVE  m \in Maps <=> DOMAIN m \subseteq Numbers /\ m \in [DOMAIN m -> Entries]
BY DEF Maps

(* Adding to a map gives a map with both sets of keys.                       *)
LEMMA ExtendedMap ==
    ASSUME NEW m \in Maps, NEW n \in Maps
    PROVE  /\ Extended(m, n) \in Maps
           /\ DOMAIN Extended(m, n) = DOMAIN m \cup DOMAIN n
           /\ \A k \in DOMAIN m : Extended(m, n)[k] = m[k]
           /\ \A k \in DOMAIN n \ DOMAIN m : Extended(m, n)[k] = n[k]
<1>1. /\ m \in [DOMAIN m -> Entries] /\ DOMAIN m \subseteq Numbers
      /\ n \in [DOMAIN n -> Entries] /\ DOMAIN n \subseteq Numbers
  BY MapFacts
<1>2. DOMAIN Extended(m, n) = DOMAIN m \cup DOMAIN n
  BY DEF Extended
<1>3. Extended(m, n) \in [DOMAIN m \cup DOMAIN n -> Entries]
  BY <1>1 DEF Extended
<1>4. Extended(m, n) \in Maps
  BY <1>1, <1>2, <1>3, MapFacts
<1> QED BY <1>2, <1>4 DEF Extended

(* Keeping some keys of a map gives a map with those keys.                   *)
LEMMA OnlyMap ==
    ASSUME NEW m \in Maps, NEW ks \in SUBSET DOMAIN m
    PROVE  /\ Only(m, ks) \in Maps
           /\ DOMAIN Only(m, ks) = ks
           /\ \A k \in ks : Only(m, ks)[k] = m[k]
<1>1. m \in [DOMAIN m -> Entries] /\ DOMAIN m \subseteq Numbers
  BY MapFacts
<1>2. DOMAIN Only(m, ks) = ks /\ Only(m, ks) \in [ks -> Entries]
  BY <1>1 DEF Only
<1>3. Only(m, ks) \in Maps
  BY <1>1, <1>2, MapFacts
<1> QED BY <1>2, <1>3 DEF Only

(* The empty map, and a map with one key.                                    *)
LEMMA SmallMaps ==
    /\ Nothing \in Maps /\ DOMAIN Nothing = {}
    /\ \A n \in Numbers, e \in Entries : [k \in {n} |-> e] \in Maps
<1>1. Nothing \in [{} -> Entries] /\ DOMAIN Nothing = {}
  BY DEF Nothing
<1>2. Nothing \in Maps
  BY <1>1, MapFacts
<1>3. ASSUME NEW n \in Numbers, NEW e \in Entries
      PROVE  [k \in {n} |-> e] \in Maps
  <2>1. [k \in {n} |-> e] \in [{n} -> Entries] /\ DOMAIN [k \in {n} |-> e] = {n}
    OBVIOUS
  <2> QED BY <2>1, MapFacts
<1> QED BY <1>1, <1>2, <1>3

(* What the type invariant says of one container.                            *)
LEMMA Types ==
    ASSUME TypeOK, NEW t \in Holders
    PROVE  /\ tracks[t] \in Maps
           /\ Keys(t) \subseteq Numbers
           /\ \A k \in Keys(t) : tracks[t][k] \in Entries /\ Said(t, k) \in Records
<1>1. tracks[t] \in Maps
  BY DEF TypeOK
<1>2. Keys(t) \subseteq Numbers /\ \A k \in Keys(t) : tracks[t][k] \in Entries
  BY <1>1, MapFacts DEF Keys
<1> QED BY <1>1, <1>2 DEF TypeOK, Said

(* What inserting one entry does to a container.                             *)
LEMMA InsertOne ==
    ASSUME TypeOK, NEW t \in Holders, NEW n \in Numbers, NEW e \in Entries
    PROVE  LET m == Extended(tracks[t], [k \in {n} |-> e]) IN
           /\ m \in Maps /\ DOMAIN m = Keys(t) \cup {n}
           /\ \A k \in Keys(t) : m[k] = tracks[t][k]
           /\ n \notin Keys(t) => m[n] = e
<1>1. tracks[t] \in Maps /\ [k \in {n} |-> e] \in Maps
  BY Types, SmallMaps
<1> DEFINE new == [k \in {n} |-> e]
<1>2. new \in Maps /\ DOMAIN new = {n} /\ new[n] = e
  BY <1>1
<1> HIDE DEF new
<1> DEFINE old == tracks[t]
           m == Extended(old, new)
<1>3. old \in Maps
  BY <1>1
<1> HIDE DEF old
<1>4. /\ m \in Maps /\ DOMAIN m = DOMAIN old \cup DOMAIN new
      /\ \A k \in DOMAIN old : m[k] = old[k]
      /\ \A k \in DOMAIN new \ DOMAIN old : m[k] = new[k]
  BY <1>2, <1>3, ExtendedMap
<1> HIDE DEF m
<1>5. /\ DOMAIN m = DOMAIN old \cup {n}
      /\ n \notin DOMAIN old => m[n] = e
  BY <1>2, <1>4
<1> QED BY <1>4, <1>5 DEF Keys, new, old, m

(* What InsertRange adds.                                                    *)
LEMMA InsertMany ==
    ASSUME TypeOK, NEW t \in Holders, NEW u \in Holders,
           NEW ks \in SUBSET Keys(u)
    PROVE  LET m == Extended(tracks[t], Only(tracks[u], ks)) IN
           /\ m \in Maps /\ DOMAIN m = Keys(t) \cup ks
           /\ \A k \in Keys(t) : m[k] = tracks[t][k]
           /\ \A k \in ks \ Keys(t) : m[k] = tracks[u][k]
<1>1. tracks[t] \in Maps /\ tracks[u] \in Maps
  BY Types
<1>2. /\ Only(tracks[u], ks) \in Maps /\ DOMAIN Only(tracks[u], ks) = ks
      /\ \A k \in ks : Only(tracks[u], ks)[k] = tracks[u][k]
  BY <1>1, OnlyMap DEF Keys
<1> DEFINE n == Only(tracks[u], ks)
<1>3. n \in Maps /\ DOMAIN n = ks /\ \A k \in ks : n[k] = tracks[u][k]
  BY <1>2
<1> HIDE DEF n
<1>4. /\ Extended(tracks[t], n) \in Maps
      /\ DOMAIN Extended(tracks[t], n) = DOMAIN tracks[t] \cup DOMAIN n
      /\ \A k \in DOMAIN tracks[t] : Extended(tracks[t], n)[k] = tracks[t][k]
      /\ \A k \in DOMAIN n \ DOMAIN tracks[t] : Extended(tracks[t], n)[k] = n[k]
  BY <1>1, <1>3, ExtendedMap
<1>5. /\ Extended(tracks[t], n) \in Maps
      /\ DOMAIN Extended(tracks[t], n) = Keys(t) \cup ks
      /\ \A k \in Keys(t) : Extended(tracks[t], n)[k] = tracks[t][k]
      /\ \A k \in ks \ Keys(t) : Extended(tracks[t], n)[k] = tracks[u][k]
  BY <1>3, <1>4 DEF Keys
<1> QED BY <1>5 DEF n

-----------------------------------------------------------------------------
(* Every step keeps the types.                                               *)
LEMMA TypePreserved ==
    ASSUME TypeOK, [Next]_vars
    PROVE  TypeOK'
<1> USE TracksAssumption
<1>1. ASSUME NEW e \in Entries, SetEntry(e) PROVE TypeOK'
  BY <1>1 DEF SetEntry, Idle, TypeOK
<1>2. ASSUME NEW t \in Holders, NEW e \in Entries, Insert(t, e) PROVE TypeOK'
  <2>1. entry[e].number \in Numbers
    BY DEF TypeOK, Records
  <2>2. Extended(tracks[t], [k \in {entry[e].number} |-> e]) \in Maps
    <3>1. \A f, g : f \in Maps /\ g \in Maps => Extended(f, g) \in Maps
      BY ExtendedMap
    <3>2. tracks[t] \in Maps /\ [k \in {entry[e].number} |-> e] \in Maps
      BY <2>1, Types, SmallMaps
    <3>3. QED
      BY <3>1, <3>2
  <2> QED BY <1>2, <2>2 DEF Insert, Idle, TypeOK
<1>3. ASSUME NEW t \in Holders, NEW k \in Keys(t), NEW e \in Entries, Assign(t, k, e)
      PROVE  TypeOK'
  <2>1. tracks[t] \in [Keys(t) -> Entries] /\ Keys(t) \subseteq Numbers
    BY Types, MapFacts DEF Keys
  <2>2. [tracks[t] EXCEPT ![k] = e] \in [Keys(t) -> Entries]
    BY <2>1
  <2>3. [tracks[t] EXCEPT ![k] = e] \in Maps
    BY <2>1, <2>2 DEF Maps
  <2> QED BY <1>3, <2>3 DEF Assign, Idle, TypeOK
<1>4. ASSUME NEW t \in Holders, NEW lo \in Numbers, NEW hi \in Numbers, Erase(t, lo, hi)
      PROVE  TypeOK'
  <2>1. Only(tracks[t], DOMAIN tracks[t] \ Between(tracks[t], lo, hi)) \in Maps
    BY Types, OnlyMap
  <2> QED BY <1>4, <2>1 DEF Erase, Idle, TypeOK
<1>5. ASSUME NEW t \in Holders, NEW u \in Holders, NEW lo \in Numbers, NEW hi \in Numbers,
             InsertRange(t, u, lo, hi)
      PROVE  TypeOK'
  <2>1. Between(tracks[u], lo, hi) \in SUBSET Keys(u)
    BY DEF Between, Keys
  <2>2. Extended(tracks[t], Only(tracks[u], Between(tracks[u], lo, hi))) \in Maps
    BY <2>1, InsertMany
  <2> QED BY <1>5, <2>2 DEF InsertRange, Idle, TypeOK
<1>6. ASSUME NEW t \in Holders, NEW u \in Holders, Swap(t, u) \/ Copy(t, u) PROVE TypeOK'
  BY <1>6 DEF Swap, Copy, Idle, TypeOK
<1>7. ASSUME NEW t \in Holders, BeginWrite(t) \/ WriteRefused(t) PROVE TypeOK'
  <2>1. entry' = entry /\ tracks' = tracks /\ touched' = touched
    BY <1>7 DEF BeginWrite, WriteRefused
  <2>2. body' = <<>> /\ origin' = "none" /\ cur' = t /\ done' = {}
    BY <1>7 DEF BeginWrite, WriteRefused, Begin, End
  <2>3. body' \in Seq(Records) /\ done' \subseteq Nat
    BY <2>2
  <2>4. /\ phase' \in {"idle", "write"}
        /\ outcome' \in {"none", "write refused"}
    BY <1>7 DEF BeginWrite, WriteRefused, Begin, End
  <2> QED BY <2>1, <2>2, <2>3, <2>4 DEF TypeOK
<1>8. CASE WriteEntry
  <2>1. PICK k \in Keys(cur) \ done :
            body' = Append(body, Said(cur, k)) /\ done' = done \cup {k}
    BY <1>8 DEF WriteEntry
  <2>2. cur \in Holders /\ done \subseteq Nat /\ body \in Seq(Records)
    BY DEF TypeOK
  <2>3. Said(cur, k) \in Records /\ k \in Nat
    BY <2>2, Types
  <2>4. body' \in Seq(Records) /\ done' \subseteq Nat
    BY <2>1, <2>2, <2>3
  <2> QED BY <1>8, <2>4 DEF WriteEntry, TypeOK
<1>9. CASE EndWrite
  BY <1>9 DEF EndWrite, End, TypeOK
<1>10. CASE Arrive
  BY <1>10 DEF Arrive, TypeOK
<1>11. ASSUME NEW t \in Holders, BeginRead(t) PROVE TypeOK'
  BY <1>11, SmallMaps DEF BeginRead, Begin, Forgotten, TypeOK
<1>12. CASE ReadEntry
  <2>1. PICK i \in DOMAIN body \ done, e \in Entries :
            /\ done' = done \cup {i}
            /\ entry' = [entry EXCEPT ![e] = body[i]]
            /\ tracks' = [tracks EXCEPT ![cur] = Extended(@, [k \in {body[i].number} |-> e])]
    BY <1>12 DEF ReadEntry
  <2>2. cur \in Holders /\ body \in Seq(Records) /\ done \subseteq Nat
    BY DEF TypeOK
  <2>3. body[i] \in Records /\ i \in Nat
    BY <2>2
  <2>4. body[i].number \in Numbers
    BY <2>3 DEF Records
  <2>5. Extended(tracks[cur], [k \in {body[i].number} |-> e]) \in Maps
    <3> DEFINE n == body[i].number
    <3>1. n \in Numbers
      BY <2>4
    <3> HIDE DEF n
    <3>2. Extended(tracks[cur], [k \in {n} |-> e]) \in Maps
      BY <2>2, <3>1, InsertOne
    <3> QED BY <3>2 DEF n
  <2>6. /\ entry' \in [Entries -> Records] /\ tracks' \in [Holders -> Maps]
        /\ done' \subseteq Nat
    BY <2>1, <2>2, <2>3, <2>5 DEF TypeOK
  <2> QED BY <1>12, <2>6 DEF ReadEntry, TypeOK
<1>13. CASE ReadRefused
  BY <1>13 DEF ReadRefused, End, TypeOK
<1>14. CASE EndRead
  BY <1>14 DEF EndRead, End, TypeOK
<1>15. CASE UNCHANGED vars
  BY <1>15 DEF vars, TypeOK
<1> QED
  BY <1>1, <1>2, <1>3, <1>4, <1>5, <1>6, <1>7, <1>8, <1>9, <1>10, <1>11, <1>12, <1>13,
     <1>14, <1>15 DEF Next, Client, Write, Read

-----------------------------------------------------------------------------
(* Keys and what entries say                                                 *)

(* A container that takes over what another holds, with entries that say     *)
(* what they said, is as legal as the other.                                 *)
LEMMA LegalFrom ==
    ASSUME NEW t \in Holders, NEW u \in Holders, Legal(u),
           tracks'[t] = tracks[u],
           \A k \in Keys(u) : entry'[tracks[u][k]] = Said(u, k)
    PROVE  Legal(t)'
<1>1. Keys(t)' = Keys(u) /\ \A k \in Keys(u) : Said(t, k)' = Said(u, k)
  BY DEF Keys, Said
<1> QED BY <1>1 DEF Legal, Validated

(* An entry that was compared with a legal container before it went into it  *)
(* leaves it legal.                                                          *)
LEMMA InsertLegal ==
    ASSUME TypeOK, NEW t \in Holders, NEW e \in Entries, NEW rec \in Records,
           NotDuplicate(t, rec),
           tracks'[t] = Extended(tracks[t], [k \in {rec.number} |-> e]),
           entry'[e] = rec,
           \A k \in Keys(t) : entry'[tracks[t][k]] = Said(t, k)
    PROVE  /\ Keys(t)' = Keys(t) \cup {rec.number}
           /\ \A k \in Keys(t) : Said(t, k)' = Said(t, k)
           /\ Said(t, rec.number)' = rec
           /\ Legal(t) => Legal(t)'
<1> DEFINE n == rec.number
<1>1. n \in Numbers /\ n \notin Keys(t) /\ \A k \in Keys(t) : Said(t, k).uid # rec.uid
  BY DEF Records, NotDuplicate, NoSuchNumber
<1>2. tracks'[t] = Extended(tracks[t], [k \in {n} |-> e])
  OBVIOUS
<1>3. rec.number = n
  OBVIOUS
<1> HIDE DEF n
<1>4. /\ DOMAIN tracks'[t] = Keys(t) \cup {n}
      /\ \A k \in Keys(t) : tracks'[t][k] = tracks[t][k]
      /\ tracks'[t][n] = e
  <2>1. LET m == Extended(tracks[t], [k \in {n} |-> e]) IN
        /\ m \in Maps /\ DOMAIN m = Keys(t) \cup {n}
        /\ \A k \in Keys(t) : m[k] = tracks[t][k]
        /\ n \notin Keys(t) => m[n] = e
    BY <1>1, InsertOne
  <2> QED BY <1>1, <1>2, <2>1
<1>5. Keys(t)' = Keys(t) \cup {n}
  BY <1>4 DEF Keys
<1>6. \A k \in Keys(t) : Said(t, k)' = Said(t, k)
  BY <1>4 DEF Said
<1>7. Said(t, n)' = rec
  BY <1>4 DEF Said
<1>8. Legal(t) => Legal(t)'
  BY <1>1, <1>3, <1>5, <1>6, <1>7 DEF Legal, Validated
<1> QED BY <1>3, <1>5, <1>6, <1>7, <1>8

(* Reading an entry, with the entry that is made for it.                     *)
LEMMA ReadOne ==
    ASSUME TypeOK, ReadEntry
    PROVE  \E i \in DOMAIN body \ done :
            /\ NotDuplicate(cur, body[i])
            /\ done' = done \cup {i}
            /\ Keys(cur)' = Keys(cur) \cup {body[i].number}
            /\ \A k \in Keys(cur) : Said(cur, k)' = Said(cur, k)
            /\ Said(cur, body[i].number)' = body[i]
            /\ Legal(cur) => Legal(cur)'
            /\ \A t \in Holders : t # cur /\ Legal(t) => Legal(t)'
<1>1. PICK i \in DOMAIN body \ done, e \in Entries :
            /\ NotDuplicate(cur, body[i])
            /\ done' = done \cup {i}
            /\ ~InMap(e)
            /\ entry' = [entry EXCEPT ![e] = body[i]]
            /\ tracks' = [tracks EXCEPT ![cur] = Extended(@, [k \in {body[i].number} |-> e])]
  BY DEF ReadEntry
<1>2. cur' = cur /\ cur \in Holders /\ body' = body /\ body \in Seq(Records)
  BY DEF ReadEntry, TypeOK
<1>3. PICK u \in Holders, rec \in Records : cur = u /\ body[i] = rec
  BY <1>2
<1>4. entry'[e] = rec
  BY <1>1, <1>3 DEF TypeOK
<1>5. ASSUME NEW t \in Holders, NEW k \in Keys(t)
      PROVE  entry'[tracks[t][k]] = Said(t, k)
  BY <1>1, <1>5, Types DEF InMap, Said, TypeOK
<1>6. tracks'[u] = Extended(tracks[u], [k \in {rec.number} |-> e])
  BY <1>1, <1>3 DEF TypeOK
<1>7. /\ Keys(u)' = Keys(u) \cup {rec.number}
      /\ \A k \in Keys(u) : Said(u, k)' = Said(u, k)
      /\ Said(u, rec.number)' = rec
      /\ Legal(u) => Legal(u)'
  BY <1>1, <1>3, <1>4, <1>5, <1>6, InsertLegal
<1>8. ASSUME NEW t \in Holders, t # cur, Legal(t) PROVE Legal(t)'
  <2>1. tracks'[t] = tracks[t]
    BY <1>1, <1>8 DEF TypeOK
  <2> QED BY <1>5, <1>8, <2>1, LegalFrom
<1>9. cur' = u /\ body'[i] = rec
  BY <1>2, <1>3
<1>10. /\ Keys(cur)' = Keys(cur) \cup {body[i].number}
       /\ \A k \in Keys(cur) : Said(cur, k)' = Said(cur, k)
       /\ Said(cur, body[i].number)' = body[i]
  BY <1>3, <1>7, <1>9 DEF Keys, Said
<1>11. Legal(cur) => Legal(cur)'
  BY <1>3, <1>7, <1>9 DEF Legal, Validated, Keys, Said
<1> QED BY <1>1, <1>8, <1>10, <1>11

-----------------------------------------------------------------------------
(* What a step does outside of the call that is under way                    *)

(* Steps of these kinds change neither entries nor containers.               *)
LEMMA Quiet ==
    ASSUME TypeOK, UNCHANGED <<entry, tracks>>
    PROVE  \A t \in Holders : Legal(t) => Legal(t)'
BY DEF Legal, Validated, Keys, Said

(* No step but a change through a pointer makes a container illegal.         *)
LEMMA LegalPreserved ==
    ASSUME TypeOK, UntouchedLegal, [Next]_vars
    PROVE  UntouchedLegal'
<1> USE TracksAssumption
<1>1. SUFFICES ASSUME ~touched', NEW t \in Holders PROVE Legal(t)'
  BY DEF UntouchedLegal
<1>2. touched' = touched \/ touched' = TRUE \/ \E e \in Entries : SetEntry(e)
  BY DEF Next, Client, Write, Read, Insert, Assign, Erase, InsertRange, Swap, Copy,
         BeginWrite, WriteRefused, WriteEntry, EndWrite, Arrive, BeginRead, ReadEntry,
         ReadRefused, EndRead, vars
<1>3. ~touched
  BY <1>1, <1>2 DEF SetEntry, TypeOK
<1>4. \A u \in Holders : Legal(u)
  BY <1>3 DEF UntouchedLegal
<1>5. ASSUME NEW e \in Entries, SetEntry(e) PROVE Legal(t)'
  <2>1. ~InMap(e)
    BY <1>1, <1>5 DEF SetEntry, TypeOK
  <2>2. tracks'[t] = tracks[t]
    BY <1>5 DEF SetEntry
  <2>3. \A k \in Keys(t) : entry'[tracks[t][k]] = Said(t, k)
    BY <1>5, <2>1, Types DEF SetEntry, InMap, Said, TypeOK
  <2> QED BY <1>4, <2>2, <2>3, LegalFrom
<1>6. ASSUME NEW u \in Holders, NEW e \in Entries, Insert(u, e) PROVE Legal(t)'
  <2>1. PICK rec \in Records : rec = entry[e]
    BY DEF TypeOK
  <2>2. entry' = entry /\ NotDuplicate(u, rec)
    BY <1>6, <2>1 DEF Insert
  <2>3. CASE t = u
    <3>1. tracks'[t] = Extended(tracks[t], [k \in {rec.number} |-> e])
      BY <1>6, <2>1, <2>3 DEF Insert, TypeOK
    <3>2. \A k \in Keys(t) : entry'[tracks[t][k]] = Said(t, k)
      BY <2>2 DEF Said
    <3>3. entry'[e] = rec
      BY <2>1, <2>2
    <3>4. NotDuplicate(t, rec) /\ Legal(t)
      BY <1>4, <2>2, <2>3
    <3> QED BY <3>1, <3>2, <3>3, <3>4, InsertLegal
  <2>4. CASE t # u
    <3>1. tracks'[t] = tracks[t]
      BY <1>6, <2>4 DEF Insert, TypeOK
    <3> QED BY <1>4, <2>2, <3>1, LegalFrom DEF Said
  <2> QED BY <2>3, <2>4
<1>7. ASSUME NEW u \in Holders, NEW k \in Keys(u), NEW e \in Entries, Assign(u, k, e)
      PROVE  FALSE
  BY <1>1, <1>7 DEF Assign
<1>8. ASSUME NEW u \in Holders, NEW lo \in Numbers, NEW hi \in Numbers, Erase(u, lo, hi)
      PROVE  Legal(t)'
  <2>1. entry' = entry
    BY <1>8 DEF Erase
  <2>2. CASE t = u
    <3> DEFINE ks == DOMAIN tracks[t] \ Between(tracks[t], lo, hi)
    <3>1. tracks'[t] = Only(tracks[t], ks)
      BY <1>8, <2>2 DEF Erase, TypeOK
    <3>2. DOMAIN tracks'[t] = ks /\ \A k \in ks : tracks'[t][k] = tracks[t][k]
      BY <3>1, Types, OnlyMap
    <3>3. ks \subseteq Keys(t)
      BY DEF Keys
    <3> HIDE DEF ks
    <3>4. Keys(t)' = ks /\ \A k \in ks : Said(t, k)' = Said(t, k)
      BY <2>1, <3>2 DEF Keys, Said
    <3> QED BY <1>4, <3>3, <3>4 DEF Legal, Validated
  <2>3. CASE t # u
    <3>1. tracks'[t] = tracks[t]
      BY <1>8, <2>3 DEF Erase, TypeOK
    <3> QED BY <1>4, <2>1, <3>1, LegalFrom DEF Said
  <2> QED BY <2>2, <2>3
<1>9. ASSUME NEW u \in Holders, NEW v \in Holders, NEW lo \in Numbers, NEW hi \in Numbers,
             InsertRange(u, v, lo, hi)
      PROVE  Legal(t)'
  <2> DEFINE ks == Between(tracks[v], lo, hi)
  <2>1. entry' = entry /\ \A k \in ks : NotDuplicate(u, Said(v, k))
    BY <1>9 DEF InsertRange
  <2>2. ks \in SUBSET Keys(v)
    BY DEF Between, Keys
  <2>3. CASE t = u
    <3>1. tracks'[t] = Extended(tracks[t], Only(tracks[v], ks))
      BY <1>9, <2>3 DEF InsertRange, TypeOK
    <3> HIDE DEF ks
    <3>2. LET m == Extended(tracks[t], Only(tracks[v], ks)) IN
          /\ m \in Maps /\ DOMAIN m = Keys(t) \cup ks
          /\ \A k \in Keys(t) : m[k] = tracks[t][k]
          /\ \A k \in ks \ Keys(t) : m[k] = tracks[v][k]
      BY <2>2, InsertMany
    <3>3. /\ Keys(t)' = Keys(t) \cup ks
          /\ \A k \in Keys(t) : Said(t, k)' = Said(t, k)
          /\ \A k \in ks \ Keys(t) : Said(t, k)' = Said(v, k)
      BY <2>1, <3>1, <3>2 DEF Keys, Said
    <3>4. \A k \in Keys(t) : Said(t, k).number = k
      BY <1>4 DEF Legal
    <3>5. \A k \in ks : Said(v, k).number = k
      BY <1>4, <2>2 DEF Legal
    <3>6. \A j \in Keys(t), k \in ks : Said(t, j).uid # Said(v, k).uid
      BY <2>1, <2>3 DEF NotDuplicate
    <3>7. \A j, k \in Keys(t) : j # k => Said(t, j).uid # Said(t, k).uid
      BY <1>4 DEF Legal, Validated
    <3>8. \A j, k \in ks : j # k => Said(v, j).uid # Said(v, k).uid
      BY <1>4, <2>2 DEF Legal, Validated
    <3>9. \A k \in Keys(t)' : Said(t, k)'.number = k
      BY <3>3, <3>4, <3>5
    <3>10. ASSUME NEW j \in Keys(t)', NEW k \in Keys(t)', j # k
           PROVE  Said(t, j)'.uid # Said(t, k)'.uid
      BY <3>3, <3>6, <3>7, <3>8, <3>10
    <3> QED BY <3>9, <3>10 DEF Legal, Validated
  <2>4. CASE t # u
    <3>1. tracks'[t] = tracks[t]
      BY <1>9, <2>4 DEF InsertRange, TypeOK
    <3> QED BY <1>4, <2>1, <3>1, LegalFrom DEF Said
  <2> QED BY <2>3, <2>4
<1>10. ASSUME NEW u \in Holders, NEW v \in Holders, Swap(u, v) \/ Copy(u, v)
       PROVE  Legal(t)'
  <2>1. entry' = entry /\ \E w \in Holders : tracks'[t] = tracks[w]
    BY <1>10 DEF Swap, Copy, TypeOK
  <2> QED BY <1>4, <2>1, LegalFrom DEF Said
<1>11. ASSUME NEW u \in Holders, BeginRead(u) PROVE Legal(t)'
  <2>1. entry' = entry /\ (t = u => tracks'[t] = Nothing) /\ (t # u => tracks'[t] = tracks[t])
    BY <1>11 DEF BeginRead, Forgotten, TypeOK
  <2>2. CASE t = u
    BY <2>1, <2>2, SmallMaps DEF Legal, Validated, Keys
  <2>3. CASE t # u
    BY <1>4, <2>1, <2>3, LegalFrom DEF Said
  <2> QED BY <2>2, <2>3
<1>12. CASE ReadEntry
  <2>1. cur' = cur /\ cur \in Holders /\ (Legal(cur) => Legal(cur)')
    BY <1>12, ReadOne DEF ReadEntry, TypeOK
  <2>2. CASE t = cur
    BY <1>4, <2>1, <2>2 DEF Legal, Validated, Keys, Said
  <2>3. CASE t # cur
    BY <1>4, <1>12, <2>3, ReadOne
  <2> QED BY <2>2, <2>3
<1>13. CASE UNCHANGED <<entry, tracks>>
  BY <1>4, <1>13, Quiet
<1> QED
  BY <1>5, <1>6, <1>7, <1>8, <1>9, <1>10, <1>11, <1>12, <1>13
  DEF Next, Client, Write, Read, BeginWrite, WriteRefused, WriteEntry, EndWrite, Arrive,
      ReadRefused, EndRead, vars

-----------------------------------------------------------------------------
(* Writing and reading                                                       *)

(* Steps that change neither entries nor containers leave what they say.     *)
LEMMA Same ==
    ASSUME UNCHANGED <<entry, tracks>>, cur' = cur
    PROVE  /\ Keys(cur)' = Keys(cur) /\ \A k : Said(cur, k)' = Said(cur, k)
           /\ Validated(cur)' = Validated(cur) /\ Legal(cur)' = Legal(cur)
BY DEF Keys, Said, Legal, Validated

(* While it is written, the body holds what the keys dealt with say.         *)
LEMMA WritingPreserved ==
    ASSUME TypeOK, Writing, [Next]_vars
    PROVE  Writing'
<1>1. SUFFICES ASSUME phase' = "write" PROVE Writing'
  BY DEF Writing
<1>2. ASSUME NEW t \in Holders, BeginWrite(t) PROVE Writing'
  <2>1. /\ cur' = t /\ origin' = "none" /\ outcome' = "none" /\ body' = <<>> /\ done' = {}
        /\ Writable(t) /\ UNCHANGED <<entry, tracks>>
    BY <1>2 DEF BeginWrite, Begin
  <2>2. Writable(cur)'
    BY <2>1 DEF Writable, Validated, Keys, Said
  <2>3. Distinct(body)'
    BY <2>1 DEF Distinct
  <2> QED BY <2>1, <2>2, <2>3 DEF Writing
<1>3. CASE WriteEntry
  <2>1. PICK k \in Keys(cur) \ done :
            body' = Append(body, Said(cur, k)) /\ done' = done \cup {k}
    BY <1>3 DEF WriteEntry
  <2>2. /\ UNCHANGED <<entry, tracks, origin, outcome>> /\ cur' = cur
        /\ phase = "write"
    BY <1>3 DEF WriteEntry
  <2>3. /\ origin = "none" /\ outcome = "none"
        /\ Writable(cur) /\ done \subseteq Keys(cur)
        /\ \A i \in DOMAIN body : \E j \in done : body[i] = Said(cur, j)
        /\ Distinct(body)
    BY <2>2 DEF Writing
  <2>4. PICK rec \in Records : rec = Said(cur, k)
    BY Types DEF TypeOK
  <2>5. body \in Seq(Records) /\ body' = Append(body, rec)
    BY <2>1, <2>4 DEF TypeOK
  <2>6. /\ DOMAIN body' = DOMAIN body \cup {Len(body) + 1}
        /\ Len(body) + 1 \notin DOMAIN body
        /\ \A i \in DOMAIN body : body'[i] = body[i]
        /\ body'[Len(body) + 1] = rec /\ body' # <<>>
    BY <2>5
  <2>7. \A j \in Keys(cur) : j # k =>
            Said(cur, j).number # rec.number /\ Said(cur, j).uid # rec.uid
    BY <2>3, <2>4 DEF Writable, Validated
  <2>8. \A i \in DOMAIN body : body[i].number # rec.number /\ body[i].uid # rec.uid
    BY <2>1, <2>3, <2>7
  <2>9. Distinct(body')
    BY <2>3, <2>6, <2>8 DEF Distinct
  <2>10. \A i \in DOMAIN body' : \E j \in done' : body'[i] = Said(cur, j)
    BY <2>1, <2>3, <2>4, <2>6
  <2>11. Keys(cur)' = Keys(cur) /\ Writable(cur)' /\ \A j : Said(cur, j)' = Said(cur, j)
    BY <2>2, <2>3, Same DEF Writable
  <2>12. done' \subseteq Keys(cur)
    BY <2>1, <2>3
  <2> QED BY <2>2, <2>3, <2>6, <2>9, <2>10, <2>11, <2>12 DEF Writing, Distinct
<1>4. CASE UNCHANGED vars
  BY <1>1, <1>4, Same DEF Writing, vars, Writable, Distinct
<1>5. phase' = "write" => (\E t \in Holders : BeginWrite(t)) \/ WriteEntry \/ UNCHANGED vars
  BY DEF Next, Client, Write, Read, SetEntry, Insert, Assign, Erase, InsertRange, Swap, Copy,
         Idle, WriteRefused, EndWrite, End, Arrive, BeginRead, Begin, ReadEntry,
         ReadRefused, EndRead
<1> QED BY <1>1, <1>2, <1>3, <1>4, <1>5

(* While it is read, the container holds the records dealt with.             *)
LEMMA ReadingPreserved ==
    ASSUME TypeOK, Reading, [Next]_vars
    PROVE  Reading'
<1>1. SUFFICES ASSUME phase' = "read" PROVE Reading'
  BY DEF Reading
<1>2. ASSUME NEW t \in Holders, BeginRead(t) PROVE Reading'
  <2>1. /\ cur' = t /\ outcome' = "none" /\ done' = {} /\ tracks'[t] = Nothing
    BY <1>2 DEF BeginRead, Begin, Forgotten, TypeOK
  <2>2. Keys(cur)' = {}
    BY <2>1, SmallMaps DEF Keys
  <2> QED BY <2>1, <2>2 DEF Reading, Holding, Legal, Validated
<1>3. CASE ReadEntry
  <2>1. PICK i \in DOMAIN body \ done :
            /\ NotDuplicate(cur, body[i])
            /\ done' = done \cup {i}
            /\ Keys(cur)' = Keys(cur) \cup {body[i].number}
            /\ \A k \in Keys(cur) : Said(cur, k)' = Said(cur, k)
            /\ Said(cur, body[i].number)' = body[i]
            /\ Legal(cur) => Legal(cur)'
    BY <1>3, ReadOne
  <2>2. phase = "read" /\ outcome' = outcome /\ body' = body
    BY <1>3 DEF ReadEntry
  <2>3. outcome = "none" /\ done \subseteq DOMAIN body /\ Legal(cur) /\ Holding
    BY <2>2 DEF Reading
  <2>4. \A j \in done' :
            body[j].number \in Keys(cur)' /\ Said(cur, body[j].number)' = body[j]
    <3>1. ASSUME NEW j \in done
          PROVE  body[j].number \in Keys(cur)' /\ Said(cur, body[j].number)' = body[j]
      <4>1. PICK k \in Keys(cur) : k = body[j].number /\ Said(cur, k) = body[j]
        BY <2>3 DEF Holding
      <4>2. k \in Keys(cur)' /\ Said(cur, k)' = body[j]
        BY <2>1, <4>1
      <4> QED BY <2>2, <4>1, <4>2 DEF Said
    <3> QED BY <2>1, <2>2, <3>1
  <2>5. \A k \in Keys(cur)' : \E j \in done' : body[j].number = k
    BY <2>1, <2>3 DEF Holding
  <2>6. Holding'
    BY <2>2, <2>4, <2>5 DEF Holding
  <2> QED BY <2>1, <2>2, <2>3, <2>6 DEF Reading
<1>4. CASE UNCHANGED vars
  <2>1. Reading /\ phase = "read" /\ UNCHANGED <<entry, tracks, body, done, outcome>> /\ cur' = cur
    BY <1>1, <1>4 DEF vars
  <2>2. Holding' /\ Legal(cur)'
    BY <2>1, Same DEF Reading, Holding
  <2> QED BY <2>1, <2>2 DEF Reading
<1>5. phase' = "read" => (\E t \in Holders : BeginRead(t)) \/ ReadEntry \/ UNCHANGED vars
  BY DEF Next, Client, Write, Read, SetEntry, Insert, Assign, Erase, InsertRange, Swap, Copy,
         Idle, WriteRefused, EndWrite, End, Arrive, BeginWrite, Begin, WriteEntry,
         ReadRefused, EndRead
<1> QED BY <1>1, <1>2, <1>3, <1>4, <1>5

(* Only a write that came to its end makes the body one of ours.             *)
LEMMA WrittenPreserved ==
    ASSUME TypeOK, Writing, WrittenDistinct, [Next]_vars
    PROVE  WrittenDistinct'
<1>1. SUFFICES ASSUME origin' = "own" PROVE Distinct(body') /\ body' # <<>>
  BY DEF WrittenDistinct, Distinct
<1>2. CASE EndWrite
  <2>1. phase = "write" /\ Keys(cur) \subseteq done /\ body' = body
    BY <1>2 DEF EndWrite
  <2>2. Distinct(body) /\ body # <<>>
    BY <2>1 DEF Writing, Writable
  <2> QED BY <2>1, <2>2
<1>3. CASE origin = "own" /\ body' = body
  BY <1>3 DEF WrittenDistinct
<1>4. EndWrite \/ (origin = "own" /\ body' = body)
  <2>1. CASE WriteEntry
    BY <1>1, <2>1 DEF WriteEntry, Writing
  <2> QED
    BY <1>1, <2>1
    DEF Next, Client, Write, Read, SetEntry, Insert, Assign, Erase, InsertRange, Swap, Copy,
        Idle, WriteRefused, End, Arrive, BeginWrite, BeginRead, Begin, ReadEntry,
        ReadRefused, EndRead, vars
<1> QED BY <1>2, <1>3, <1>4

(* What was written is not refused, and what was not refused is there.       *)
LEMMA RoundTripPreserved ==
    ASSUME TypeOK, Writing, Reading, WrittenDistinct, RoundTrip, [Next]_vars
    PROVE  RoundTrip'
<1>1. CASE outcome' \notin {"read", "read refused"}
  BY <1>1 DEF RoundTrip
<1>2. CASE ReadRefused
  <2>1. /\ phase = "read" /\ origin' = origin /\ outcome' = "read refused"
        /\ \E i \in DOMAIN body \ done : ~NotDuplicate(cur, body[i])
    BY <1>2 DEF ReadRefused, End
  <2>2. PICK i \in DOMAIN body \ done : ~NotDuplicate(cur, body[i])
    BY <2>1
  <2>3. done \subseteq DOMAIN body /\ Holding
    BY <2>1 DEF Reading
  <2>4. PICK j \in done : j # i /\ (body[j].number = body[i].number \/ body[j].uid = body[i].uid)
    <3>1. CASE body[i].number \in Keys(cur)
      BY <2>2, <2>3, <3>1 DEF Holding
    <3>2. ASSUME NEW k \in Keys(cur), Said(cur, k).uid = body[i].uid
          PROVE  \E j \in done : j # i /\ body[j].uid = body[i].uid
      <4>1. PICK j \in done : body[j].number = k /\ Said(cur, k) = body[j]
        BY <2>3 DEF Holding
      <4> QED BY <2>2, <3>2, <4>1
    <3> QED BY <2>2, <3>1, <3>2 DEF NotDuplicate, NoSuchNumber
  <2>5. ~Distinct(body)
    BY <2>3, <2>4 DEF Distinct
  <2> QED BY <2>1, <2>5 DEF RoundTrip, WrittenDistinct
<1>3. CASE EndRead
  <2>1. /\ phase = "read" /\ DOMAIN body \subseteq done
        /\ outcome' = IF Keys(cur) # {} /\ Validated(cur) THEN "read" ELSE "read refused"
        /\ UNCHANGED <<entry, tracks, body, origin>> /\ cur' = cur
    BY <1>3 DEF EndRead, End
  <2>2. Legal(cur) /\ Holding /\ done = DOMAIN body
    BY <2>1 DEF Reading
  <2>3. ASSUME origin = "own" PROVE Keys(cur) # {}
    <3>1. body # <<>> /\ body \in Seq(Records)
      BY <2>3 DEF WrittenDistinct, TypeOK
    <3>2. 1 \in DOMAIN body
      BY <3>1
    <3> QED BY <2>2, <3>2 DEF Holding
  <2>4. outcome' = "read refused" => origin' # "own"
    BY <2>1, <2>2, <2>3 DEF Legal
  <2>5. AllHeld
    BY <2>2 DEF Holding, AllHeld
  <2>6. body' = body /\ entry' = entry /\ tracks' = tracks /\ cur' = cur
    BY <2>1
  <2>7. AllHeld'
    BY <2>5, <2>6 DEF AllHeld, Keys, Said
  <2> QED BY <2>4, <2>7 DEF RoundTrip
<1>4. CASE UNCHANGED vars
  <2>1. /\ body' = body /\ entry' = entry /\ tracks' = tracks /\ cur' = cur
        /\ origin' = origin /\ outcome' = outcome
    BY <1>4 DEF vars
  <2>2. AllHeld => AllHeld'
    BY <2>1 DEF AllHeld, Keys, Said
  <2> QED BY <2>1, <2>2 DEF RoundTrip
<1>5. outcome' \in {"read", "read refused"} => ReadRefused \/ EndRead \/ UNCHANGED vars
  BY DEF Next, Client, Write, Read, SetEntry, Insert, Assign, Erase, InsertRange, Swap, Copy,
         Idle, WriteRefused, EndWrite, End, Arrive, BeginWrite, BeginRead, Begin,
         WriteEntry, ReadEntry, Writing, Reading
<1> QED BY <1>1, <1>2, <1>3, <1>4, <1>5

-----------------------------------------------------------------------------
(* The inductive invariant holds in every reachable state.                   *)
THEOREM TracksInvariant == Spec => []IInv
<1>1. Init => IInv
  <2>1. ASSUME Init PROVE TypeOK
    <3>1. tracks \in [Holders -> Maps]
      BY <2>1, SmallMaps DEF Init
    <3>2. body \in Seq(Records)
      BY <2>1 DEF Init
    <3> QED BY <2>1, <3>1, <3>2 DEF Init, TypeOK
  <2>2. ASSUME Init PROVE UntouchedLegal
    BY <2>2, SmallMaps DEF Init, UntouchedLegal, Legal, Validated, Keys
  <2> QED
    BY <2>1, <2>2 DEF Init, IInv, Writing, Reading, WrittenDistinct, RoundTrip
<1>2. IInv /\ [Next]_vars => IInv'
  BY TypePreserved, LegalPreserved, WritingPreserved, ReadingPreserved, WrittenPreserved,
     RoundTripPreserved DEF IInv
<1> QED BY <1>1, <1>2, PTL DEF Spec

(* The variables have their types.                                           *)
THEOREM TypeCorrect == Spec => []TypeOK
BY TracksInvariant, PTL DEF IInv

(* A Tracks element that write() has written to its end has neither a number *)
(* nor a UID twice (tracks.cpp:134-153, 199-218), whatever the client has    *)
(* done to the entries through its pointers before.                          *)
THEOREM TracksDistinct == Spec => []WrittenDistinct
BY TracksInvariant, PTL DEF IInv

(* read() does not refuse what write() accepted, and what it accepts is in   *)
(* the container as it was in the stream (tracks.cpp:156-192).               *)
THEOREM TracksRoundTrip == Spec => []RoundTrip
BY TracksInvariant, PTL DEF IInv

(* Only changes through the pointers make keys untrue or numbers and UIDs    *)
(* ambiguous; insertions of ranges, erasures, exchanges and reading do not   *)
(* (tracks.cpp:89-106).                                                      *)
THEOREM TracksUntouchedLegal == Spec => []UntouchedLegal
BY TracksInvariant, PTL DEF IInv
=============================================================================
