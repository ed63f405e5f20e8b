---------------------------- MODULE LibraryProofs ---------------------------
(***************************************************************************)
(* Proofs about the hash table, base64, the compression functions of SHA-2 *)
(* and Blowfish.                                                           *)
(*                                                                         *)
(* Ohash, for all keys, hash functions and sizes: every entry is found     *)
(* however the table was used before, and the table is the set of keys that*)
(* KeySet promises.  What has to be followed is the way of a lookup through*)
(* the table: that the slots it has come to are on the way that an entry   *)
(* with its hash value would have, and that the key it looks for, if it is *)
(* there, is on the way it still has before it (ReachedFrom).  Everything  *)
(* else is that no step but a resize makes a slot empty.                   *)
(*                                                                         *)
(* Base64, for all strings and sizes of targets: the bytes complete so far *)
(* are those of the characters taken (BytesAreOfChars), the bits of the    *)
(* last character that are of no complete byte are in the next byte of the *)
(* target or are 0 (BitsArePending), and what is refused cannot be the     *)
(* encoding of bytes that the target has room for (Refused).               *)
(*                                                                         *)
(* Sha2Transform, for all words, numbers of rounds, constants and distances*)
(* of the rotations: the ring holds the standard's last sixteen words      *)
(* (RingHolds), and the registers the standard's in their roles.           *)
(*                                                                         *)
(* Blowfish, for all tables, keys, salts and buffers: each round undoes    *)
(* itself with the halves exchanged (RoundBack), so that decipherment goes *)
(* back the way of the encipherment; and the buffer always holds, block by *)
(* block, what the encryptions so far have made of it (Story).             *)
(***************************************************************************)
EXTENDS Ohash, Base64, Sha2Transform, Blowfish, FiniteSetTheorems, TLAPS

Sizes == {s \in Nat : s >= 4}
Tables(s) == [0..(s - 1) -> [hv : Nat, p : Keys \cup {NULL, DELETED}]]
EntriesOf(f, n) == {f[k].p : k \in {l \in 0..(n - 1) : Live(f[l])}}

(* Reached, for a lookup that has come to j already.                       *)
Closed(C, f, s, hv, k) == \A c \in C : f[c].p # NULL /\ c # k => NextSlot(c, hv, s) \in C
ReachedFrom(f, s, hv, j, k) == \A C \in SUBSET (0..(s - 1)) : j \in C /\ Closed(C, f, s, hv, k) => k \in C

TableType ==
  /\ size \in Sizes /\ t \in Tables(size) /\ WellPlaced(t, size)
  /\ tpc \in {"idle", "probe", "found", "absent", "rehash", "place", "list", "end"}
  /\ tpc \in {"probe", "found", "absent"} => sought \in Keys /\ slot \in Slots

(* The lookup has not gone past the key, and may have the tombstone.       *)
OnTheWay ==
  tpc = "probe" =>
    /\ Reached(t, size, Interval[sought], slot)
    /\ empty # NONE =>
         empty \in Slots /\ t[empty].p = DELETED /\ Reached(t, size, Interval[sought], empty)
    /\ \A l \in Slots : t[l].p = sought => ReachedFrom(t, size, Interval[sought], slot, l)

(* What the caller does with the slot it was given is right.               *)
SlotIsFresh ==
  /\ tpc = "found" => t[slot].p = sought
  /\ tpc = "absent" =>
       /\ ~ Live(t[slot]) /\ t[slot].hv = Interval[sought]
       /\ Reached(t, size, Interval[sought], slot)
       /\ \A l \in Slots : t[l].p # sought

(* The new table holds the entries that were gone through.                 *)
HalfMoved ==
  tpc \in {"rehash", "place"} =>
    /\ newsize \in Sizes /\ newt \in Tables(newsize) /\ WellPlaced(newt, newsize)
    /\ pos \in 0..size
    /\ EntriesOf(newt, newsize) = EntriesOf(t, pos)
    /\ tpc = "place" =>
         /\ pos < size /\ Live(t[pos]) /\ slot \in 0..(newsize - 1)
         /\ Reached(newt, newsize, t[pos].hv, slot)

HalfListed ==
  tpc \in {"list", "end"} =>
    /\ pos \in 0..size /\ (tpc = "end" => pos = size)
    /\ listed \in Seq(Keys)
    /\ {listed[k] : k \in 1..Len(listed)} = EntriesOf(t, pos)
    /\ IsFiniteSet(EntriesOf(t, pos)) /\ Len(listed) = Cardinality(EntriesOf(t, pos))

TableInv == TableType /\ OnTheWay /\ SlotIsFresh /\ HalfMoved /\ HalfListed

-----------------------------------------------------------------------------
(* The ways of lookups *)

LEMMA HomeIn ==
  ASSUME NEW s \in Sizes, NEW hv \in Nat
  PROVE  Home(hv, s) \in 0..(s - 1)
  BY DEF Sizes, Home

LEMMA NextIn ==
  ASSUME NEW s \in Sizes, NEW hv \in Nat, NEW k \in 0..(s - 1)
  PROVE  NextSlot(k, hv, s) \in 0..(s - 1)
  <1>1. hv % (s - 2) \in 0..(s - 3)
    BY DEF Sizes
  <1>2. Incr(hv, s) \in 1..(s - 1)
    BY <1>1 DEF Sizes, Incr
  <1> QED BY <1>2 DEF Sizes, NextSlot

LEMMA ReachHome ==
  ASSUME NEW f, NEW s, NEW hv
  PROVE  Reached(f, s, hv, Home(hv, s))
  BY DEF Reached

(* A lookup that may come to an occupied slot may come to the next.        *)
LEMMA ReachNext ==
  ASSUME NEW f, NEW s, NEW hv, NEW k \in 0..(s - 1), Reached(f, s, hv, k), f[k].p # NULL
  PROVE  Reached(f, s, hv, NextSlot(k, hv, s))
  <1> DEFINE n == NextSlot(k, hv, s)
  <1> SUFFICES ASSUME NEW C \in SUBSET (0..(s - 1)), Home(hv, s) \in C,
                      \A c \in C : f[c].p # NULL /\ c # n => NextSlot(c, hv, s) \in C,
                      n \notin C
               PROVE  FALSE
    BY DEF Reached
  <1>1. \A c \in C : f[c].p # NULL /\ c # k => NextSlot(c, hv, s) \in C
    OBVIOUS
  <1>2. k \in C
    BY <1>1 DEF Reached
  <1> QED BY <1>2

LEMMA LeadsNext ==
  ASSUME NEW f, NEW s, NEW hv, NEW j \in 0..(s - 1), NEW l,
         ReachedFrom(f, s, hv, j, l), f[j].p # NULL, l # j
  PROVE  ReachedFrom(f, s, hv, NextSlot(j, hv, s), l)
  <1> DEFINE n == NextSlot(j, hv, s)
  <1> SUFFICES ASSUME NEW C \in SUBSET (0..(s - 1)), n \in C, Closed(C, f, s, hv, l)
               PROVE  l \in C
    BY DEF ReachedFrom
  <1>1. Closed(C \cup {j}, f, s, hv, l)
    BY DEF Closed
  <1>2. l \in C \cup {j}
    BY <1>1 DEF ReachedFrom
  <1> QED BY <1>2

(* Behind an empty slot there is nothing.                                  *)
LEMMA LeadsEnd ==
  ASSUME NEW f, NEW s, NEW hv, NEW j \in 0..(s - 1), NEW l, ReachedFrom(f, s, hv, j, l), f[j].p = NULL
  PROVE  l = j
  <1>1. Closed({j}, f, s, hv, l)
    BY DEF Closed
  <1>2. l \in {j}
    BY <1>1 DEF ReachedFrom
  <1> QED BY <1>2

LEMMA LeadsFromHome ==
  ASSUME NEW f, NEW s, NEW hv, NEW k, Reached(f, s, hv, k)
  PROVE  ReachedFrom(f, s, hv, Home(hv, s), k)
  BY DEF Reached, ReachedFrom, Closed

(* A change that makes no slot empty cuts no way.                          *)
NoneEmptied(f, g, s) == \A c \in 0..(s - 1) : f[c].p # NULL => g[c].p # NULL

LEMMA WayStays ==
  ASSUME NEW f, NEW g, NEW s, NEW hv, NEW k, NoneEmptied(f, g, s), Reached(f, s, hv, k)
  PROVE  Reached(g, s, hv, k)
  <1> SUFFICES ASSUME NEW C \in SUBSET (0..(s - 1)), Home(hv, s) \in C,
                      \A c \in C : g[c].p # NULL /\ c # k => NextSlot(c, hv, s) \in C
               PROVE  k \in C
    BY DEF Reached
  <1>1. \A c \in C : f[c].p # NULL /\ c # k => NextSlot(c, hv, s) \in C
    BY DEF NoneEmptied
  <1> QED BY <1>1 DEF Reached

-----------------------------------------------------------------------------
(* Tables *)

LEMMA Markers == NULL \notin Keys /\ DELETED \notin Keys /\ NULL # DELETED
  BY OhashAssumption

LEMMA EmptyIsTable ==
  ASSUME NEW s \in Sizes
  PROVE  EmptyTable(s) \in Tables(s) /\ WellPlaced(EmptyTable(s), s) /\ EntriesOf(EmptyTable(s), s) = {}
  BY Markers DEF EmptyTable, Record, Tables, WellPlaced, EntriesOf, Live

(* Entries that stay as they were, on ways that stay, are well placed.     *)
LEMMA StayPlaced ==
  ASSUME NEW s \in Sizes, NEW f \in Tables(s), NEW g \in Tables(s), WellPlaced(f, s), NoneEmptied(f, g, s),
         \A c \in 0..(s - 1) : Live(g[c]) => g[c] = f[c]
  PROVE  WellPlaced(g, s)
  <1> SUFFICES ASSUME NEW k \in 0..(s - 1), Live(g[k])
               PROVE  /\ g[k].hv = Interval[g[k].p] /\ Reached(g, s, g[k].hv, k)
                      /\ \A l \in 0..(s - 1) : g[l].p = g[k].p => l = k
    BY DEF WellPlaced
  <1>1. g[k] = f[k] /\ Live(f[k])
    OBVIOUS
  <1>2. g[k].hv = Interval[g[k].p] /\ Reached(f, s, f[k].hv, k)
    BY <1>1 DEF WellPlaced
  <1>3. Reached(g, s, g[k].hv, k)
    BY <1>1, <1>2, WayStays
  <1>4. ASSUME NEW l \in 0..(s - 1), g[l].p = g[k].p PROVE l = k
    <2>1. Live(g[l])
      BY <1>4 DEF Live
    <2>2. f[l].p = f[k].p
      BY <1>1, <1>4, <2>1
    <2> QED BY <1>1, <2>2 DEF WellPlaced
  <1> QED BY <1>2, <1>3, <1>4

(* A new key that is put where its lookup comes to is well placed.         *)
LEMMA PutPlaced ==
  ASSUME NEW s \in Sizes, NEW f \in Tables(s), WellPlaced(f, s),
         NEW k \in 0..(s - 1), ~ Live(f[k]), NEW x \in Keys, Reached(f, s, Interval[x], k),
         \A l \in 0..(s - 1) : f[l].p # x,
         NEW g \in Tables(s), g[k] = Record(Interval[x], x), \A l \in 0..(s - 1) : l # k => g[l] = f[l]
  PROVE  WellPlaced(g, s) /\ EntriesOf(g, s) = EntriesOf(f, s) \cup {x}
  <1>0. x # NULL /\ x # DELETED
    BY Markers
  <1>2. g[k] = Record(Interval[x], x) /\ \A l \in 0..(s - 1) : l # k => g[l] = f[l]
    OBVIOUS
  <1>3. NoneEmptied(f, g, s)
    BY <1>0, <1>2 DEF NoneEmptied, Record
  <1>4. ASSUME NEW l \in 0..(s - 1), Live(g[l])
        PROVE  /\ g[l].hv = Interval[g[l].p] /\ Reached(g, s, g[l].hv, l)
               /\ \A m \in 0..(s - 1) : g[m].p = g[l].p => m = l
    <2>1. CASE l = k
      <3>1. g[l].hv = Interval[x] /\ g[l].p = x
        BY <1>2, <2>1 DEF Record
      <3>2. Reached(g, s, Interval[x], k)
        BY <1>3, WayStays
      <3> QED BY <1>2, <2>1, <3>1, <3>2
    <2>2. CASE l # k
      <3>1. g[l] = f[l] /\ Live(f[l])
        BY <1>2, <1>4, <2>2
      <3>2. g[l].hv = Interval[g[l].p] /\ Reached(f, s, f[l].hv, l)
        BY <3>1 DEF WellPlaced
      <3>3. Reached(g, s, g[l].hv, l)
        BY <1>3, <3>1, <3>2, WayStays
      <3>4. g[k].p # g[l].p
        BY <1>2, <3>1 DEF Record
      <3>5. \A m \in 0..(s - 1) : f[m].p = f[l].p => m = l
        BY <3>1 DEF WellPlaced
      <3>6. \A m \in 0..(s - 1) : g[m].p = g[l].p => m = l
        BY <1>2, <3>1, <3>4, <3>5
      <3> QED BY <3>2, <3>3, <3>6
    <2> QED BY <2>1, <2>2
  <1>5. EntriesOf(g, s) = EntriesOf(f, s) \cup {x}
    <2>1. g[k].p = x /\ Live(g[k])
      BY <1>0, <1>2 DEF Record, Live
    <2> QED BY <1>2, <2>1 DEF EntriesOf
  <1> QED BY <1>4, <1>5 DEF WellPlaced

(* What the tombstone leaves of the table.                                 *)
LEMMA TakePlaced ==
  ASSUME NEW s \in Sizes, NEW f \in Tables(s), WellPlaced(f, s), NEW k \in 0..(s - 1), Live(f[k]),
         NEW g \in Tables(s), g[k].p = DELETED, \A l \in 0..(s - 1) : l # k => g[l] = f[l]
  PROVE  /\ WellPlaced(g, s) /\ NoneEmptied(f, g, s)
         /\ EntriesOf(g, s) = EntriesOf(f, s) \ {f[k].p}
         /\ \A l \in 0..(s - 1) : g[l].p # f[k].p
  <1>2. g[k].p = DELETED /\ \A l \in 0..(s - 1) : l # k => g[l] = f[l]
    OBVIOUS
  <1>3. NoneEmptied(f, g, s)
    BY <1>2, Markers DEF NoneEmptied
  <1>4. \A c \in 0..(s - 1) : Live(g[c]) => g[c] = f[c]
    BY <1>2 DEF Live
  <1>5. WellPlaced(g, s)
    BY <1>3, <1>4, StayPlaced
  <1>6. \A l \in 0..(s - 1) : f[l].p = f[k].p => l = k
    BY DEF WellPlaced
  <1>7. \A l \in 0..(s - 1) : g[l].p # f[k].p
    BY <1>2, <1>6 DEF Live
  <1>8. EntriesOf(g, s) = EntriesOf(f, s) \ {f[k].p}
    BY <1>2, <1>6 DEF EntriesOf, Live
  <1> QED BY <1>3, <1>5, <1>7, <1>8

LEMMA OneMore ==
  ASSUME NEW f, NEW n \in Nat
  PROVE  EntriesOf(f, n + 1) = EntriesOf(f, n) \cup (IF Live(f[n]) THEN {f[n].p} ELSE {})
  <1>1. 0..((n + 1) - 1) = (0..(n - 1)) \cup {n}
    OBVIOUS
  <1> QED BY <1>1 DEF EntriesOf

LEMMA EntriesAll == Entries = EntriesOf(t, size)
  BY DEF Entries, EntriesOf, Slots

LEMMA NewSizeIs ==
  ASSUME size \in Sizes, NEW d, NEW n
  PROVE  NewSize(d, n) \in Sizes
  <1>1. size \in Nat /\ 2 * size \in Nat /\ size \div 2 \in Nat /\ MinSize \in Nat /\ MinSize >= 4
    BY OhashAssumption DEF Sizes
  <1> QED BY <1>1 DEF NewSize, Sizes

-----------------------------------------------------------------------------
(* The invariant *)

LEMMA TableInvInit == TableInit => TableInv
  <1>1. InitSize \in Sizes
    BY OhashAssumption DEF Sizes
  <1> QED BY <1>1, EmptyIsTable
          DEF TableInit, TableInv, TableType, OnTheWay, SlotIsFresh, HalfMoved, HalfListed

(* A lookup begins at home, where the way to the key begins as well.       *)
LEMMA LookupKeeps == ASSUME TableInv, NEW k \in Keys, Lookup(k) PROVE TableInv'
  <1> USE DEF TableInv, TableType, Lookup, table, resizing, Slots
  <1>0. Interval[k] \in Nat
    BY OhashAssumption
  <1>1. TableType'
    BY <1>0, HomeIn DEF Resting
  <1>2. Reached(t, size, Interval[k], slot')
    BY ReachHome
  <1>3. ASSUME NEW l \in Slots, t[l].p = k PROVE ReachedFrom(t, size, Interval[k], slot', l)
    <2>1. Live(t[l])
      BY <1>3, Markers DEF Live
    <2>2. Reached(t, size, Interval[k], l)
      BY <1>3, <2>1 DEF WellPlaced
    <2> QED BY <2>2, LeadsFromHome
  <1>4. OnTheWay'
    BY <1>2, <1>3 DEF OnTheWay
  <1> QED BY <1>1, <1>4 DEF SlotIsFresh, HalfMoved, HalfListed

(* The key is not in a slot that is passed.                                *)
LEMMA PassKeeps == ASSUME TableInv, PassDeleted \/ PassOther PROVE TableInv'
  <1> USE DEF TableInv, TableType, table, resizing, Slots
  <1> DEFINE hv == Interval[sought]
  <1>0. hv \in Nat /\ sought \in Keys /\ slot \in Slots
    BY OhashAssumption DEF PassDeleted, PassOther
  <1>1. /\ tpc = "probe" /\ t[slot].p # NULL /\ slot' = NextSlot(slot, hv, size)
        /\ UNCHANGED <<t, size, total, deleted, tpc, sought, newt, newsize, pos, listed>>
    BY Markers DEF PassDeleted, PassOther
  <1>2. t[slot].p # sought
    <2>1. CASE PassDeleted
      BY <1>0, <2>1, Markers DEF PassDeleted
    <2>2. CASE PassOther
      BY <1>0, <2>2, Markers DEF PassOther, IsKey, WellPlaced, Live
    <2> QED BY <2>1, <2>2
  <1>3. slot' \in Slots
    BY <1>0, <1>1, NextIn
  <1>4. Reached(t, size, hv, slot')
    BY <1>0, <1>1, ReachNext DEF OnTheWay
  <1>5. empty' # NONE => empty' \in Slots /\ t[empty'].p = DELETED /\ Reached(t, size, hv, empty')
    BY <1>0, <1>1 DEF PassDeleted, PassOther, OnTheWay
  <1>6. ASSUME NEW l \in Slots, t[l].p = sought PROVE ReachedFrom(t, size, hv, slot', l)
    <2>1. ReachedFrom(t, size, hv, slot, l) /\ l # slot
      BY <1>1, <1>2, <1>6 DEF OnTheWay
    <2> QED BY <1>0, <1>1, <2>1, LeadsNext
  <1>7. OnTheWay'
    BY <1>1, <1>4, <1>5, <1>6 DEF OnTheWay
  <1> QED BY <1>0, <1>1, <1>3, <1>7 DEF SlotIsFresh, HalfMoved, HalfListed

(* What was found stays, or moves to a slot that its lookup comes to.      *)
LEMMA HitKeeps == ASSUME TableInv, Hit PROVE TableInv' /\ EntriesOf(t', size) = EntriesOf(t, size)
  <1> USE DEF TableInv, TableType, resizing, Slots
  <1> DEFINE hv == Interval[sought]
  <1>0. /\ sought \in Keys /\ slot \in Slots /\ t[slot].p = sought /\ Live(t[slot])
        /\ tpc = "probe" /\ tpc' = "found"
        /\ UNCHANGED <<size, total, deleted, sought, empty, newt, newsize, pos, listed>>
    BY Markers DEF Hit, IsKey, Live
  <1>1. CASE empty = NONE
    <2>1. UNCHANGED <<t, slot>>
      BY <1>1 DEF Hit
    <2> QED BY <1>0, <2>1 DEF OnTheWay, SlotIsFresh, HalfMoved, HalfListed
  <1>2. CASE empty # NONE
    <2> DEFINE g == [t EXCEPT ![slot].p = DELETED]
    <2>1. empty \in Slots /\ t[empty].p = DELETED /\ Reached(t, size, hv, empty) /\ empty # slot /\ hv \in Nat
      BY <1>0, <1>2, Markers, OhashAssumption DEF OnTheWay
    <2>2. g \in Tables(size) /\ g[slot].p = DELETED /\ \A l \in Slots : l # slot => g[l] = t[l]
      BY <1>0 DEF Tables
    <2>3. slot' = empty /\ t' = [t EXCEPT ![empty] = Record(hv, sought), ![slot].p = DELETED]
      BY <1>2 DEF Hit
    <2>4. /\ t' \in Tables(size) /\ t'[empty] = Record(hv, sought)
          /\ \A l \in Slots : l # empty => t'[l] = g[l]
      BY <1>0, <2>1, <2>3 DEF Tables, Record
    <2> HIDE DEF g
    <2>5. /\ WellPlaced(g, size) /\ NoneEmptied(t, g, size)
          /\ EntriesOf(g, size) = EntriesOf(t, size) \ {sought}
          /\ \A l \in Slots : g[l].p # sought
      BY <1>0, <2>2, TakePlaced
    <2>6. ~ Live(g[empty]) /\ Reached(g, size, hv, empty)
      BY <2>1, <2>2, <2>5, WayStays DEF Live
    <2>7. WellPlaced(t', size) /\ EntriesOf(t', size) = EntriesOf(g, size) \cup {sought}
      BY <1>0, <2>1, <2>2, <2>4, <2>5, <2>6, PutPlaced
    <2>8. sought \in EntriesOf(t, size)
      BY <1>0 DEF EntriesOf
    <2>9. EntriesOf(t', size) = EntriesOf(t, size)
      BY <2>5, <2>7, <2>8
    <2>10. t'[slot'].p = sought
      BY <2>3, <2>4 DEF Record
    <2>11. TableType'
      BY <1>0, <2>1, <2>3, <2>4, <2>7
    <2> QED BY <1>0, <2>9, <2>10, <2>11 DEF OnTheWay, SlotIsFresh, HalfMoved, HalfListed
  <1> QED BY <1>1, <1>2

(* At an empty slot the way ends, so that the key is nowhere.              *)
LEMMA MissKeeps ==
  ASSUME TableInv, Miss
  PROVE  TableInv' /\ EntriesOf(t', size) = EntriesOf(t, size) /\ sought \notin EntriesOf(t, size)
  <1> USE DEF TableInv, TableType, resizing, Slots
  <1> DEFINE hv == Interval[sought]
  <1>0. /\ sought \in Keys /\ slot \in Slots /\ t[slot].p = NULL /\ hv \in Nat
        /\ tpc = "probe" /\ tpc' = "absent" /\ t' = [t EXCEPT ![slot'].hv = hv]
        /\ UNCHANGED <<size, total, deleted, sought, empty, newt, newsize, pos, listed>>
    BY OhashAssumption DEF Miss
  <1>1. ASSUME NEW l \in Slots PROVE t[l].p # sought
    <2> SUFFICES ASSUME t[l].p = sought PROVE FALSE
      OBVIOUS
    <2>1. ReachedFrom(t, size, hv, slot, l)
      BY <1>0 DEF OnTheWay
    <2>2. l = slot
      BY <1>0, <2>1, LeadsEnd
    <2> QED BY <1>0, <2>2, Markers
  <1>2. slot' \in Slots /\ ~ Live(t[slot']) /\ Reached(t, size, hv, slot')
    BY <1>0 DEF Miss, OnTheWay, Live
  <1>3. t' \in Tables(size) /\ \A c \in Slots : t'[c].p = t[c].p /\ (c # slot' => t'[c] = t[c])
    BY <1>0, <1>2 DEF Tables
  <1>4. NoneEmptied(t, t', size) /\ \A c \in Slots : Live(t'[c]) => t'[c] = t[c]
    BY <1>2, <1>3 DEF NoneEmptied, Live
  <1>5. WellPlaced(t', size)
    BY <1>3, <1>4, StayPlaced
  <1>6. Reached(t', size, hv, slot')
    BY <1>2, <1>4, WayStays
  <1>7. t'[slot'].hv = hv /\ ~ Live(t'[slot'])
    BY <1>0, <1>2, <1>3 DEF Tables, Live
  <1>8. EntriesOf(t', size) = EntriesOf(t, size)
    BY <1>3 DEF EntriesOf, Live
  <1>9. sought \notin EntriesOf(t, size)
    BY <1>1 DEF EntriesOf
  <1>10. TableType'
    BY <1>0, <1>2, <1>3, <1>5
  <1>11. SlotIsFresh'
    BY <1>0, <1>1, <1>2, <1>3, <1>6, <1>7 DEF SlotIsFresh
  <1> QED BY <1>0, <1>8, <1>9, <1>10, <1>11 DEF OnTheWay, HalfMoved, HalfListed

LEMMA ResizeBegins ==
  ASSUME size \in Sizes, size' = size, NEW d, NEW n, Resize(d, n)
  PROVE  tpc' = "rehash" /\ HalfMoved'
  <1>1. newsize' \in Sizes /\ newt' = EmptyTable(newsize') /\ pos' = 0 /\ tpc' = "rehash"
    BY NewSizeIs DEF Resize
  <1>2. newt' \in Tables(newsize') /\ WellPlaced(newt', newsize') /\ EntriesOf(newt', newsize') = {}
    BY <1>1, EmptyIsTable
  <1>3. EntriesOf(t', 0) = {} /\ 0 \in 0..size
    BY DEF EntriesOf, Sizes
  <1> QED BY <1>1, <1>2, <1>3 DEF HalfMoved

LEMMA PutKeeps ==
  ASSUME TableInv, InsertOverDeleted \/ Insert
  PROVE  TableInv' /\ size' = size /\ EntriesOf(t', size) = EntriesOf(t, size) \cup {sought}
  <1> USE DEF TableInv, TableType, Slots
  <1>0. /\ tpc = "absent" /\ sought \in Keys /\ slot \in Slots
        /\ t' = [t EXCEPT ![slot].p = sought] /\ UNCHANGED <<size, sought, slot>>
    BY DEF InsertOverDeleted, Insert, probing
  <1>1. ~ Live(t[slot]) /\ Reached(t, size, Interval[sought], slot) /\ \A l \in Slots : t[l].p # sought
    BY <1>0 DEF SlotIsFresh
  <1>2. /\ t' \in Tables(size) /\ t'[slot] = Record(Interval[sought], sought)
        /\ \A l \in Slots : l # slot => t'[l] = t[l]
    BY <1>0 DEF SlotIsFresh, Tables, Record
  <1>3. WellPlaced(t', size) /\ EntriesOf(t', size) = EntriesOf(t, size) \cup {sought}
    <2>1. size \in Sizes /\ t \in Tables(size) /\ WellPlaced(t, size) /\ sought \in Keys /\ slot \in 0..(size - 1)
      BY <1>0
    <2> QED BY ONLY <1>1, <1>2, <2>1, PutPlaced DEF Slots
  <1>4. tpc' = "idle" \/ (tpc' = "rehash" /\ HalfMoved')
    <2>1. ASSUME NEW d, NEW n, Resize(d, n) PROVE tpc' = "rehash" /\ HalfMoved'
      BY <1>0, <2>1, ResizeBegins
    <2> QED BY <2>1 DEF InsertOverDeleted, Insert
  <1>5. TableType'
    BY <1>0, <1>2, <1>3, <1>4
  <1>6. HalfMoved'
    BY <1>4 DEF HalfMoved
  <1> QED BY <1>0, <1>3, <1>4, <1>5, <1>6 DEF OnTheWay, SlotIsFresh, HalfListed

LEMMA RemoveKeeps ==
  ASSUME TableInv, RemoveEntry
  PROVE  TableInv' /\ size' = size /\ EntriesOf(t', size) = EntriesOf(t, size) \ {sought}
  <1> USE DEF TableInv, TableType, Slots
  <1>0. /\ tpc = "found" /\ sought \in Keys /\ slot \in Slots /\ t[slot].p = sought
        /\ t' = [t EXCEPT ![slot].p = DELETED] /\ UNCHANGED <<size, sought, slot>>
    BY DEF RemoveEntry, probing, SlotIsFresh
  <1>1. Live(t[slot])
    BY <1>0, Markers DEF Live
  <1>2. t' \in Tables(size) /\ t'[slot].p = DELETED /\ \A l \in Slots : l # slot => t'[l] = t[l]
    BY <1>0 DEF Tables
  <1>3. WellPlaced(t', size) /\ EntriesOf(t', size) = EntriesOf(t, size) \ {sought}
    BY <1>0, <1>1, <1>2, TakePlaced
  <1>4. tpc' = "idle" \/ (tpc' = "rehash" /\ HalfMoved')
    <2>1. ASSUME NEW d, NEW n, Resize(d, n) PROVE tpc' = "rehash" /\ HalfMoved'
      BY <1>0, <2>1, ResizeBegins
    <2> QED BY <2>1 DEF RemoveEntry
  <1>5. TableType'
    BY <1>0, <1>2, <1>3, <1>4
  <1>6. HalfMoved'
    BY <1>4 DEF HalfMoved
  <1> QED BY <1>0, <1>3, <1>4, <1>5, <1>6 DEF OnTheWay, SlotIsFresh, HalfListed

(* A resize leaves out what is no entry, and puts every entry once.        *)
LEMMA SkipKeeps == ASSUME TableInv, Skip PROVE TableInv'
  <1>1. pos \in Nat /\ pos + 1 \in 0..size /\ EntriesOf(t, pos + 1) = EntriesOf(t, pos)
    <2>1. pos \in 0..size /\ pos < size /\ size \in Nat /\ ~ Live(t[pos])
      BY DEF Skip, TableInv, TableType, HalfMoved, Sizes
    <2>2. pos \in Nat /\ pos + 1 \in 0..size
      BY <2>1
    <2>3. EntriesOf(t, pos + 1) = EntriesOf(t, pos) \cup (IF Live(t[pos]) THEN {t[pos].p} ELSE {})
      BY <2>2, OneMore
    <2> QED BY <2>1, <2>2, <2>3
  <1> QED BY <1>1 DEF Skip, TableInv, TableType, HalfMoved, OnTheWay, SlotIsFresh, HalfListed, table, probing, Slots

LEMMA WalkKeeps == ASSUME TableInv, Rehash \/ Occupied PROVE TableInv'
  <1> USE DEF TableInv, TableType, Slots, table, resizing
  <1>0. /\ tpc' = "place" /\ newsize \in Sizes /\ pos \in 0..size /\ pos < size /\ size \in Nat /\ Live(t[pos])
        /\ UNCHANGED <<t, size, total, deleted, sought, empty, newt, newsize, pos, listed>>
    BY DEF Rehash, Occupied, HalfMoved, Sizes
  <1>1. t[pos].hv \in Nat
    BY <1>0 DEF Tables
  <1>2. slot' \in 0..(newsize - 1) /\ Reached(newt, newsize, t[pos].hv, slot')
    <2>1. CASE Rehash
      BY <1>0, <1>1, <2>1, HomeIn, ReachHome DEF Rehash
    <2>2. CASE Occupied
      BY <1>0, <1>1, <2>2, NextIn, ReachNext DEF Occupied, HalfMoved
    <2> QED BY <2>1, <2>2
  <1>3. HalfMoved'
    BY <1>0, <1>2 DEF Rehash, Occupied, HalfMoved
  <1> QED BY <1>0, <1>3 DEF OnTheWay, SlotIsFresh, HalfListed

LEMMA PlaceKeeps == ASSUME TableInv, Place PROVE TableInv'
  <1> USE DEF TableInv, TableType, Slots, table, probing
  <1> DEFINE x == t[pos].p
  <1>0. /\ tpc' = "rehash" /\ pos' = pos + 1 /\ newt' = [newt EXCEPT ![slot] = t[pos]]
        /\ UNCHANGED <<t, size, total, deleted, sought, slot, empty, newsize, listed>>
        /\ newsize \in Sizes /\ newt \in Tables(newsize) /\ WellPlaced(newt, newsize)
        /\ slot \in 0..(newsize - 1) /\ newt[slot].p = NULL
        /\ pos \in 0..(size - 1) /\ pos \in Nat /\ size \in Nat /\ Live(t[pos])
    BY DEF Place, HalfMoved, Sizes
  <1>1. x \in Keys /\ t[pos].hv = Interval[x] /\ t[pos].hv \in Nat /\ t[pos] = Record(Interval[x], x)
    BY <1>0 DEF Tables, Live, WellPlaced, Record
  <1>2. x \notin EntriesOf(newt, newsize)
    <2>1. EntriesOf(newt, newsize) = EntriesOf(t, pos)
      BY DEF Place, HalfMoved
    <2>2. \A l \in 0..(pos - 1) : t[l].p # x
      BY <1>0 DEF WellPlaced
    <2> QED BY <2>1, <2>2 DEF EntriesOf
  <1>3. \A l \in 0..(newsize - 1) : newt[l].p # x
    BY <1>1, <1>2, Markers DEF EntriesOf, Live
  <1>4. Reached(newt, newsize, Interval[x], slot)
    BY <1>1 DEF Place, HalfMoved
  <1>5. /\ newt' \in Tables(newsize) /\ newt'[slot] = Record(Interval[x], x)
        /\ \A l \in 0..(newsize - 1) : l # slot => newt'[l] = newt[l]
    BY <1>0, <1>1 DEF Tables
  <1>6. ~ Live(newt[slot])
    BY <1>0 DEF Live
  <1>7. WellPlaced(newt', newsize) /\ EntriesOf(newt', newsize) = EntriesOf(newt, newsize) \cup {x}
    <2>1. newsize \in Sizes /\ newt \in Tables(newsize) /\ WellPlaced(newt, newsize) /\ slot \in 0..(newsize - 1) /\ x \in Keys
      BY <1>0, <1>1
    <2> HIDE DEF x
    <2> QED BY ONLY <1>3, <1>4, <1>5, <1>6, <2>1, PutPlaced
  <1>8. EntriesOf(t, pos + 1) = EntriesOf(newt', newsize)
    BY <1>0, <1>7, OneMore DEF Place, HalfMoved
  <1>9. HalfMoved'
    BY <1>0, <1>5, <1>7, <1>8 DEF HalfMoved
  <1> QED BY <1>0, <1>9 DEF OnTheWay, SlotIsFresh, HalfListed

LEMMA ResizedKeeps ==
  ASSUME TableInv, Resized
  PROVE  TableInv' /\ EntriesOf(t', size') = EntriesOf(t, size)
  BY DEF Resized, TableInv, TableType, HalfMoved, OnTheWay, SlotIsFresh, HalfListed, Slots

-----------------------------------------------------------------------------
(* The list of all entries *)

LEMMA FirstKeeps == ASSUME TableInv, First PROVE TableInv'
  <1>1. EntriesOf(t, 0) = {}
    BY DEF EntriesOf
  <1>2. size \in Nat
    BY DEF TableInv, TableType, Sizes
  <1>3. HalfListed'
    BY <1>1, <1>2, FS_EmptySet DEF First, HalfListed, table
  <1> QED BY <1>3 DEF First, TableInv, TableType, OnTheWay, SlotIsFresh, HalfMoved, Slots, table

LEMMA NextEntryKeeps == ASSUME TableInv, NextEntry PROVE TableInv'
  <1> USE DEF TableInv, TableType, Slots, table, probing
  <1> DEFINE seen == EntriesOf(t, pos)
  <1>0. /\ tpc = "list" /\ tpc' = "list" /\ pos' = pos + 1 /\ pos \in 0..(size - 1) /\ pos \in Nat /\ size \in Nat
        /\ UNCHANGED <<t, size>>
        /\ listed \in Seq(Keys) /\ {listed[k] : k \in 1..Len(listed)} = seen
        /\ IsFiniteSet(seen) /\ Len(listed) = Cardinality(seen)
    BY DEF NextEntry, HalfListed, Sizes
  <1>1. EntriesOf(t, pos') = seen \cup (IF Live(t[pos]) THEN {t[pos].p} ELSE {})
    BY <1>0, OneMore
  <1>2. CASE ~ Live(t[pos])
    BY <1>0, <1>1, <1>2 DEF NextEntry, HalfListed, OnTheWay, SlotIsFresh, HalfMoved
  <1>3. CASE Live(t[pos])
    <2>1. t[pos].p \in Keys /\ listed' = Append(listed, t[pos].p)
      BY <1>0, <1>3 DEF NextEntry, Tables, Live
    <2>2. t[pos].p \notin seen
      BY <1>0, <1>3 DEF EntriesOf, WellPlaced
    <2>3. IsFiniteSet(EntriesOf(t, pos')) /\ Cardinality(EntriesOf(t, pos')) = Cardinality(seen) + 1
      BY <1>0, <1>1, <1>3, <2>2, FS_AddElement
    <2>4. listed' \in Seq(Keys) /\ Len(listed') = Len(listed) + 1 /\ Len(listed) \in Nat
      BY <1>0, <2>1
    <2>5. {listed'[k] : k \in 1..Len(listed')} = seen \cup {t[pos].p}
      <3>1. listed'[Len(listed) + 1] = t[pos].p /\ \A k \in 1..Len(listed) : listed'[k] = listed[k]
        BY <1>0, <2>1
      <3>2. 1..Len(listed') = (1..Len(listed)) \cup {Len(listed) + 1}
        BY <2>4
      <3>3. {listed'[k] : k \in 1..Len(listed)} = seen
        BY <1>0, <3>1
      <3>4. {listed'[k] : k \in 1..Len(listed')} = {listed'[k] : k \in 1..Len(listed)} \cup {listed'[Len(listed) + 1]}
        BY <3>2
      <3> QED BY <3>1, <3>3, <3>4
    <2>6. HalfListed'
      BY <1>0, <1>1, <1>3, <2>3, <2>4, <2>5 DEF HalfListed
    <2> QED BY <1>0, <2>6 DEF NextEntry, OnTheWay, SlotIsFresh, HalfMoved
  <1> QED BY <1>2, <1>3

LEMMA ListedKeeps == ASSUME TableInv, Listed PROVE TableInv'
  BY DEF Listed, TableInv, TableType, OnTheWay, SlotIsFresh, HalfMoved, HalfListed, Slots, table, probing, resizing

LEMMA TableInvNext == TableInv /\ [TableStep \/ TableCall]_tvars => TableInv'
  <1> SUFFICES ASSUME TableInv, [TableStep \/ TableCall]_tvars PROVE TableInv'
    OBVIOUS
  <1>1. CASE TableStep
    BY <1>1, PassKeeps, HitKeeps, MissKeeps, SkipKeeps, WalkKeeps, PlaceKeeps, ResizedKeeps, NextEntryKeeps, ListedKeeps
       DEF TableStep
  <1>2. CASE TableCall
    BY <1>2, LookupKeeps, PutKeeps, RemoveKeeps, FirstKeeps DEF TableCall
  <1>3. CASE UNCHANGED tvars
    BY <1>3 DEF tvars, TableInv, TableType, OnTheWay, SlotIsFresh, HalfMoved, HalfListed, Slots
  <1> QED BY <1>1, <1>2, <1>3

LEMMA TableInvariant == TableSpec => []TableInv
  BY TableInvInit, TableInvNext, PTL DEF TableSpec

(* Whatever was inserted, removed and moved before, every entry can be     *)
(* found, in the old table and in the new one, and ohash_next gives every  *)
(* entry once (ohash.c).                                                   *)
THEOREM EntriesAlwaysFindable == TableSpec => []EntriesFindable
  <1>1. TableInv => EntriesFindable
    BY EntriesAll DEF TableInv, TableType, HalfMoved, HalfListed, EntriesFindable
  <1> QED BY <1>1, TableInvariant, PTL

(* ohash implements KeySet: a lookup finds exactly the keys that were      *)
(* inserted and not removed since, and the callers' steps change the set as*)
(* ohash.h says; resizes, moves and tombstones do not show.                *)
THEOREM OhashIsKeySet == TableSpec => IsKeySet
  <1> USE DEF Promise!Next, Promise!Ask, Promise!Answer, Promise!Insert, Promise!Remove, Promise!Forget, Promise!vars
  <1>1. TableInit => Promise!Init
    BY EntriesAll, EmptyIsTable, OhashAssumption DEF TableInit, Promise!Init, AskedKey, Answer, Sizes
  <1>2. TableInv /\ [TableStep \/ TableCall]_tvars => [Promise!Next]_(Promise!vars)
    <2> SUFFICES ASSUME TableInv, [TableStep \/ TableCall]_tvars PROVE [Promise!Next]_(Promise!vars)
      OBVIOUS
    <2> DEFINE Same == Entries' = Entries
    <2>0. Entries = EntriesOf(t, size) /\ Entries' = EntriesOf(t', size')
      BY EntriesAll DEF Entries, EntriesOf, Slots
    <2>1. ASSUME NEW k \in Keys, Lookup(k) PROVE Promise!Ask(k)
      BY <2>1, <2>0 DEF Lookup, Resting, table, AskedKey, Answer
    <2>2. CASE PassDeleted \/ PassOther
      BY <2>2, <2>0 DEF PassDeleted, PassOther, table, AskedKey, Answer
    <2>3. CASE Hit
      <3>1. sought \in Entries
        BY <2>3, Markers DEF Hit, IsKey, Entries, Live, TableInv, TableType
      <3> QED BY <2>3, <2>0, <3>1, HitKeeps DEF Hit, AskedKey, Answer
    <2>4. CASE Miss
      BY <2>4, <2>0, MissKeeps DEF Miss, AskedKey, Answer
    <2>5. CASE InsertOverDeleted \/ Insert
      BY <2>5, <2>0, PutKeeps DEF InsertOverDeleted, Insert, Resize, AskedKey, Answer
    <2>6. CASE RemoveEntry
      BY <2>6, <2>0, RemoveKeeps DEF RemoveEntry, Resize, AskedKey, Answer
    <2>7. CASE Skip \/ Rehash \/ Occupied \/ Place
      BY <2>7, <2>0 DEF Skip, Rehash, Occupied, Place, table, AskedKey, Answer
    <2>8. CASE Resized
      BY <2>8, <2>0, ResizedKeeps DEF Resized, AskedKey, Answer
    <2>9. CASE First
      BY <2>9, <2>0 DEF First, Resting, table, AskedKey, Answer
    <2>10. CASE NextEntry \/ Listed
      BY <2>10, <2>0 DEF NextEntry, Listed, table, AskedKey, Answer
    <2>11. CASE UNCHANGED tvars
      BY <2>11, <2>0 DEF tvars, AskedKey, Answer
    <2> QED BY <2>1, <2>2, <2>3, <2>4, <2>5, <2>6, <2>7, <2>8, <2>9, <2>10, <2>11 DEF TableStep, TableCall
  <1> QED BY <1>1, <1>2, TableInvariant, PTL DEF TableSpec, IsKeySet, Promise!Spec

-----------------------------------------------------------------------------
(* Base64 *)

(* What was read without the spaces, and how much of it is padding.        *)
Got == Stripping(src)[at - 1]
Padding ==
  CASE decoding = "pad" -> 1
    [] decoding \in {"end", "done"} -> (4 - state) % 4
    [] OTHER -> 0
Taken == Len(Got) - Padding

(* The bits of a character that belong to a byte not yet complete.         *)
Pending ==
  CASE state = 1 -> Got[Taken] * 4
    [] state = 2 -> (Got[Taken] % 16) * 16
    [] state = 3 -> (Got[Taken] % 4) * 64
    [] state = 0 -> 0

DecodeType ==
  /\ src \in Sources /\ targsize \in TargSizes /\ target \in [0..(targsize - 1) -> Nat]
  /\ at \in 1..(Len(src) + 1) /\ tarindex \in 0..targsize /\ state \in 0..3
  /\ decoding \in {"chars", "pad", "end", "done", "error"}

InPlace ==
  /\ Padding \in 0..2 /\ Taken \in Nat /\ state = Taken % 4
  /\ decoding = "pad" => state = 2
  /\ decoding = "end" => state \in {2, 3}
  /\ decoding = "done" => at = Len(src) + 1 /\ state # 1
  /\ tarindex = 3 * (Taken \div 4) + (IF state = 0 THEN 0 ELSE state - 1)
  /\ \A k \in 1..Len(Got) : IF k <= Taken THEN Got[k] \in Chars ELSE Got[k] = Pad64

BytesAreOfChars ==
  \A q \in Nat :
    /\ 3 * q < tarindex => target[3 * q] = Got[4 * q + 1] * 4 + Got[4 * q + 2] \div 16
    /\ 3 * q + 1 < tarindex => target[3 * q + 1] = (Got[4 * q + 2] % 16) * 16 + Got[4 * q + 3] \div 4
    /\ 3 * q + 2 < tarindex => target[3 * q + 2] = (Got[4 * q + 3] % 4) * 64 + Got[4 * q + 4]

BitsArePending ==
  /\ state # 0 => IF tarindex < targsize THEN target[tarindex] = Pending ELSE state # 1 /\ Pending = 0
  /\ decoding = "done" => Pending = 0

Refused == decoding = "error" => ~ IsEncoding(Stripped) \/ Size(Stripped) > targsize

Decoded == decoding # "error" => InPlace /\ BytesAreOfChars /\ BitsArePending

DecodeInv == DecodeType /\ Decoded /\ Refused

-----------------------------------------------------------------------------
(* Induction over the numbers, for a set of them.                          *)
LEMMA NatLeast ==
  ASSUME NEW T \in SUBSET Nat, T # {}
  PROVE  \E m \in T : \A n \in T : m <= n
  <1> DEFINE R == OpToRel(<, Nat)
  <1>1. IsWellFoundedOn(R, Nat)
    BY NatLessThanWellFounded
  <1>2. \A x, y \in Nat : <<y, x>> \in R <=> y < x
    BY DEF R, OpToRel
  <1> HIDE DEF R
  <1>3. PICK m \in T : \A n \in T : ~ (<<n, m>> \in R)
    BY <1>1, WFMin
  <1>4. \A n \in T : m \in Nat /\ n \in Nat /\ ~ (n < m)
    BY <1>2, <1>3
  <1> QED BY <1>4

LEMMA NatInSet ==
  ASSUME NEW S, 0 \in S, \A n \in Nat : n \in S => n + 1 \in S
  PROVE  Nat \subseteq S
  <1> SUFFICES ASSUME Nat \ S # {} PROVE FALSE
    OBVIOUS
  <1>1. PICK m \in Nat \ S : \A n \in Nat \ S : m <= n
    BY NatLeast
  <1>2. m # 0 /\ m - 1 \in Nat /\ m - 1 \in S
    BY <1>1
  <1>3. (m - 1) + 1 \in S
    BY <1>2
  <1> QED BY <1>1, <1>3

LEMMA ByteIsNat == Bytes \subseteq Nat
  BY DEF Bytes

LEMMA LastGroupIs ==
  ASSUME NEW a \in Nat, NEW b \in Nat
  PROVE  /\ LastGroup(<< >>) = << >>
         /\ LastGroup(<<a>>) = <<a \div 4, (a % 4) * 16, Pad64, Pad64>>
         /\ LastGroup(<<a, b>>) = <<a \div 4, (a % 4) * 16 + b \div 16, (b % 16) * 4, Pad64>>
  <1>1. Len(<< >>) = 0 /\ Len(<<a>>) = 1 /\ Len(<<a, b>>) = 2
    OBVIOUS
  <1>2. LastGroup(<< >>) = << >>
    BY <1>1 DEF LastGroup
  <1>3. LastGroup(<<a>>) = [Group(a, 0, 0) EXCEPT ![3] = Pad64, ![4] = Pad64]
    BY <1>1 DEF LastGroup
  <1>4. LastGroup(<<a, b>>) = [Group(a, b, 0) EXCEPT ![4] = Pad64]
    BY <1>1 DEF LastGroup
  <1>5. Group(a, 0, 0) = <<a \div 4, (a % 4) * 16, 0, 0>>
    BY DEF Group
  <1>6. Group(a, b, 0) = <<a \div 4, (a % 4) * 16 + b \div 16, (b % 16) * 4, 0>>
    BY DEF Group
  <1> QED BY <1>2, <1>3, <1>4, <1>5, <1>6

-----------------------------------------------------------------------------
(* Stripping *)

Kept == Chars \cup {Pad64, Other}
Strips(f, s, n) ==
  /\ f \in [0..n -> Seq(Kept)] /\ f[0] = << >>
  /\ \A k \in 1..n : f[k] = IF s[k] = Space THEN f[k - 1] ELSE Append(f[k - 1], s[k])

LEMMA StripExists ==
  ASSUME NEW s \in Strings
  PROVE  \E f : Strips(f, s, Len(s))
  <1> DEFINE S == {n \in Nat : n <= Len(s) => \E f : Strips(f, s, n)}
  <1>1. 0 \in S
    <2> DEFINE f == [k \in 0..0 |-> << >>]
    <2>1. Strips(f, s, 0)
      BY DEF Strips
    <2> QED BY <2>1
  <1>2. ASSUME NEW n \in Nat, n \in S PROVE n + 1 \in S
    <2> SUFFICES ASSUME n + 1 <= Len(s) PROVE \E f : Strips(f, s, n + 1)
      OBVIOUS
    <2>1. PICK f : Strips(f, s, n)
      BY <1>2
    <2> DEFINE next == IF s[n + 1] = Space THEN f[n] ELSE Append(f[n], s[n + 1])
               more == [k \in 0..(n + 1) |-> IF k = n + 1 THEN next ELSE f[k]]
    <2>2. next \in Seq(Kept)
      <3>1. f[n] \in Seq(Kept) /\ s[n + 1] \in Kept \cup {Space}
        BY <2>1 DEF Strips, Strings, Kept
      <3> QED BY <3>1
    <2>3. more \in [0..(n + 1) -> Seq(Kept)]
      BY <2>1, <2>2 DEF Strips
    <2>4. more[0] = << >>
      BY <2>1 DEF Strips
    <2>5. ASSUME NEW k \in 1..(n + 1)
          PROVE  more[k] = IF s[k] = Space THEN more[k - 1] ELSE Append(more[k - 1], s[k])
      <3>0. k \in 0..(n + 1) /\ k - 1 \in 0..(n + 1) /\ k - 1 # n + 1 /\ k - 1 \in 0..n
        OBVIOUS
      <3>1. more[k - 1] = f[k - 1]
        BY <3>0
      <3>2. CASE k = n + 1
        BY <3>0, <3>1, <3>2
      <3>3. CASE k # n + 1
        BY <2>1, <3>0, <3>1, <3>3 DEF Strips
      <3> QED BY <3>2, <3>3
    <2> HIDE DEF more
    <2>6. Strips(more, s, n + 1)
      BY <2>3, <2>4, <2>5 DEF Strips
    <2> QED BY <2>6
  <1> HIDE DEF S
  <1>3. Nat \subseteq S
    BY <1>1, <1>2, NatInSet
  <1>4. Len(s) \in S
    BY <1>3 DEF Strings
  <1> QED BY <1>4 DEF S

LEMMA StrippingIs ==
  ASSUME NEW s \in Strings
  PROVE  Strips(Stripping(s), s, Len(s))
  <1> DEFINE rec(f) == [k \in 0..Len(s) |->
                          IF k = 0 THEN << >>
                          ELSE IF s[k] = Space THEN f[k - 1] ELSE Append(f[k - 1], s[k])]
  <1>1. PICK f : Strips(f, s, Len(s))
    BY StripExists
  <1>2. f = rec(f)
    <2>1. f = [k \in 0..Len(s) |-> f[k]]
      BY <1>1 DEF Strips
    <2>2. ASSUME NEW k \in 0..Len(s) PROVE f[k] = rec(f)[k]
      <3>1. Len(s) \in Nat
        BY DEF Strings
      <3>2. CASE k = 0
        BY <1>1, <3>1, <3>2 DEF Strips
      <3>3. CASE k # 0
        <4>1. k \in 1..Len(s)
          BY <3>1, <3>3
        <4>2. f[k] = IF s[k] = Space THEN f[k - 1] ELSE Append(f[k - 1], s[k])
          BY <1>1, <4>1 DEF Strips
        <4> QED BY <3>3, <4>2
      <3> QED BY <3>2, <3>3
    <2> QED BY <2>1, <2>2
  <1>3. Stripping(s) = CHOOSE g : g = rec(g)
    BY DEF Stripping
  <1> HIDE DEF rec
  <1>4. Stripping(s) = rec(Stripping(s))
    BY <1>2, <1>3
  <1> DEFINE g == Stripping(s)
  <1> HIDE DEF g
  <1>5. g = rec(g)
    BY <1>4 DEF g
  <1>6. g[0] = << >>
    BY <1>5 DEF rec, Strings
  <1>7. ASSUME NEW k \in 1..Len(s)
        PROVE  g[k] = IF s[k] = Space THEN g[k - 1] ELSE Append(g[k - 1], s[k])
    <2>1. k \in 0..Len(s) /\ k # 0
      OBVIOUS
    <2>2. rec(g)[k] = IF s[k] = Space THEN g[k - 1] ELSE Append(g[k - 1], s[k])
      BY <2>1 DEF rec
    <2>3. g[k] = rec(g)[k]
      BY <1>5
    <2> QED BY <2>2, <2>3
  <1>8. g \in [0..Len(s) -> Seq(Kept)]
    <2> DEFINE S == {n \in Nat : n <= Len(s) => g[n] \in Seq(Kept)}
    <2>1. 0 \in S
      <3>1. << >> \in Seq(Kept)
        OBVIOUS
      <3> QED BY <1>6, <3>1
    <2>2. ASSUME NEW n \in Nat, n \in S PROVE n + 1 \in S
      <3> SUFFICES ASSUME n + 1 <= Len(s) PROVE g[n + 1] \in Seq(Kept)
        OBVIOUS
      <3>1. g[n] \in Seq(Kept) /\ s[n + 1] \in Kept \cup {Space} /\ n + 1 \in 1..Len(s) /\ (n + 1) - 1 = n
        BY <2>2 DEF Strings, Kept
      <3>2. g[n + 1] = IF s[n + 1] = Space THEN g[n] ELSE Append(g[n], s[n + 1])
        BY <3>1, <1>7
      <3> QED BY <3>1, <3>2
    <2> HIDE DEF S
    <2>3. Nat \subseteq S
      BY <2>1, <2>2, NatInSet
    <2>4. \A n \in 0..Len(s) : g[n] \in Seq(Kept)
      BY <2>3 DEF S, Strings
    <2>5. g = [k \in 0..Len(s) |-> g[k]]
      BY <1>5 DEF rec
    <2> QED BY <2>4, <2>5
  <1> QED BY <1>6, <1>7, <1>8 DEF Strips, g

(* What was read stays the beginning of what is read.                      *)
LEMMA StripPrefix ==
  ASSUME NEW s \in Strings, NEW k \in 0..Len(s)
  PROVE  LET f == Stripping(s) IN
         /\ f[k] \in Seq(Kept) /\ f[Len(s)] \in Seq(Kept)
         /\ Len(f[k]) <= Len(f[Len(s)])
         /\ \A i \in 1..Len(f[k]) : f[Len(s)][i] = f[k][i]
  <1> DEFINE f == Stripping(s)
             S == {n \in Nat : k + n <= Len(s) =>
                     /\ Len(f[k]) <= Len(f[k + n])
                     /\ \A i \in 1..Len(f[k]) : f[k + n][i] = f[k][i]}
  <1>0. Len(s) \in Nat /\ Strips(f, s, Len(s))
    BY StrippingIs DEF Strings
  <1> HIDE DEF f
  <1>1. \A n \in 0..Len(s) : f[n] \in Seq(Kept)
    BY <1>0 DEF Strips
  <1>2. 0 \in S
    BY <1>1
  <1>3. ASSUME NEW n \in Nat, n \in S PROVE n + 1 \in S
    <2> SUFFICES ASSUME k + (n + 1) <= Len(s)
                 PROVE  /\ Len(f[k]) <= Len(f[k + (n + 1)])
                        /\ \A i \in 1..Len(f[k]) : f[k + (n + 1)][i] = f[k][i]
      OBVIOUS
    <2> DEFINE a == f[k]  b == f[k + n]  c == f[k + (n + 1)]  x == s[k + (n + 1)]
    <2>1. a \in Seq(Kept) /\ b \in Seq(Kept) /\ c \in Seq(Kept)
      BY <1>0, <1>1
    <2>2. Len(a) <= Len(b) /\ \A i \in 1..Len(a) : b[i] = a[i]
      BY <1>0, <1>3
    <2>3. k + (n + 1) \in 1..Len(s) /\ k + (n + 1) - 1 = k + n
      BY <1>0
    <2>4. c = IF x = Space THEN b ELSE Append(b, x)
      BY <1>0, <2>3 DEF Strips
    <2> HIDE DEF a, b, c, x
    <2>5. Len(a) <= Len(c) /\ \A i \in 1..Len(a) : c[i] = a[i]
      <3>1. CASE c = b
        BY <2>2, <3>1
      <3>2. CASE c = Append(b, x)
        <4>1. Len(c) = Len(b) + 1 /\ \A i \in 1..Len(b) : c[i] = b[i]
          BY <2>1, <3>2
        <4> QED BY <2>1, <2>2, <4>1
      <3> QED BY <2>4, <3>1, <3>2
    <2> QED BY <2>5 DEF a, c
  <1> HIDE DEF S
  <1>4. Len(s) - k \in S
    BY <1>0, <1>2, <1>3, NatInSet
  <1>5. k + (Len(s) - k) = Len(s)
    BY <1>0
  <1> QED BY <1>0, <1>1, <1>4, <1>5 DEF S, f

-----------------------------------------------------------------------------
(* What can be read *)

LEMMA Apart ==
  /\ Pad64 \notin Chars /\ Space \notin Chars /\ Other \notin Chars /\ Nul \notin Chars
  /\ Pad64 # Space /\ Pad64 # Other /\ Pad64 # Nul /\ Space # Other /\ Space # Nul /\ Other # Nul
  <1>1. {Pad64, Space, Other, Nul} \cap Chars = {} /\ Cardinality({Pad64, Space, Other, Nul}) = 4
    BY CharactersAreApart
  <1>2. \A a, b, c : Cardinality({a, b, c}) <= 3
    <2> TAKE a, b, c
    <2>1. IsFiniteSet({a}) /\ Cardinality({a}) = 1
      BY FS_Singleton
    <2> DEFINE S == {a}  T == S \cup {b}
    <2>2. IsFiniteSet(S) /\ Cardinality(S) = 1
      BY <2>1
    <2> HIDE DEF S
    <2>3. IsFiniteSet(T) /\ Cardinality(T) \in {1, 2}
      BY <2>2, FS_AddElement
    <2> HIDE DEF T
    <2>4. Cardinality(T \cup {c}) <= 3
      BY <2>3, FS_AddElement
    <2>5. T \cup {c} = {a, b, c}
      BY DEF S, T
    <2> QED BY <2>4, <2>5
  <1>3. ASSUME NEW a, NEW b, NEW c, {Pad64, Space, Other, Nul} = {a, b, c} PROVE FALSE
    <2>1. Cardinality({Pad64, Space, Other, Nul}) <= 3
      BY <1>2, <1>3
    <2> QED BY <1>1, <2>1
  <1>4. Pad64 = Space => {Pad64, Space, Other, Nul} = {Pad64, Other, Nul}
    OBVIOUS
  <1>5. Pad64 = Other => {Pad64, Space, Other, Nul} = {Pad64, Space, Nul}
    OBVIOUS
  <1>6. Pad64 = Nul => {Pad64, Space, Other, Nul} = {Pad64, Space, Other}
    OBVIOUS
  <1>7. Space = Other => {Pad64, Space, Other, Nul} = {Pad64, Space, Nul}
    OBVIOUS
  <1>8. Space = Nul => {Pad64, Space, Other, Nul} = {Pad64, Space, Other}
    OBVIOUS
  <1>9. Other = Nul => {Pad64, Space, Other, Nul} = {Pad64, Space, Other}
    OBVIOUS
  <1> QED BY <1>1, <1>3, <1>4, <1>5, <1>6, <1>7, <1>8, <1>9

(* Padding is the end of the last group, and the bits before it are 0.     *)
LEMMA EncodingIs ==
  ASSUME NEW s \in Seq(Kept), IsEncoding(s)
  PROVE  LET l == Len(s) IN
         /\ l % 4 = 0
         /\ \A k \in 1..l : s[k] \in Chars \/ (s[k] = Pad64 /\ k \in {l - 1, l})
         /\ l > 0 /\ s[l - 1] = Pad64 => s[l] = Pad64 /\ s[l - 2] \in Chars /\ s[l - 2] % 16 = 0
         /\ l > 0 /\ s[l - 1] # Pad64 /\ s[l] = Pad64 => s[l - 1] % 4 = 0
  <1> DEFINE l == Len(s)
  <1>0. l \in Nat /\ l % 4 = 0 /\ s \in [1..l -> Kept]
    BY DEF IsEncoding
  <1>1. CASE Range(s) \subseteq Chars
    <2>1. \A k \in 1..l : s[k] \in Chars
      BY <1>0, <1>1 DEF Range
    <2>2. l > 0 => s[l - 1] \in Chars /\ s[l] \in Chars
      BY <1>0, <2>1
    <2> QED BY <1>0, <2>1, <2>2, Apart
  <1>2. CASE l > 0 /\ Range(SubSeq(s, 1, l - 4)) \subseteq Chars /\ SubSeq(s, l - 3, l) \in LastGroups
    <2>0. l >= 4
      BY <1>0, <1>2
    <2> DEFINE h == SubSeq(s, 1, l - 4)  g == SubSeq(s, l - 3, l)
    <2>1. Len(h) = l - 4 /\ DOMAIN h = 1..(l - 4) /\ \A k \in 1..(l - 4) : h[k] = s[k]
      BY <1>0, <2>0
    <2>2. \A k \in 1..(l - 4) : s[k] \in Chars
      BY <1>2, <2>1 DEF Range
    <2>3. g[1] = s[l - 3] /\ g[2] = s[l - 2] /\ g[3] = s[l - 1] /\ g[4] = s[l]
      BY <1>0, <2>0
    <2>4. \/ \E a \in Bytes : g = <<a \div 4, (a % 4) * 16, Pad64, Pad64>>
          \/ \E a, b \in Bytes : g = <<a \div 4, (a % 4) * 16 + b \div 16, (b % 16) * 4, Pad64>>
      <3>1. PICK x \in {<<b>> : b \in Bytes} \cup (Bytes \X Bytes) : g = LastGroup(x)
        BY <1>2 DEF LastGroups
      <3>2. CASE \E a \in Bytes : x = <<a>>
        <4>1. PICK a \in Bytes : x = <<a>>
          BY <3>2
        <4>2. a \in Nat
          BY <4>1, ByteIsNat
        <4> QED BY <3>1, <4>1, <4>2, LastGroupIs
      <3>3. CASE \E a, b \in Bytes : x = <<a, b>>
        <4>1. PICK a, b \in Bytes : x = <<a, b>>
          BY <3>3
        <4>2. a \in Nat /\ b \in Nat
          BY <4>1, ByteIsNat
        <4>3. LastGroup(<<a, b>>) = <<a \div 4, (a % 4) * 16 + b \div 16, (b % 16) * 4, Pad64>>
          BY <4>2, LastGroupIs
        <4>4. g = LastGroup(<<a, b>>)
          BY <3>1, <4>1
        <4> HIDE DEF g
        <4> QED BY <4>3, <4>4
      <3> QED BY <3>1, <3>2, <3>3
    <2> HIDE DEF h, g
    <2>5. ASSUME NEW k \in 1..l
          PROVE  k \in 1..(l - 4) \/ k = l - 3 \/ k = l - 2 \/ k = l - 1 \/ k = l
      <3>1. l \in Nat /\ k \in Int /\ 1 <= k /\ k <= l
        BY <1>0
      <3> HIDE DEF l
      <3> QED BY <3>1, <2>0
    <2>6. CASE \E a \in Bytes : g = <<a \div 4, (a % 4) * 16, Pad64, Pad64>>
      <3>1. PICK a \in Bytes : g = <<a \div 4, (a % 4) * 16, Pad64, Pad64>>
        BY <2>6
      <3>2. s[l - 3] = a \div 4 /\ s[l - 2] = (a % 4) * 16 /\ s[l - 1] = Pad64 /\ s[l] = Pad64
        BY <2>3, <3>1
      <3>3. a \div 4 \in Chars /\ (a % 4) * 16 \in Chars /\ ((a % 4) * 16) % 16 = 0
        BY DEF Bytes, Chars
      <3> QED BY <1>0, <2>2, <2>5, <3>2, <3>3
    <2>7. CASE \E a, b \in Bytes : g = <<a \div 4, (a % 4) * 16 + b \div 16, (b % 16) * 4, Pad64>>
      <3>1. PICK a, b \in Bytes : g = <<a \div 4, (a % 4) * 16 + b \div 16, (b % 16) * 4, Pad64>>
        BY <2>7
      <3>2. /\ s[l - 3] = a \div 4 /\ s[l - 2] = (a % 4) * 16 + b \div 16
            /\ s[l - 1] = (b % 16) * 4 /\ s[l] = Pad64
        BY <2>3, <3>1
      <3>3. /\ a \div 4 \in Chars /\ (a % 4) * 16 + b \div 16 \in Chars
            /\ (b % 16) * 4 \in Chars /\ ((b % 16) * 4) % 4 = 0
        BY DEF Bytes, Chars
      <3> QED BY <1>0, <2>2, <2>5, <3>2, <3>3, Apart
    <2> QED BY <2>4, <2>6, <2>7
  <1>3. CASE l = 0
    BY <1>0, <1>3
  <1>4. \/ Range(s) \subseteq Chars
        \/ (l > 0 /\ Range(SubSeq(s, 1, l - 4)) \subseteq Chars /\ SubSeq(s, l - 3, l) \in LastGroups)
        \/ l = 0
    BY <1>0 DEF IsEncoding
  <1> QED BY <1>1, <1>2, <1>3, <1>4

LEMMA SizeIs ==
  ASSUME NEW s \in Seq(Kept), IsEncoding(s), Len(s) > 0
  PROVE  LET l == Len(s) IN
         Size(s) = 3 * (l \div 4) - (IF s[l] = Pad64 THEN IF s[l - 1] = Pad64 THEN 2 ELSE 1 ELSE 0)
  <1> DEFINE l == Len(s)  pads == {k \in 1..l : s[k] = Pad64}
  <1>1. /\ l \in Nat /\ l >= 4
        /\ \A k \in 1..l : s[k] = Pad64 => k \in {l - 1, l}
        /\ s[l - 1] = Pad64 => s[l] = Pad64
    BY EncodingIs, Apart
  <1>2. Size(s) = 3 * (l \div 4) - Cardinality(pads)
    BY DEF Size
  <1>3. CASE s[l] # Pad64
    <2>1. pads = {}
      BY <1>1, <1>3
    <2> QED BY <1>2, <1>3, <2>1, FS_EmptySet, <1>1
  <1>4. CASE s[l] = Pad64 /\ s[l - 1] # Pad64
    <2>1. pads = {l}
      BY <1>1, <1>4
    <2> QED BY <1>2, <1>4, <2>1, FS_Singleton
  <1>5. CASE s[l] = Pad64 /\ s[l - 1] = Pad64
    <2>1. pads = {l - 1} \cup {l}
      BY <1>1, <1>5
    <2> DEFINE S == {l - 1}
    <2>2. IsFiniteSet(S) /\ Cardinality(S) = 1
      BY FS_Singleton
    <2>3. l \notin S
      BY <1>1
    <2> HIDE DEF S
    <2>4. Cardinality(S \cup {l}) = 2
      <3>1. Cardinality(S \cup {l}) = IF l \in S THEN Cardinality(S) ELSE Cardinality(S) + 1
        BY <2>2, FS_AddElement
      <3> QED BY <2>2, <2>3, <3>1
    <2>5. pads = S \cup {l}
      BY <2>1 DEF S
    <2> QED BY <1>2, <1>5, <2>4, <2>5
  <1> QED BY <1>3, <1>4, <1>5

(* Up to a character there are the bytes that it begins or ends, and the   *)
(* byte of its bits that are not 0.                                        *)
LEMMA SizeBeyond ==
  ASSUME NEW s \in Seq(Kept), IsEncoding(s), NEW q \in Nat, NEW j \in 1..4,
         4 * q + j <= Len(s), s[4 * q + j] \in Chars
  PROVE  LET c == s[4 * q + j] IN
         /\ Size(s) >= 3 * q + (IF j = 1 THEN 1 ELSE j - 1)
         /\ j = 2 /\ c % 16 # 0 => Size(s) >= 3 * q + 2
         /\ j = 3 /\ c % 4 # 0 => Size(s) >= 3 * q + 3
  <1> DEFINE l == Len(s)  m == l \div 4
  <1>1. l \in Nat /\ m \in Nat /\ l = 4 * m /\ l > 0 /\ m > q
    BY EncodingIs
  <1>2. Size(s) = 3 * m - (IF s[l] = Pad64 THEN IF s[l - 1] = Pad64 THEN 2 ELSE 1 ELSE 0)
    BY SizeIs, <1>1
  <1>3. CASE m > q + 1
    BY <1>1, <1>2, <1>3
  <1>4. CASE m = q + 1
    <2>1. l = 4 * q + 4 /\ l - 1 = 4 * q + 3 /\ l - 2 = 4 * q + 2
      BY <1>1, <1>4
    <2>2. j = 3 => s[l - 1] # Pad64
      BY <2>1, Apart
    <2>3. j = 4 => s[l] # Pad64 /\ s[l - 1] # Pad64
      BY <2>1, Apart, EncodingIs, <1>1
    <2>4. j = 2 /\ s[4 * q + j] % 16 # 0 => s[l - 1] # Pad64
      BY <2>1, EncodingIs, <1>1
    <2>5. j = 3 /\ s[4 * q + j] % 4 # 0 => s[l] # Pad64
      BY <2>1, <2>2, EncodingIs, <1>1
    <2>6. Size(s) \in Int /\ m = q + 1
      BY <1>1, <1>2, <1>4
    <2> HIDE DEF l, m
    <2> QED BY <1>1, <1>2, <2>2, <2>3, <2>4, <2>5, <2>6
  <1> QED BY <1>1, <1>3, <1>4

-----------------------------------------------------------------------------
(* What the characters that were read say of the string *)

LEMMA GotIs ==
  ASSUME DecodeType
  PROVE  /\ src \in Strings /\ Len(src) \in Nat /\ Got \in Seq(Kept) /\ Stripped \in Seq(Kept)
         /\ Len(Got) <= Len(Stripped)
         /\ \A k \in 1..Len(Got) : Stripped[k] = Got[k]
         /\ ch = Nul => at = Len(src) + 1 /\ Stripped = Got
         /\ ch # Nul => at \in 1..Len(src) /\ ch \in Kept \cup {Space}
         /\ ch # Nul /\ ch = Space => Stripping(src)[at] = Got
         /\ ch # Nul /\ ch # Space =>
              /\ ch \in Kept /\ Stripping(src)[at] = Append(Got, ch)
              /\ Len(Got) + 1 <= Len(Stripped) /\ Stripped[Len(Got) + 1] = ch
  <1>1. src \in Strings /\ Len(src) \in Nat /\ at \in 1..(Len(src) + 1) /\ at - 1 \in 0..Len(src)
    BY InputsAssumption DEF DecodeType, Strings
  <1>2. Strips(Stripping(src), src, Len(src))
    BY <1>1, StrippingIs
  <1>3. /\ Got \in Seq(Kept) /\ Stripped \in Seq(Kept) /\ Len(Got) <= Len(Stripped)
        /\ \A k \in 1..Len(Got) : Stripped[k] = Got[k]
    BY <1>1, StripPrefix DEF Got, Stripped
  <1>4. CASE at = Len(src) + 1
    <2>1. ch = Nul
      BY <1>1, <1>4 DEF ch
    <2>2. Stripped = Got
      BY <1>1, <1>4 DEF Got, Stripped
    <2> QED BY <1>1, <1>3, <1>4, <2>1, <2>2
  <1>5. CASE at \in 1..Len(src)
    <2>1. ch = src[at] /\ ch \in Kept \cup {Space}
      BY <1>1, <1>5 DEF ch, Strings, Kept
    <2>2. ch # Nul
      BY <2>1, Apart DEF Kept
    <2>3. Stripping(src)[at] = IF ch = Space THEN Got ELSE Append(Got, ch)
      BY <1>2, <1>5, <2>1 DEF Strips, Got
    <2>4. ASSUME ch # Space
          PROVE  Len(Got) + 1 <= Len(Stripped) /\ Stripped[Len(Got) + 1] = ch
      <3> DEFINE next == Stripping(src)[at]
      <3>1. at \in 0..Len(src)
        BY <1>1, <1>5
      <3>2. Len(next) <= Len(Stripped) /\ \A k \in 1..Len(next) : Stripped[k] = next[k]
        BY <1>1, <3>1, StripPrefix DEF Stripped
      <3>3. next = Append(Got, ch) /\ ch \in Kept
        BY <2>1, <2>3, <2>4
      <3>4. Len(next) = Len(Got) + 1 /\ next[Len(Got) + 1] = ch /\ Len(Got) \in Nat
        BY <1>3, <3>3
      <3> HIDE DEF next
      <3> QED BY <3>2, <3>4
    <2> QED BY <1>1, <1>3, <1>5, <2>1, <2>2, <2>3, <2>4
  <1> QED BY <1>1, <1>4, <1>5

(* The characters of a byte that is complete were taken.                   *)
LEMMA CharsOf ==
  ASSUME NEW n \in Nat, NEW q \in Nat, NEW i \in 0..2,
         3 * q + i < 3 * (n \div 4) + (IF n % 4 = 0 THEN 0 ELSE (n % 4) - 1)
  PROVE  4 * q + i + 2 <= n
  <1>1. n = 4 * (n \div 4) + (n % 4) /\ n % 4 \in 0..3 /\ n \div 4 \in Nat
    OBVIOUS
  <1> DEFINE m == n \div 4  r == n % 4
  <1>2. n = 4 * m + r /\ r \in 0..3 /\ m \in Nat
    BY <1>1
  <1>3. 3 * q + i < 3 * m + (IF r = 0 THEN 0 ELSE r - 1)
    OBVIOUS
  <1> HIDE DEF m, r
  <1> QED BY <1>2, <1>3

-----------------------------------------------------------------------------
(* Steps *)

LEMMA DecodeInvInit == DecodeInit => DecodeInv
  <1> SUFFICES ASSUME DecodeInit PROVE DecodeInv
    OBVIOUS
  <1>1. src \in Strings /\ Len(src) \in Nat /\ targsize \in Nat
    BY InputsAssumption DEF DecodeInit, Strings
  <1>2. DecodeType
    BY <1>1 DEF DecodeInit, DecodeType, Garbage
  <1>3. Got = << >>
    BY <1>1, StrippingIs DEF Strips, Got, DecodeInit
  <1>4. Padding = 0 /\ Taken = 0 /\ Len(Got) = 0
    BY <1>3 DEF DecodeInit, Padding, Taken
  <1>5. InPlace
    BY <1>3, <1>4 DEF InPlace, DecodeInit
  <1>6. BytesAreOfChars /\ BitsArePending
    BY DEF BytesAreOfChars, BitsArePending, DecodeInit
  <1>7. Refused
    BY DEF Refused, DecodeInit
  <1> QED BY <1>2, <1>5, <1>6, <1>7 DEF DecodeInv, Decoded

(* What is read is no character of a byte.                                 *)
LEMMA TakenStays ==
  ASSUME DecodeType, InPlace, BytesAreOfChars, BitsArePending,
         Taken' = Taken, \A k \in 1..Taken : Got'[k] = Got[k],
         UNCHANGED <<targsize, target, tarindex, state>>
  PROVE  /\ BytesAreOfChars' /\ (state # 0 => Pending' = Pending)
         /\ state # 0 => IF tarindex' < targsize' THEN target'[tarindex'] = Pending' ELSE state' # 1 /\ Pending' = 0
  <1>1. Taken \in Nat /\ state = Taken % 4
        /\ tarindex = 3 * (Taken \div 4) + (IF Taken % 4 = 0 THEN 0 ELSE (Taken % 4) - 1)
    BY DEF InPlace
  <1>2. ASSUME state # 0 PROVE Pending' = Pending
    <2>1. Taken \in 1..Taken
      BY <1>1, <1>2
    <2> QED BY <2>1 DEF Pending
  <1>3. BytesAreOfChars'
    <2> SUFFICES ASSUME NEW q \in Nat
        PROVE /\ 3 * q < tarindex => target[3 * q] = Got'[4 * q + 1] * 4 + Got'[4 * q + 2] \div 16
              /\ 3 * q + 1 < tarindex =>
                   target[3 * q + 1] = (Got'[4 * q + 2] % 16) * 16 + Got'[4 * q + 3] \div 4
              /\ 3 * q + 2 < tarindex => target[3 * q + 2] = (Got'[4 * q + 3] % 4) * 64 + Got'[4 * q + 4]
      BY DEF BytesAreOfChars
    <2>1. /\ 3 * q + 0 < tarindex => 4 * q + 2 <= Taken
          /\ 3 * q + 1 < tarindex => 4 * q + 3 <= Taken
          /\ 3 * q + 2 < tarindex => 4 * q + 4 <= Taken
      BY <1>1, CharsOf
    <2>2. \A k \in Nat : k >= 1 /\ k <= Taken => Got'[k] = Got[k]
      BY <1>1
    <2>3. /\ 3 * q < tarindex => Got'[4 * q + 1] = Got[4 * q + 1] /\ Got'[4 * q + 2] = Got[4 * q + 2]
          /\ 3 * q + 1 < tarindex => Got'[4 * q + 2] = Got[4 * q + 2] /\ Got'[4 * q + 3] = Got[4 * q + 3]
          /\ 3 * q + 2 < tarindex => Got'[4 * q + 3] = Got[4 * q + 3] /\ Got'[4 * q + 4] = Got[4 * q + 4]
      BY <2>1, <2>2, <1>1
    <2> QED BY <2>3 DEF BytesAreOfChars
  <1> QED BY <1>2, <1>3 DEF BitsArePending

LEMMA SkipSpaceKeeps == ASSUME DecodeInv, SkipSpace PROVE DecodeInv'
  <1>0. DecodeType /\ InPlace /\ BytesAreOfChars /\ BitsArePending /\ decoding \in {"chars", "pad", "end"}
    BY DEF DecodeInv, Decoded, SkipSpace
  <1>1. at' = at + 1 /\ UNCHANGED <<src, targsize, target, tarindex, state, decoding>> /\ ch = Space
    BY DEF SkipSpace
  <1>2. at \in 1..Len(src) /\ Stripping(src)[at] = Got
    BY <1>0, <1>1, GotIs, Apart
  <1>3. Got' = Got
    <2>1. at' - 1 = at
      BY <1>1, <1>2
    <2> QED BY <1>1, <1>2, <2>1 DEF Got
  <1>4. Padding' = Padding /\ Taken' = Taken
    BY <1>1, <1>3 DEF Padding, Taken
  <1>5. DecodeType'
    BY <1>0, <1>1, <1>2 DEF DecodeType
  <1>6. InPlace'
    BY <1>0, <1>1, <1>3, <1>4 DEF InPlace
  <1>7. BytesAreOfChars' /\ BitsArePending'
    BY <1>0, <1>1, <1>3, <1>4, TakenStays DEF BitsArePending
  <1> QED BY <1>0, <1>1, <1>5, <1>6, <1>7 DEF DecodeInv, Decoded, Refused

LEMMA PadKeeps ==
  ASSUME DecodeInv, PadChar \/ SecondPad, decoding' # "error"
  PROVE  DecodeInv'
  <1>0. DecodeType /\ InPlace /\ BytesAreOfChars /\ BitsArePending /\ decoding \in {"chars", "pad"} /\ ch = Pad64
    BY DEF DecodeInv, Decoded, PadChar, SecondPad, Fail
  <1>1. /\ at' = at + 1 /\ UNCHANGED <<src, targsize, target, tarindex, state>>
        /\ decoding = "chars" => state \in {2, 3} /\ decoding' = (IF state = 2 THEN "pad" ELSE "end")
        /\ decoding = "pad" => state = 2 /\ decoding' = "end"
    BY <1>0 DEF PadChar, SecondPad, Fail, DecodeType, InPlace
  <1>2. at \in 1..Len(src) /\ Stripping(src)[at] = Append(Got, Pad64) /\ Got \in Seq(Kept) /\ Pad64 \in Kept
    BY <1>0, <1>1, GotIs, Apart
  <1>3. Got' = Append(Got, Pad64)
    <2>1. at' - 1 = at
      BY <1>1, <1>2
    <2> QED BY <1>1, <1>2, <2>1 DEF Got
  <1>4. /\ Len(Got) \in Nat /\ Len(Got') = Len(Got) + 1 /\ Got'[Len(Got) + 1] = Pad64
        /\ \A k \in 1..Len(Got) : Got'[k] = Got[k]
    BY <1>2, <1>3
  <1>5. Padding' = Padding + 1 /\ Padding' \in 1..2
    BY <1>0, <1>1 DEF Padding
  <1>6. Taken' = Taken /\ Taken \in Nat /\ Taken <= Len(Got)
    <2>1. Padding \in 0..2 /\ Taken \in Nat
      BY <1>0 DEF InPlace
    <2> QED BY <1>4, <1>5, <2>1 DEF Taken
  <1>7. DecodeType'
    BY <1>0, <1>1, <1>2 DEF DecodeType
  <1>8. InPlace'
    <2>1. ASSUME NEW k \in 1..Len(Got') PROVE IF k <= Taken THEN Got'[k] \in Chars ELSE Got'[k] = Pad64
      <3>1. k \in 1..Len(Got) \/ k = Len(Got) + 1
        BY <1>4
      <3> QED BY <1>0, <1>4, <1>6, <3>1 DEF InPlace
    <2>2. /\ Padding' \in 0..2 /\ Taken' \in Nat /\ state' = Taken' % 4
          /\ tarindex' = 3 * (Taken' \div 4) + (IF state' = 0 THEN 0 ELSE state' - 1)
      BY <1>0, <1>1, <1>5, <1>6 DEF InPlace
    <2>3. /\ decoding' = "pad" => state' = 2
          /\ decoding' = "end" => state' \in {2, 3}
          /\ decoding' # "done"
      BY <1>0, <1>1
    <2>4. \A k \in 1..Len(Got') : IF k <= Taken' THEN Got'[k] \in Chars ELSE Got'[k] = Pad64
      BY <1>6, <2>1
    <2> QED BY <2>2, <2>3, <2>4 DEF InPlace
  <1>9. BytesAreOfChars' /\ BitsArePending'
    <2>1. \A k \in 1..Taken : Got'[k] = Got[k]
      BY <1>4, <1>6
    <2> QED BY <1>0, <1>1, <1>6, <2>1, TakenStays DEF BitsArePending
  <1> QED BY <1>0, <1>1, <1>7, <1>8, <1>9 DEF DecodeInv, Decoded, Refused

LEMMA EndKeeps ==
  ASSUME DecodeInv, PadEnd \/ CharsEnd, decoding' # "error"
  PROVE  DecodeInv'
  <1>0. DecodeType /\ InPlace /\ BytesAreOfChars /\ BitsArePending /\ decoding \in {"chars", "end"} /\ ch = Nul
    BY DEF DecodeInv, Decoded, PadEnd, CharsEnd, Fail
  <1>1. /\ UNCHANGED <<src, at, targsize, target, tarindex, state>> /\ decoding' = "done"
        /\ decoding = "chars" => state = 0
        /\ decoding = "end" => state \in {2, 3} /\ ~ (tarindex < targsize /\ target[tarindex] # 0)
    BY <1>0 DEF PadEnd, CharsEnd, Fail, InPlace
  <1>2. at = Len(src) + 1
    BY <1>0, GotIs
  <1>3. Got' = Got
    BY <1>1 DEF Got
  <1>4. Padding' = Padding /\ Taken' = Taken
    BY <1>0, <1>1, <1>3 DEF Padding, Taken
  <1>5. DecodeType'
    BY <1>0, <1>1 DEF DecodeType
  <1>6. InPlace'
    BY <1>0, <1>1, <1>2, <1>3, <1>4 DEF InPlace
  <1>7. state # 0 => Pending = 0
    BY <1>0, <1>1 DEF BitsArePending, InPlace
  <1>8. state = 0 => Pending' = 0
    BY <1>1 DEF Pending
  <1>9. BytesAreOfChars' /\ BitsArePending'
    BY <1>0, <1>1, <1>3, <1>4, <1>7, <1>8, TakenStays DEF BitsArePending
  <1> QED BY <1>0, <1>1, <1>5, <1>6, <1>9 DEF DecodeInv, Decoded, Refused

(* A character is taken.                                                   *)
LEMMA CharRead ==
  ASSUME DecodeInv, decoding = "chars", ch \in Chars,
         at' = at + 1, UNCHANGED <<src, targsize, decoding>>
  PROVE  /\ Taken = Len(Got) /\ Taken \in Nat /\ Padding' = 0 /\ Taken' = Taken + 1
         /\ Len(Got') = Len(Got) + 1 /\ at' \in 1..(Len(src) + 1) /\ Got'[Taken + 1] = ch
         /\ \A k \in Nat : k >= 1 /\ k <= Taken => Got'[k] = Got[k] /\ Got[k] \in Chars
  <1>0. DecodeType /\ InPlace
    BY DEF DecodeInv, Decoded
  <1>1. at \in 1..Len(src) /\ Stripping(src)[at] = Append(Got, ch) /\ Got \in Seq(Kept) /\ ch \in Kept
    BY <1>0, GotIs, Apart
  <1>2. Got' = Append(Got, ch)
    <2>1. at' - 1 = at
      BY <1>1
    <2> QED BY <1>1, <2>1 DEF Got
  <1>3. /\ Len(Got) \in Nat /\ Len(Got') = Len(Got) + 1 /\ Got'[Len(Got) + 1] = ch
        /\ \A k \in 1..Len(Got) : Got'[k] = Got[k]
    BY <1>1, <1>2
  <1>4. Padding = 0 /\ Padding' = 0
    BY DEF Padding
  <1>5. Taken = Len(Got) /\ Taken' = Taken + 1
    BY <1>3, <1>4 DEF Taken
  <1>6. \A k \in 1..Len(Got) : Got[k] \in Chars
    BY <1>0, <1>5 DEF InPlace
  <1>7. at' \in 1..(Len(src) + 1)
    BY <1>0, <1>1, GotIs
  <1> QED BY <1>3, <1>4, <1>5, <1>6, <1>7

(* The bytes that were complete stay.                                      *)
LEMMA BytesStay ==
  ASSUME DecodeInv, decoding = "chars",
         \A k \in Nat : k >= 1 /\ k <= Taken => Got'[k] = Got[k] /\ Got[k] \in Chars,
         \A k \in Nat : k < tarindex => target'[k] = target[k], NEW q \in Nat
  PROVE  /\ 3 * q < tarindex => target'[3 * q] = Got'[4 * q + 1] * 4 + Got'[4 * q + 2] \div 16
         /\ 3 * q + 1 < tarindex =>
              target'[3 * q + 1] = (Got'[4 * q + 2] % 16) * 16 + Got'[4 * q + 3] \div 4
         /\ 3 * q + 2 < tarindex => target'[3 * q + 2] = (Got'[4 * q + 3] % 4) * 64 + Got'[4 * q + 4]
  <1>1. Taken \in Nat /\ BytesAreOfChars
        /\ tarindex = 3 * (Taken \div 4) + (IF Taken % 4 = 0 THEN 0 ELSE (Taken % 4) - 1)
    BY DEF InPlace, DecodeInv, Decoded
  <1>2. /\ 3 * q + 0 < tarindex => 4 * q + 2 <= Taken
        /\ 3 * q + 1 < tarindex => 4 * q + 3 <= Taken
        /\ 3 * q + 2 < tarindex => 4 * q + 4 <= Taken
    BY <1>1, CharsOf
  <1>3. /\ 3 * q < tarindex => Got'[4 * q + 1] = Got[4 * q + 1] /\ Got'[4 * q + 2] = Got[4 * q + 2]
        /\ 3 * q + 1 < tarindex => Got'[4 * q + 2] = Got[4 * q + 2] /\ Got'[4 * q + 3] = Got[4 * q + 3]
        /\ 3 * q + 2 < tarindex => Got'[4 * q + 3] = Got[4 * q + 3] /\ Got'[4 * q + 4] = Got[4 * q + 4]
    BY <1>1, <1>2
  <1>4. /\ 3 * q < tarindex => target'[3 * q] = target[3 * q]
        /\ 3 * q + 1 < tarindex => target'[3 * q + 1] = target[3 * q + 1]
        /\ 3 * q + 2 < tarindex => target'[3 * q + 2] = target[3 * q + 2]
    OBVIOUS
  <1> QED BY <1>1, <1>3, <1>4 DEF BytesAreOfChars

LEMMA FirstCharKeeps ==
  ASSUME DecodeInv, FirstChar, decoding' # "error"
  PROVE  DecodeInv'
  <1>0. DecodeType /\ InPlace /\ decoding = "chars" /\ ch \in Chars /\ state = 0
    BY DEF DecodeInv, Decoded, FirstChar
  <1>1. /\ tarindex < targsize /\ target' = [target EXCEPT ![tarindex] = ch * 4]
        /\ state' = 1 /\ at' = at + 1 /\ UNCHANGED <<src, targsize, tarindex, decoding>>
    <2>1. tarindex \in Nat /\ targsize \in Nat
      BY <1>0, InputsAssumption DEF DecodeType
    <2> QED BY <1>0, <2>1 DEF FirstChar, Fail
  <1>2. /\ Taken = Len(Got) /\ Taken \in Nat /\ Padding' = 0 /\ Taken' = Taken + 1
        /\ Len(Got') = Len(Got) + 1 /\ at' \in 1..(Len(src) + 1) /\ Got'[Taken + 1] = ch
        /\ \A k \in Nat : k >= 1 /\ k <= Taken => Got'[k] = Got[k] /\ Got[k] \in Chars
    BY <1>0, <1>1, CharRead
  <1>3. /\ targsize \in Nat /\ tarindex \in 0..(targsize - 1)
        /\ target' \in [0..(targsize - 1) -> Nat] /\ target'[tarindex] = ch * 4
        /\ \A k \in Nat : k < tarindex => target'[k] = target[k]
    BY <1>0, <1>1, InputsAssumption DEF DecodeType, Chars
  <1>4. DecodeType'
    BY <1>0, <1>1, <1>2, <1>3 DEF DecodeType
  <1>5. InPlace'
    <2>1. ASSUME NEW k \in 1..Len(Got') PROVE k <= Taken + 1 /\ Got'[k] \in Chars
      BY <1>0, <1>2
    <2>2. Taken % 4 = 0 /\ tarindex = 3 * (Taken \div 4)
      BY <1>0 DEF InPlace
    <2>3. (Taken + 1) % 4 = 1 /\ (Taken + 1) \div 4 = Taken \div 4
      BY <1>2, <2>2
    <2> QED BY <1>0, <1>1, <1>2, <2>1, <2>2, <2>3 DEF InPlace
  <1>6. BytesAreOfChars'
    <2>1. \A q \in Nat :
            /\ 3 * q < tarindex => target'[3 * q] = Got'[4 * q + 1] * 4 + Got'[4 * q + 2] \div 16
            /\ 3 * q + 1 < tarindex =>
                 target'[3 * q + 1] = (Got'[4 * q + 2] % 16) * 16 + Got'[4 * q + 3] \div 4
            /\ 3 * q + 2 < tarindex => target'[3 * q + 2] = (Got'[4 * q + 3] % 4) * 64 + Got'[4 * q + 4]
      BY <1>0, <1>2, <1>3, BytesStay
    <2> QED BY <1>1, <2>1 DEF BytesAreOfChars
  <1>7. BitsArePending'
    <2>1. Pending' = ch * 4
      BY <1>1, <1>2 DEF Pending
    <2> QED BY <1>0, <1>1, <1>3, <2>1 DEF BitsArePending
  <1> QED BY <1>0, <1>1, <1>4, <1>5, <1>6, <1>7 DEF DecodeInv, Decoded, Refused

LEMMA NextCharKeeps ==
  ASSUME DecodeInv, NextChar, decoding' # "error"
  PROVE  DecodeInv'
  <1> DEFINE m == Taken \div 4  c == ch
  <1>0. /\ DecodeType /\ InPlace /\ BitsArePending /\ decoding = "chars" /\ ch \in Chars
        /\ state \in 1..3
    BY DEF DecodeInv, Decoded, NextChar, DecodeType
  <1>1. /\ tarindex < targsize /\ (tarindex + 1 = targsize => Begins(ch) = 0)
        /\ target' = [k \in DOMAIN target |->
                        CASE k = tarindex -> target[k] + Ends(ch)
                          [] k = tarindex + 1 /\ state # 3 -> Begins(ch)
                          [] OTHER -> target[k]]
        /\ tarindex' = tarindex + 1 /\ state' = (state + 1) % 4 /\ at' = at + 1
        /\ UNCHANGED <<src, targsize, decoding>>
    <2>1. tarindex \in Nat /\ targsize \in Nat
      BY <1>0, InputsAssumption DEF DecodeType
    <2> QED BY <1>0, <2>1 DEF NextChar, Fail
  <1>2. /\ Taken = Len(Got) /\ Taken \in Nat /\ Padding' = 0 /\ Taken' = Taken + 1
        /\ Len(Got') = Len(Got) + 1 /\ at' \in 1..(Len(src) + 1) /\ Got'[Taken + 1] = ch
        /\ \A k \in Nat : k >= 1 /\ k <= Taken => Got'[k] = Got[k] /\ Got[k] \in Chars
    BY <1>0, <1>1, CharRead
  <1>3. /\ targsize \in Nat /\ tarindex \in 0..(targsize - 1) /\ tarindex + 1 # tarindex
        /\ target \in [0..(targsize - 1) -> Nat]
    BY <1>0, <1>1, InputsAssumption DEF DecodeType
  <1>4. /\ m \in Nat /\ Taken = 4 * m + state /\ tarindex = 3 * m + state - 1
        /\ Taken >= 1 /\ Got[Taken] \in Chars
    <2>1. state = Taken % 4 /\ tarindex = 3 * (Taken \div 4) + (IF state = 0 THEN 0 ELSE state - 1)
      BY <1>0 DEF InPlace
    <2>2. Taken = 4 * (Taken \div 4) + (Taken % 4) /\ Taken \div 4 \in Nat
      BY <1>2
    <2>3. state \in 1..3 /\ Taken \in Nat
      BY <1>0, <1>2
    <2>4. m \in Nat /\ Taken = 4 * m + state /\ tarindex = 3 * m + state - 1
      BY <2>1, <2>2, <2>3
    <2> HIDE DEF m
    <2>5. Taken >= 1
      BY <2>3, <2>4
    <2>6. Got[Taken] \in Chars
      BY <1>2, <2>5
    <2> QED BY <2>4, <2>5, <2>6
  <1>5. Begins(c) \in Nat /\ Ends(c) \in Nat
    BY <1>0 DEF Begins, Ends, Chars
  <1>6. /\ target' \in [0..(targsize - 1) -> Nat]
        /\ target'[tarindex] = target[tarindex] + Ends(c)
        /\ state # 3 /\ tarindex + 1 < targsize => target'[tarindex + 1] = Begins(c)
        /\ \A k \in Nat : k < tarindex => target'[k] = target[k]
    BY <1>1, <1>3, <1>5
  <1>7. target[tarindex] = Pending
    BY <1>0, <1>1 DEF BitsArePending
  <1> HIDE DEF m, c
  <1>8. DecodeType'
    BY <1>0, <1>1, <1>2, <1>3, <1>6 DEF DecodeType
  <1>9. InPlace'
    <2>1. ASSUME NEW k \in 1..Len(Got') PROVE k <= Taken + 1 /\ Got'[k] \in Chars
      BY <1>0, <1>2
    <2>2. state' = (Taken + 1) % 4
      BY <1>0, <1>1, <1>4
    <2>3. tarindex' = 3 * ((Taken + 1) \div 4) + (IF state' = 0 THEN 0 ELSE state' - 1)
      <3>1. CASE state \in {1, 2}
        <4>1. (Taken + 1) \div 4 = m /\ state' = state + 1
          BY <1>1, <1>4, <3>1
        <4> QED BY <1>1, <1>4, <3>1, <4>1
      <3>2. CASE state = 3
        <4>1. (Taken + 1) \div 4 = m + 1 /\ state' = 0
          BY <1>1, <1>4, <3>2
        <4> QED BY <1>1, <1>4, <3>2, <4>1
      <3> QED BY <1>0, <3>1, <3>2
    <2>4. /\ Padding' \in 0..2 /\ Taken' \in Nat /\ state' = Taken' % 4
          /\ tarindex' = 3 * (Taken' \div 4) + (IF state' = 0 THEN 0 ELSE state' - 1)
      BY <1>2, <2>2, <2>3
    <2>5. \A k \in 1..Len(Got') : IF k <= Taken' THEN Got'[k] \in Chars ELSE Got'[k] = Pad64
      BY <1>2, <2>1
    <2>6. decoding' = "chars"
      BY <1>0, <1>1
    <2> QED BY <2>4, <2>5, <2>6 DEF InPlace
  <1>10. BytesAreOfChars'
    <2> SUFFICES ASSUME NEW q \in Nat
        PROVE /\ 3 * q < tarindex + 1 => target'[3 * q] = Got'[4 * q + 1] * 4 + Got'[4 * q + 2] \div 16
              /\ 3 * q + 1 < tarindex + 1 =>
                   target'[3 * q + 1] = (Got'[4 * q + 2] % 16) * 16 + Got'[4 * q + 3] \div 4
              /\ 3 * q + 2 < tarindex + 1 =>
                   target'[3 * q + 2] = (Got'[4 * q + 3] % 4) * 64 + Got'[4 * q + 4]
      BY <1>1 DEF BytesAreOfChars
    <2>1. /\ 3 * q < tarindex => target'[3 * q] = Got'[4 * q + 1] * 4 + Got'[4 * q + 2] \div 16
          /\ 3 * q + 1 < tarindex =>
               target'[3 * q + 1] = (Got'[4 * q + 2] % 16) * 16 + Got'[4 * q + 3] \div 4
          /\ 3 * q + 2 < tarindex => target'[3 * q + 2] = (Got'[4 * q + 3] % 4) * 64 + Got'[4 * q + 4]
      BY <1>0, <1>2, <1>6, BytesStay
    <2>2. CASE state = 1
      <3>1. tarindex = 3 * m /\ Taken = 4 * m + 1
        BY <1>4, <2>2
      <3>2. target'[3 * m] = Got'[4 * m + 1] * 4 + Got'[4 * m + 2] \div 16
        <4>1. Got'[4 * m + 1] = Got[Taken] /\ Got'[4 * m + 2] = c
          BY <1>2, <1>4, <3>1 DEF c
        <4> QED BY <1>6, <1>7, <2>2, <3>1, <4>1 DEF Ends, Pending
      <3>3. /\ 3 * q < tarindex + 1 => q = m \/ 3 * q < tarindex
            /\ 3 * q + 1 < tarindex + 1 => 3 * q + 1 < tarindex
            /\ 3 * q + 2 < tarindex + 1 => 3 * q + 2 < tarindex
        BY <1>4, <3>1
      <3> QED BY <2>1, <3>2, <3>3
    <2>3. CASE state = 2
      <3>1. tarindex = 3 * m + 1 /\ Taken = 4 * m + 2
        BY <1>4, <2>3
      <3>2. target'[3 * m + 1] = (Got'[4 * m + 2] % 16) * 16 + Got'[4 * m + 3] \div 4
        <4>1. Got'[4 * m + 2] = Got[Taken] /\ Got'[4 * m + 3] = c
          BY <1>2, <1>4, <3>1 DEF c
        <4> QED BY <1>6, <1>7, <2>3, <3>1, <4>1 DEF Ends, Pending
      <3>3. /\ 3 * q < tarindex + 1 => 3 * q < tarindex
            /\ 3 * q + 1 < tarindex + 1 => q = m \/ 3 * q + 1 < tarindex
            /\ 3 * q + 2 < tarindex + 1 => 3 * q + 2 < tarindex
        BY <1>4, <3>1
      <3> QED BY <2>1, <3>2, <3>3
    <2>4. CASE state = 3
      <3>1. tarindex = 3 * m + 2 /\ Taken = 4 * m + 3
        BY <1>4, <2>4
      <3>2. target'[3 * m + 2] = (Got'[4 * m + 3] % 4) * 64 + Got'[4 * m + 4]
        <4>1. Got'[4 * m + 3] = Got[Taken] /\ Got'[4 * m + 4] = c
          BY <1>2, <1>4, <3>1 DEF c
        <4> QED BY <1>6, <1>7, <2>4, <3>1, <4>1 DEF Ends, Pending
      <3>3. /\ 3 * q < tarindex + 1 => 3 * q < tarindex
            /\ 3 * q + 1 < tarindex + 1 => 3 * q + 1 < tarindex
            /\ 3 * q + 2 < tarindex + 1 => q = m \/ 3 * q + 2 < tarindex
        BY <1>4, <3>1
      <3> QED BY <2>1, <3>2, <3>3
    <2> QED BY <1>0, <2>2, <2>3, <2>4
  <1>11. BitsArePending'
    <2>1. state \in {1, 2} => Pending' = Begins(c) /\ state' = state + 1
      BY <1>0, <1>1, <1>2 DEF Pending, Begins, c
    <2>2. state = 3 => state' = 0
      BY <1>1
    <2>3. tarindex + 1 < targsize \/ Begins(c) = 0
      BY <1>1, <1>3 DEF c
    <2> QED BY <1>0, <1>1, <1>6, <2>1, <2>2, <2>3 DEF BitsArePending
  <1> QED BY <1>0, <1>1, <1>8, <1>9, <1>10, <1>11 DEF DecodeInv, Decoded, Refused

-----------------------------------------------------------------------------
(* Refusals *)

(* Where the reading is: in which group, and at which character of it.     *)
LEMMA Places ==
  ASSUME DecodeInv, decoding \in {"chars", "pad", "end"}
  PROVE  \E m \in Nat :
           /\ Taken = 4 * m + state /\ state \in 0..3 /\ Len(Got) = 4 * m + state + Padding
           /\ tarindex = 3 * m + (IF state = 0 THEN 0 ELSE state - 1)
           /\ Got \in Seq(Kept) /\ Stripped \in Seq(Kept)
           /\ Len(Got) <= Len(Stripped) /\ \A k \in 1..Len(Got) : Stripped[k] = Got[k]
           /\ \A k \in 1..Len(Got) : IF k <= Taken THEN Got[k] \in Chars ELSE Got[k] = Pad64
           /\ targsize \in Nat /\ tarindex \in 0..targsize
  <1> DEFINE m == Taken \div 4
  <1>0. DecodeType /\ InPlace
    BY DEF DecodeInv, Decoded
  <1>1. Taken \in Nat /\ state = Taken % 4 /\ Padding \in 0..2
        /\ tarindex = 3 * m + (IF state = 0 THEN 0 ELSE state - 1)
    BY <1>0 DEF InPlace
  <1>2. m \in Nat /\ Taken = 4 * m + (Taken % 4) /\ Taken % 4 \in 0..3
    BY <1>1
  <1>3. /\ Got \in Seq(Kept) /\ Stripped \in Seq(Kept)
        /\ Len(Got) <= Len(Stripped) /\ \A k \in 1..Len(Got) : Stripped[k] = Got[k]
    BY <1>0, GotIs
  <1>4. Len(Got) = Taken + Padding
    <2>1. Len(Got) \in Nat
      BY <1>3
    <2> QED BY <1>1, <2>1 DEF Taken
  <1>5. \A k \in 1..Len(Got) : IF k <= Taken THEN Got[k] \in Chars ELSE Got[k] = Pad64
    BY <1>0 DEF InPlace
  <1>6. targsize \in Nat /\ tarindex \in 0..targsize
    BY <1>0, InputsAssumption DEF DecodeType
  <1>7. Len(Got) = 4 * m + state + Padding
    <2> HIDE DEF m
    <2> QED BY <1>1, <1>2, <1>4
  <1> QED BY <1>1, <1>2, <1>3, <1>5, <1>6, <1>7

(* A next character is in its place in the string.                         *)
LEMMA NextIs ==
  ASSUME DecodeInv, ch # Nul, ch # Space
  PROVE  Len(Got) + 1 <= Len(Stripped) /\ Stripped[Len(Got) + 1] = ch
  BY GotIs DEF DecodeInv

LEMMA CharRefused ==
  ASSUME DecodeInv, FirstChar \/ NextChar, decoding' = "error", IsEncoding(Stripped)
  PROVE  Size(Stripped) > targsize
  <1>0. decoding = "chars" /\ ch \in Chars /\ Padding = 0
    BY DEF FirstChar, NextChar, Padding
  <1>1. PICK m \in Nat :
           /\ Taken = 4 * m + state /\ state \in 0..3 /\ Len(Got) = 4 * m + state + Padding
           /\ tarindex = 3 * m + (IF state = 0 THEN 0 ELSE state - 1)
           /\ Stripped \in Seq(Kept) /\ targsize \in Nat
    BY <1>0, Places
  <1> DEFINE j == state + 1  z == Size(Stripped)
  <1>2. j \in 1..4 /\ 4 * m + j <= Len(Stripped) /\ Stripped[4 * m + j] = ch
    <2>1. Len(Got) + 1 <= Len(Stripped) /\ Stripped[Len(Got) + 1] = ch
      BY <1>0, Apart, NextIs
    <2>2. Len(Got) + 1 = 4 * m + j
      BY <1>0, <1>1
    <2> QED BY <1>1, <2>1, <2>2
  <1>3. /\ z >= 3 * m + (IF j = 1 THEN 1 ELSE j - 1)
        /\ j = 2 /\ ch % 16 # 0 => z >= 3 * m + 2
        /\ j = 3 /\ ch % 4 # 0 => z >= 3 * m + 3
    <2> HIDE DEF j
    <2> QED BY <1>0, <1>1, <1>2, SizeBeyond
  <1>4. z \in Int
    BY <1>1, <1>2, SizeIs, EncodingIs
  <1>5. \/ tarindex >= targsize
        \/ (state # 0 /\ tarindex + 1 = targsize /\ Begins(ch) # 0)
    BY <1>0 DEF FirstChar, NextChar
  <1> SUFFICES z > targsize
    OBVIOUS
  <1> HIDE DEF z
  <1>6. CASE tarindex >= targsize
    BY <1>1, <1>3, <1>4, <1>6
  <1>7. CASE state # 0 /\ tarindex + 1 = targsize /\ Begins(ch) # 0
    <2>1. CASE state = 1
      <3>1. ch % 16 # 0
        BY <1>0, <1>7, <2>1 DEF Begins
      <3> QED BY <1>1, <1>3, <1>4, <1>7, <2>1, <3>1
    <2>2. CASE state = 2
      <3>1. ch % 4 # 0
        BY <1>0, <1>7, <2>2 DEF Begins
      <3> QED BY <1>1, <1>3, <1>4, <1>7, <2>2, <3>1
    <2>3. CASE state = 3
      BY <1>7, <2>3 DEF Begins
    <2> QED BY <1>1, <1>7, <2>1, <2>2, <2>3
  <1> QED BY <1>5, <1>6, <1>7

LEMMA PadRefused ==
  ASSUME DecodeInv, NonBase64 \/ PadChar \/ SecondPad \/ PadEnd \/ CharsEnd, decoding' = "error"
  PROVE  ~ IsEncoding(Stripped)
  <1> SUFFICES ASSUME IsEncoding(Stripped) PROVE FALSE
    OBVIOUS
  <1>0. decoding \in {"chars", "pad", "end"} /\ ch # Space
    BY Apart DEF NonBase64, PadChar, SecondPad, PadEnd, CharsEnd
  <1>1. PICK m \in Nat :
           /\ Taken = 4 * m + state /\ state \in 0..3 /\ Len(Got) = 4 * m + state + Padding
           /\ tarindex = 3 * m + (IF state = 0 THEN 0 ELSE state - 1)
           /\ Got \in Seq(Kept) /\ Stripped \in Seq(Kept)
           /\ Len(Got) <= Len(Stripped) /\ \A k \in 1..Len(Got) : Stripped[k] = Got[k]
           /\ \A k \in 1..Len(Got) : IF k <= Taken THEN Got[k] \in Chars ELSE Got[k] = Pad64
    BY <1>0, Places
  <1> DEFINE l == Len(Stripped)
  <1>2. /\ l \in Nat /\ l % 4 = 0
        /\ \A k \in 1..l : Stripped[k] \in Chars \/ (Stripped[k] = Pad64 /\ k \in {l - 1, l})
        /\ l > 0 /\ Stripped[l - 1] = Pad64 => Stripped[l] = Pad64 /\ Stripped[l - 2] % 16 = 0
        /\ l > 0 /\ Stripped[l - 1] # Pad64 /\ Stripped[l] = Pad64 => Stripped[l - 1] % 4 = 0
    BY <1>1, EncodingIs
  <1>3. ch # Nul => Len(Got) + 1 <= l /\ Stripped[Len(Got) + 1] = ch
    BY <1>0, NextIs
  <1>4. ch = Nul => Stripped = Got
    BY GotIs DEF DecodeInv
  <1> HIDE DEF l
  <1>5. CASE NonBase64
    <2>1. Stripped[Len(Got) + 1] = Other /\ Len(Got) + 1 \in 1..l
      BY <1>1, <1>2, <1>3, <1>5, Apart DEF NonBase64
    <2> QED BY <1>2, <2>1, Apart
  <1>6. CASE PadChar
    <2>1. ch = Pad64 /\ state \in {0, 1} /\ Padding = 0
      BY <1>6 DEF PadChar, Fail, Padding
    <2>2. Stripped[4 * m + state + 1] = Pad64 /\ 4 * m + state + 1 \in 1..l
      BY <1>1, <1>2, <1>3, <2>1, Apart
    <2>3. 4 * m + state + 1 \in {l - 1, l}
      BY <1>2, <2>2, Apart
    <2> QED BY <1>2, <2>1, <2>3
  <1>7. CASE SecondPad
    <2>1. ch # Pad64 /\ state = 2 /\ Padding = 1
      BY <1>0, <1>7 DEF SecondPad, Fail, Padding, DecodeInv, Decoded, InPlace
    <2>2. Len(Got) = 4 * m + 3 /\ Got[4 * m + 3] = Pad64 /\ Stripped[4 * m + 3] = Pad64
      BY <1>1, <2>1
    <2>3. CASE ch = Nul
      BY <1>2, <1>4, <2>2, <2>3 DEF l
    <2>4. CASE ch # Nul
      <3>1. 4 * m + 4 <= l /\ Stripped[4 * m + 4] = ch
        BY <1>3, <2>2, <2>4
      <3>2. 4 * m + 3 \in {l - 1, l}
        BY <1>2, <2>2, <3>1, Apart
      <3>3. l = 4 * m + 4 /\ l - 1 = 4 * m + 3
        BY <1>2, <3>1, <3>2
      <3> QED BY <1>2, <2>1, <2>2, <3>1, <3>3
    <2> QED BY <2>3, <2>4
  <1>8. CASE PadEnd
    <2>1. decoding = "end" /\ (ch # Nul \/ (tarindex < targsize /\ target[tarindex] # 0))
      BY <1>8 DEF PadEnd
    <2>2. state \in {2, 3} /\ Padding = 4 - state
      <3>1. state \in {2, 3}
        BY <2>1 DEF DecodeInv, Decoded, InPlace
      <3>2. Padding = (4 - state) % 4
        BY <2>1 DEF Padding
      <3> QED BY <3>1, <3>2
    <2>3. Len(Got) = 4 * m + 4 /\ Got[4 * m + 4] = Pad64 /\ Stripped[4 * m + 4] = Pad64
      BY <1>1, <2>2
    <2>4. CASE ch # Nul
      <3>1. 4 * m + 5 <= l
        BY <1>3, <2>3, <2>4
      <3>2. 4 * m + 4 \in {l - 1, l}
        BY <1>2, <2>3, <3>1, Apart
      <3> QED BY <1>2, <3>1, <3>2
    <2>5. CASE ch = Nul /\ tarindex < targsize /\ target[tarindex] # 0
      <3>1. Pending # 0
        BY <2>1, <2>2, <2>5 DEF DecodeInv, Decoded, BitsArePending
      <3>2. l = 4 * m + 4 /\ l - 1 = 4 * m + 3 /\ l - 2 = 4 * m + 2 /\ Stripped = Got
        BY <1>4, <2>3, <2>5 DEF l
      <3>3. CASE state = 2
        <4>1. Got[4 * m + 3] = Pad64 /\ Taken = 4 * m + 2
          BY <1>1, <2>3, <3>3
        <4>2. Got[Taken] % 16 = 0
          BY <1>2, <3>2, <4>1
        <4> QED BY <3>1, <3>3, <4>2 DEF Pending
      <3>4. CASE state = 3
        <4>1. Got[4 * m + 3] \in Chars /\ Taken = 4 * m + 3
          BY <1>1, <2>3, <3>4
        <4>2. Got[Taken] % 4 = 0
          BY <1>2, <2>3, <3>2, <4>1, Apart
        <4> QED BY <3>1, <3>4, <4>2 DEF Pending
      <3> QED BY <2>2, <3>3, <3>4
    <2> QED BY <2>1, <2>4, <2>5
  <1>9. CASE CharsEnd
    <2>1. state # 0 /\ ch = Nul /\ Padding = 0
      BY <1>9 DEF CharsEnd, Padding
    <2>2. l = 4 * m + state
      BY <1>1, <1>4, <2>1 DEF l
    <2> QED BY <1>1, <1>2, <2>1, <2>2
  <1> QED BY <1>5, <1>6, <1>7, <1>8, <1>9

LEMMA RefusalKeeps == ASSUME DecodeInv, DecodeStep, decoding' = "error" PROVE DecodeInv'
  <1>0. DecodeType
    BY DEF DecodeInv
  <1>1. UNCHANGED <<src, at, targsize, target, tarindex, state>> /\ decoding \in {"chars", "pad", "end"}
    BY DEF DecodeStep, SkipSpace, NonBase64, FirstChar, NextChar, PadChar, SecondPad, PadEnd, CharsEnd, Fail
  <1>2. DecodeType'
    BY <1>0, <1>1 DEF DecodeType
  <1>3. Stripped' = Stripped
    BY <1>1 DEF Stripped
  <1>4. ~ IsEncoding(Stripped) \/ Size(Stripped) > targsize
    <2>1. ~ SkipSpace
      BY <1>1 DEF SkipSpace
    <2> QED BY <2>1, CharRefused, PadRefused DEF DecodeStep
  <1>5. Refused'
    BY <1>1, <1>3, <1>4 DEF Refused
  <1> QED BY <1>2, <1>5 DEF DecodeInv, Decoded

LEMMA DecodeInvNext == DecodeInv /\ [DecodeStep]_bvars => DecodeInv'
  <1> SUFFICES ASSUME DecodeInv, [DecodeStep]_bvars PROVE DecodeInv'
    OBVIOUS
  <1>1. CASE DecodeStep /\ decoding' = "error"
    BY <1>1, RefusalKeeps
  <1>2. CASE DecodeStep /\ decoding' # "error"
    <2>1. ~ NonBase64
      BY <1>2 DEF NonBase64, Fail
    <2> QED BY <1>2, <2>1, SkipSpaceKeeps, PadKeeps, EndKeeps, FirstCharKeeps, NextCharKeeps DEF DecodeStep
  <1>3. CASE UNCHANGED bvars
    <2>1. UNCHANGED <<src, at, targsize, target, tarindex, state, decoding>>
      BY <1>3 DEF bvars
    <2>2. Got' = Got /\ Padding' = Padding /\ Stripped' = Stripped
      BY <2>1 DEF Got, Padding, Stripped
    <2>3. Taken' = Taken
      BY <2>2 DEF Taken
    <2>4. Pending' = Pending
      BY <2>1, <2>2, <2>3 DEF Pending
    <2> QED BY <2>1, <2>2, <2>3, <2>4
            DEF DecodeInv, DecodeType, Decoded, InPlace, BytesAreOfChars, BitsArePending, Refused
  <1> QED BY <1>1, <1>2, <1>3

LEMMA DecodeInvariant == DecodeSpec => []DecodeInv
  <1> QED BY DecodeInvInit, DecodeInvNext, PTL DEF DecodeSpec

-----------------------------------------------------------------------------
(* What was accepted *)

(* The characters of bytes that were put together from characters.         *)
LEMMA OneOfChars ==
  ASSUME NEW c1 \in Chars, NEW c2 \in Chars
  PROVE  LET a == c1 * 4 + c2 \div 16 IN
         /\ a \in Nat /\ a \div 4 = c1 /\ (a % 4) * 16 + (c2 % 16) = c2
  BY DEF Chars

LEMMA TwoOfChars ==
  ASSUME NEW c2 \in Chars, NEW c3 \in Chars
  PROVE  LET b == (c2 % 16) * 16 + c3 \div 4 IN
         /\ b \in Nat /\ b \div 16 = c2 % 16 /\ (b % 16) * 4 + (c3 % 4) = c3
  BY DEF Chars

LEMMA ThreeOfChars ==
  ASSUME NEW c3 \in Chars, NEW c4 \in Chars
  PROVE  LET c == (c3 % 4) * 64 + c4 IN
         /\ c \in Nat /\ c \div 64 = c3 % 4 /\ c % 64 = c4
  BY DEF Chars

LEMMA PartsAre ==
  ASSUME NEW S, NEW c \in Seq(S), NEW i \in 1..Len(c)
  PROVE  /\ SubSeq(c, i, i) = <<c[i]>>
         /\ i < Len(c) => SubSeq(c, i, i + 1) = <<c[i], c[i + 1]>>
  <1>1. SubSeq(c, i, i) \in Seq(S) /\ Len(SubSeq(c, i, i)) = 1 /\ SubSeq(c, i, i)[1] = c[i]
    OBVIOUS
  <1>2. ASSUME i < Len(c)
        PROVE  SubSeq(c, i, i + 1) = <<c[i], c[i + 1]>>
    <2> DEFINE p == SubSeq(c, i, i + 1)
    <2>1. p \in Seq(S) /\ Len(p) = 2 /\ p[1] = c[i] /\ p[2] = c[i + 1]
      <3>1. i \in Int /\ Len(c) \in Nat /\ 1 <= i /\ i + 1 <= Len(c)
        BY <1>2
      <3>2. p = [k \in 1..2 |-> c[i + k - 1]]
        BY <3>1
      <3>3. \A k \in 1..2 : c[i + k - 1] \in S
        BY <3>1
      <3> HIDE DEF p
      <3> QED BY <3>1, <3>2, <3>3
    <2> HIDE DEF p
    <2>2. p = <<p[1], p[2]>>
      BY <2>1
    <2> QED BY <2>1, <2>2 DEF p
  <1> DEFINE q == SubSeq(c, i, i)
  <1>3. q \in Seq(S) /\ Len(q) = 1 /\ q[1] = c[i]
    BY <1>1
  <1> HIDE DEF q
  <1>4. q = <<q[1]>>
    BY <1>3
  <1> QED BY <1>2, <1>3, <1>4 DEF q

LEMMA JoinIs ==
  ASSUME NEW S, NEW a \in Seq(S), NEW b \in Seq(S), NEW c \in Seq(S), Len(c) = Len(a) + Len(b),
         \A k \in 1..Len(a) : a[k] = c[k], \A k \in 1..Len(b) : b[k] = c[Len(a) + k]
  PROVE  a \o b = c
  <1>1. a \o b \in Seq(S) /\ Len(a \o b) = Len(c) /\ Len(a) \in Nat /\ Len(b) \in Nat
    OBVIOUS
  <1>2. ASSUME NEW k \in 1..Len(c) PROVE (a \o b)[k] = c[k]
    <2>1. (a \o b)[k] = IF k <= Len(a) THEN a[k] ELSE b[k - Len(a)]
      BY <1>1
    <2>2. CASE k <= Len(a)
      BY <1>1, <2>1, <2>2
    <2>3. CASE k > Len(a)
      <3>1. k - Len(a) \in 1..Len(b) /\ Len(a) + (k - Len(a)) = k
        BY <1>1, <2>3
      <3> QED BY <1>1, <2>1, <2>3, <3>1
    <2> QED BY <1>1, <2>2, <2>3
  <1> QED BY <1>1, <1>2

LEMMA FourIs ==
  ASSUME NEW S, NEW c \in Seq(S), NEW n \in Nat, Len(c) = n + 4
  PROVE  LET d == <<c[n + 1], c[n + 2], c[n + 3], c[n + 4]>> IN
         d \in Seq(S) /\ Len(d) = Len(c) - n /\ \A k \in 1..Len(d) : d[k] = c[n + k]
  <1>1. c[n + 1] \in S /\ c[n + 2] \in S /\ c[n + 3] \in S /\ c[n + 4] \in S
    OBVIOUS
  <1> QED BY <1>1

LEMMA AcceptedIsEncoding ==
  ASSUME DecodeInv, decoding = "done"
  PROVE  Encoded(Result) = Stripped
  <1> DEFINE m == Taken \div 4
  <1>0. DecodeType /\ InPlace /\ BytesAreOfChars /\ BitsArePending
    BY DEF DecodeInv, Decoded
  <1>1. /\ Taken \in Nat /\ Padding \in 0..2 /\ at = Len(src) + 1 /\ state = Taken % 4 /\ state # 1
        /\ tarindex = 3 * m + (IF state = 0 THEN 0 ELSE state - 1)
        /\ \A k \in 1..Len(Got) : IF k <= Taken THEN Got[k] \in Chars ELSE Got[k] = Pad64
    BY <1>0 DEF InPlace
  <1>2. m \in Nat /\ Taken = 4 * m + state /\ state \in {0, 2, 3}
    <2>1. Taken = 4 * m + (Taken % 4) /\ Taken % 4 \in 0..3 /\ m \in Nat
      BY <1>1
    <2> HIDE DEF m
    <2> QED BY <1>1, <2>1
  <1>3. Padding = (4 - state) % 4
    BY DEF Padding
  <1>4. Got \in Seq(Kept) /\ Stripped = Got
    <2>1. ch = Nul
      BY <1>0, <1>1, GotIs DEF ch
    <2> QED BY <1>0, <2>1, GotIs
  <1> HIDE DEF m
  <1>5. Len(Got) = IF state = 0 THEN 4 * m ELSE 4 * m + 4
    <2>1. Len(Got) \in Nat /\ Len(Got) = Taken + Padding
      BY <1>1, <1>4 DEF Taken
    <2> QED BY <1>2, <1>3, <2>1
  <1>6. \A k \in Nat : k >= 1 /\ k <= Taken => Got[k] \in Chars
    BY <1>1, <1>2, <1>5
  <1>7. /\ tarindex \in Nat /\ Result \in Seq(Nat) /\ Len(Result) = tarindex
        /\ \A k \in 0..(tarindex - 1) : Result[k + 1] = target[k]
    <2>1. target \in [0..(targsize - 1) -> Nat] /\ tarindex \in 0..targsize /\ targsize \in Nat
      BY <1>0, InputsAssumption DEF DecodeType
    <2>2. \A k \in 1..tarindex : target[k - 1] \in Nat
      BY <2>1
    <2> QED BY <2>1, <2>2 DEF Result
  <1>8. Len(Result) \div 3 = m
    BY <1>1, <1>2, <1>7
  <1> DEFINE body == [k \in 1..(4 * m) |->
                        Group(Result[3 * ((k - 1) \div 4) + 1], Result[3 * ((k - 1) \div 4) + 2],
                              Result[3 * ((k - 1) \div 4) + 3])[((k - 1) % 4) + 1]]
             last == LastGroup(SubSeq(Result, 3 * m + 1, Len(Result)))
  <1>9. Encoded(Result) = body \o last
    BY <1>8 DEF Encoded
  <1>10. ASSUME NEW k \in 1..(4 * m) PROVE body[k] = Got[k]
    <2> DEFINE q == (k - 1) \div 4  r == (k - 1) % 4
    <2>1. q \in 0..(m - 1) /\ r \in 0..3 /\ k = 4 * q + r + 1
      BY <1>2
    <2>2. body[k] = Group(Result[3 * q + 1], Result[3 * q + 2], Result[3 * q + 3])[r + 1]
      OBVIOUS
    <2> HIDE DEF q, r, body
    <2>3. q \in Nat /\ 3 * q < tarindex /\ 3 * q + 1 < tarindex /\ 3 * q + 2 < tarindex
      BY <1>1, <1>2, <2>1
    <2>4. /\ Result[3 * q + 1] = target[3 * q] /\ Result[3 * q + 2] = target[3 * q + 1]
          /\ Result[3 * q + 3] = target[3 * q + 2]
      <3>1. /\ Result[(3 * q) + 1] = target[3 * q] /\ Result[(3 * q + 1) + 1] = target[3 * q + 1]
            /\ Result[(3 * q + 2) + 1] = target[3 * q + 2]
        <4>1. /\ 3 * q \in 0..(tarindex - 1) /\ 3 * q + 1 \in 0..(tarindex - 1)
              /\ 3 * q + 2 \in 0..(tarindex - 1)
          BY <1>7, <2>3
        <4> QED BY <1>7, <4>1
      <3>2. (3 * q + 1) + 1 = 3 * q + 2 /\ (3 * q + 2) + 1 = 3 * q + 3
        BY <2>3
      <3> QED BY <3>1, <3>2
    <2>5. /\ target[3 * q] = Got[4 * q + 1] * 4 + Got[4 * q + 2] \div 16
          /\ target[3 * q + 1] = (Got[4 * q + 2] % 16) * 16 + Got[4 * q + 3] \div 4
          /\ target[3 * q + 2] = (Got[4 * q + 3] % 4) * 64 + Got[4 * q + 4]
      BY <1>0, <2>3 DEF BytesAreOfChars
    <2>6. /\ Got[4 * q + 1] \in Chars /\ Got[4 * q + 2] \in Chars
          /\ Got[4 * q + 3] \in Chars /\ Got[4 * q + 4] \in Chars
      BY <1>2, <1>6, <2>1
    <2>7. body[k] = <<Got[4 * q + 1], Got[4 * q + 2], Got[4 * q + 3], Got[4 * q + 4]>>[r + 1]
      <3>1. Group(target[3 * q], target[3 * q + 1], target[3 * q + 2])
              = <<Got[4 * q + 1], Got[4 * q + 2], Got[4 * q + 3], Got[4 * q + 4]>>
        <4> DEFINE c1 == Got[4 * q + 1]  c2 == Got[4 * q + 2]  c3 == Got[4 * q + 3]  c4 == Got[4 * q + 4]
                   a == target[3 * q]  b == target[3 * q + 1]  c == target[3 * q + 2]
        <4>1. /\ c1 \in Chars /\ c2 \in Chars /\ c3 \in Chars /\ c4 \in Chars
              /\ a = c1 * 4 + c2 \div 16 /\ b = (c2 % 16) * 16 + c3 \div 4 /\ c = (c3 % 4) * 64 + c4
          BY <2>5, <2>6
        <4> HIDE DEF a, b, c, c1, c2, c3, c4
        <4>2. a \div 4 = c1 /\ (a % 4) * 16 + (c2 % 16) = c2
          BY <4>1, OneOfChars
        <4>3. b \div 16 = c2 % 16 /\ (b % 16) * 4 + (c3 % 4) = c3
          BY <4>1, TwoOfChars
        <4>4. c \div 64 = c3 % 4 /\ c % 64 = c4
          BY <4>1, ThreeOfChars
        <4>5. Group(a, b, c) = <<c1, c2, c3, c4>>
          BY <4>2, <4>3, <4>4 DEF Group
        <4> QED BY <4>5 DEF a, b, c, c1, c2, c3, c4
      <3> QED BY <2>2, <2>4, <3>1
    <2> QED BY <2>1, <2>7
  <1>11. Len(body) = 4 * m /\ body \in Seq(Kept)
    <2>1. 4 * m \in Nat /\ 4 * m <= Len(Got)
      BY <1>2, <1>5
    <2>2. ASSUME NEW k \in 1..(4 * m) PROVE body[k] \in Kept
      <3>1. k \in 1..Len(Got)
        BY <1>4, <2>1
      <3>2. Got[k] \in Kept
        BY <1>4, <3>1
      <3> QED BY <1>10, <3>2
    <2> QED BY <2>1, <2>2
  <1>12. /\ last \in Seq(Kept) /\ Len(last) = Len(Got) - 4 * m
         /\ \A k \in 1..Len(last) : last[k] = Got[4 * m + k]
    <2>1. CASE state = 0
      <3>1. SubSeq(Result, 3 * m + 1, Len(Result)) = << >>
        BY <1>1, <1>2, <1>7, <2>1
      <3>2. last = << >>
        BY <3>1, LastGroupIs
      <3> HIDE DEF last
      <3>3. last \in Seq(Kept) /\ Len(last) = 0
        BY <3>2
      <3> QED BY <1>2, <1>5, <2>1, <3>3
    <2>2. CASE state = 2
      <3>1. SubSeq(Result, 3 * m + 1, Len(Result)) = <<target[3 * m]>>
        <4>1. tarindex = 3 * m + 1
          BY <1>1, <2>2
        <4>2. Result[3 * m + 1] = target[3 * m]
          BY <1>2, <1>7, <4>1
        <4>3. SubSeq(Result, 3 * m + 1, 3 * m + 1) = <<Result[3 * m + 1]>>
          <5>1. 3 * m + 1 \in 1..Len(Result)
            BY <1>2, <1>7, <4>1
          <5> QED BY <1>7, <5>1, PartsAre
        <4> QED BY <1>7, <4>1, <4>2, <4>3
      <3>2. target[3 * m] = Got[4 * m + 1] * 4 + Got[4 * m + 2] \div 16
        BY <1>0, <1>1, <1>2, <2>2 DEF BytesAreOfChars
      <3>3. Got[4 * m + 1] \in Chars /\ Got[4 * m + 2] \in Chars
        BY <1>2, <1>6, <2>2
      <3>4. Got[4 * m + 2] % 16 = 0
        BY <1>0, <1>2, <2>2, <3>3 DEF BitsArePending, Pending, Chars
      <3>5. Got[4 * m + 3] = Pad64 /\ Got[4 * m + 4] = Pad64
        BY <1>1, <1>2, <1>5, <2>2
      <3>6. last = <<Got[4 * m + 1], Got[4 * m + 2], Got[4 * m + 3], Got[4 * m + 4]>>
        <4> DEFINE a == target[3 * m]
        <4>1. a \in Nat /\ a \div 4 = Got[4 * m + 1] /\ (a % 4) * 16 = Got[4 * m + 2]
          <5> DEFINE c1 == Got[4 * m + 1]  c2 == Got[4 * m + 2]
          <5>1. c1 \in Chars /\ c2 \in Chars /\ c2 % 16 = 0 /\ a = c1 * 4 + c2 \div 16
            BY <3>2, <3>3, <3>4
          <5> HIDE DEF a, c1, c2
          <5>2. a \in Nat /\ a \div 4 = c1 /\ (a % 4) * 16 + (c2 % 16) = c2
            BY <5>1, OneOfChars
          <5>3. (a % 4) * 16 = c2
            BY <5>1, <5>2
          <5> QED BY <5>2, <5>3 DEF c1, c2
        <4>2. last = LastGroup(<<a>>)
          BY <3>1
        <4> HIDE DEF a, last
        <4>3. LastGroup(<<a>>) = <<a \div 4, (a % 4) * 16, Pad64, Pad64>>
          BY <4>1, LastGroupIs
        <4> QED BY <3>5, <4>1, <4>2, <4>3
      <3>7. Len(Got) = 4 * m + 4 /\ 4 * m \in Nat
        BY <1>2, <1>5, <2>2
      <3> HIDE DEF last
      <3> QED BY <1>4, <3>6, <3>7, FourIs
    <2>3. CASE state = 3
      <3>1. SubSeq(Result, 3 * m + 1, Len(Result)) = <<target[3 * m], target[3 * m + 1]>>
        <4>1. tarindex = 3 * m + 2
          BY <1>1, <2>3
        <4>2. Result[3 * m + 1] = target[3 * m] /\ Result[3 * m + 2] = target[3 * m + 1]
          <5>1. 3 * m \in 0..(tarindex - 1) /\ 3 * m + 1 \in 0..(tarindex - 1) /\ (3 * m + 1) + 1 = 3 * m + 2
            BY <1>2, <4>1
          <5> QED BY <1>7, <5>1
        <4>3. SubSeq(Result, 3 * m + 1, 3 * m + 2) = <<Result[3 * m + 1], Result[3 * m + 2]>>
          <5> DEFINE i == 3 * m + 1
          <5>1. i \in 1..Len(Result) /\ i + 1 \in 1..Len(Result) /\ i + 1 = 3 * m + 2
            BY <1>2, <1>7, <4>1
          <5> HIDE DEF i
          <5>2. SubSeq(Result, i, i + 1) = <<Result[i], Result[i + 1]>>
            <6>1. Result \in Seq(Nat) /\ i \in 1..Len(Result) /\ i < Len(Result)
              BY <1>7, <5>1
            <6> QED BY <6>1, PartsAre
          <5> QED BY <5>1, <5>2 DEF i
        <4> QED BY <1>7, <4>1, <4>2, <4>3
      <3>2. /\ target[3 * m] = Got[4 * m + 1] * 4 + Got[4 * m + 2] \div 16
            /\ target[3 * m + 1] = (Got[4 * m + 2] % 16) * 16 + Got[4 * m + 3] \div 4
        BY <1>0, <1>1, <1>2, <2>3 DEF BytesAreOfChars
      <3>3. Got[4 * m + 1] \in Chars /\ Got[4 * m + 2] \in Chars /\ Got[4 * m + 3] \in Chars
        BY <1>2, <1>6, <2>3
      <3>4. Got[4 * m + 3] % 4 = 0
        BY <1>0, <1>2, <2>3, <3>3 DEF BitsArePending, Pending, Chars
      <3>5. Got[4 * m + 4] = Pad64
        BY <1>1, <1>2, <1>5, <2>3
      <3>6. last = <<Got[4 * m + 1], Got[4 * m + 2], Got[4 * m + 3], Got[4 * m + 4]>>
        <4> DEFINE a == target[3 * m]  b == target[3 * m + 1]
        <4>1. /\ a \in Nat /\ b \in Nat /\ a \div 4 = Got[4 * m + 1]
              /\ (a % 4) * 16 + b \div 16 = Got[4 * m + 2] /\ (b % 16) * 4 = Got[4 * m + 3]
          <5> DEFINE c1 == Got[4 * m + 1]  c2 == Got[4 * m + 2]  c3 == Got[4 * m + 3]
          <5>1. /\ c1 \in Chars /\ c2 \in Chars /\ c3 \in Chars /\ c3 % 4 = 0
                /\ a = c1 * 4 + c2 \div 16 /\ b = (c2 % 16) * 16 + c3 \div 4
            BY <3>2, <3>3, <3>4
          <5> HIDE DEF a, b, c1, c2, c3
          <5>2. a \in Nat /\ a \div 4 = c1 /\ (a % 4) * 16 + (c2 % 16) = c2
            BY <5>1, OneOfChars
          <5>3. b \in Nat /\ b \div 16 = c2 % 16 /\ (b % 16) * 4 + (c3 % 4) = c3
            BY <5>1, TwoOfChars
          <5>4. (b % 16) * 4 = c3 /\ (a % 4) * 16 + b \div 16 = c2
            BY <5>1, <5>2, <5>3
          <5> QED BY <5>2, <5>3, <5>4 DEF c1, c2, c3
        <4>2. last = LastGroup(<<a, b>>)
          BY <3>1
        <4> HIDE DEF a, b, last
        <4>3. LastGroup(<<a, b>>) = <<a \div 4, (a % 4) * 16 + b \div 16, (b % 16) * 4, Pad64>>
          BY <4>1, LastGroupIs
        <4> QED BY <3>5, <4>1, <4>2, <4>3
      <3>7. Len(Got) = 4 * m + 4 /\ 4 * m \in Nat
        BY <1>2, <1>5, <2>3
      <3> HIDE DEF last
      <3> QED BY <1>4, <3>6, <3>7, FourIs
    <2> QED BY <1>2, <2>1, <2>2, <2>3
  <1> HIDE DEF body, last
  <1>13. body \o last = Got
    <2>1. Len(Got) = Len(body) + Len(last)
      <3>1. Len(Got) \in Nat /\ 4 * m \in Nat
        BY <1>2, <1>4
      <3> QED BY <1>11, <1>12, <3>1
    <2>2. \A k \in 1..Len(body) : body[k] = Got[k]
      BY <1>10, <1>11
    <2>3. \A k \in 1..Len(last) : last[k] = Got[Len(body) + k]
      BY <1>11, <1>12
    <2>4. Got \in Seq(Kept) /\ body \in Seq(Kept) /\ last \in Seq(Kept)
      BY <1>4, <1>11, <1>12
    <2> QED BY <2>1, <2>2, <2>3, <2>4, JoinIs
  <1> QED BY <1>4, <1>9, <1>13

LEMMA JoinHas ==
  ASSUME NEW S, NEW a \in Seq(S), NEW b \in Seq(S)
  PROVE  LET c == a \o b IN
         /\ c \in Seq(S) /\ Len(c) = Len(a) + Len(b)
         /\ \A k \in 1..Len(a) : c[k] = a[k]
         /\ SubSeq(c, Len(a) + 1, Len(a) + Len(b)) = b
  <1> DEFINE c == a \o b  l == Len(a)  m == Len(b)
  <1>1. c \in Seq(S) /\ Len(c) = l + m /\ l \in Nat /\ m \in Nat
    OBVIOUS
  <1>2. \A k \in 1..l : c[k] = a[k]
    OBVIOUS
  <1>3. ASSUME NEW k \in 1..m PROVE c[l + k] = b[k]
    <2>1. l + k \in 1..(l + m) /\ ~ (l + k <= l) /\ (l + k) - l = k
      BY <1>1
    <2>2. \A i \in 1..(l + m) : c[i] = IF i <= l THEN a[i] ELSE b[i - l]
      BY <1>1
    <2> HIDE DEF c, l, m
    <2> QED BY <2>1, <2>2
  <1> DEFINE d == SubSeq(c, l + 1, l + m)
  <1> HIDE DEF c, l, m
  <1>4. d = [k \in 1..m |-> c[l + k]]
    <2>1. d = [k \in 1..m |-> d[k]]
      BY <1>1
    <2>2. \A k \in 1..m : d[k] = c[l + k]
      BY <1>1
    <2> HIDE DEF d
    <2> QED BY <2>1, <2>2
  <1>5. b = [k \in 1..m |-> b[k]]
    BY DEF m
  <1>6. d = b
    BY <1>3, <1>4, <1>5
  <1> QED BY <1>1, <1>2, <1>6 DEF c, l, m

(* What b64_ntop writes: groups, and the last of them padded.              *)
LEMMA EncodedIs ==
  ASSUME NEW x \in Seq(Bytes)
  PROVE  LET e == Encoded(x)
             n == Len(x) \div 3
             r == Len(x) % 3
         IN  /\ n \in Nat /\ r \in 0..2 /\ Len(x) = 3 * n + r
             /\ e \in Seq(Kept) /\ Len(e) = 4 * n + (IF r = 0 THEN 0 ELSE 4)
             /\ \A q \in 0..(n - 1) :
                  LET g == Group(x[3 * q + 1], x[3 * q + 2], x[3 * q + 3])
                  IN  /\ e[4 * q + 1] = g[1] /\ e[4 * q + 2] = g[2] /\ e[4 * q + 3] = g[3] /\ e[4 * q + 4] = g[4]
             /\ r = 0 \/ SubSeq(e, 4 * n + 1, 4 * n + 4) = LastGroup(SubSeq(x, 3 * n + 1, Len(x)))
             /\ \A k \in 1..(4 * n) : e[k] \in Chars
             /\ r = 1 => SubSeq(x, 3 * n + 1, Len(x)) = <<x[3 * n + 1]>>
             /\ r = 2 => SubSeq(x, 3 * n + 1, Len(x)) = <<x[3 * n + 1], x[3 * n + 2]>>
  <1> DEFINE e == Encoded(x)  n == Len(x) \div 3  r == Len(x) % 3
             body == [k \in 1..(4 * n) |->
                        Group(x[3 * ((k - 1) \div 4) + 1], x[3 * ((k - 1) \div 4) + 2],
                              x[3 * ((k - 1) \div 4) + 3])[((k - 1) % 4) + 1]]
             rest == SubSeq(x, 3 * n + 1, Len(x))
             last == LastGroup(rest)
  <1>1. n \in Nat /\ r \in 0..2 /\ Len(x) = 3 * n + r /\ Len(x) \in Nat
    OBVIOUS
  <1>2. e = body \o last
    BY DEF Encoded
  <1> HIDE DEF n, r, e
  <1>3. ASSUME NEW q \in 0..(n - 1), NEW j \in 1..4
        PROVE  /\ 4 * q + j \in 1..(4 * n)
               /\ body[4 * q + j] = Group(x[3 * q + 1], x[3 * q + 2], x[3 * q + 3])[j]
               /\ body[4 * q + j] \in Chars
    <2>1. q \in Nat /\ 4 * q + j \in 1..(4 * n)
      BY <1>1
    <2>2. ((4 * q + j) - 1) \div 4 = q /\ (((4 * q + j) - 1) % 4) + 1 = j
      BY <2>1
    <2>3. body[4 * q + j] = Group(x[3 * q + 1], x[3 * q + 2], x[3 * q + 3])[j]
      BY <2>1, <2>2
    <2>4. x[3 * q + 1] \in Bytes /\ x[3 * q + 2] \in Bytes /\ x[3 * q + 3] \in Bytes
      BY <1>1
    <2> HIDE DEF body
    <2> DEFINE a == x[3 * q + 1]  b == x[3 * q + 2]  c == x[3 * q + 3]
    <2>5. a \in Bytes /\ b \in Bytes /\ c \in Bytes
      BY <2>4
    <2> HIDE DEF a, b, c
    <2>6. /\ a \div 4 \in Chars /\ (a % 4) * 16 + b \div 16 \in Chars
          /\ (b % 16) * 4 + c \div 64 \in Chars /\ c % 64 \in Chars
      BY <2>5 DEF Bytes, Chars
    <2>7. Group(a, b, c)[j] \in Chars
      BY <2>6 DEF Group
    <2> QED BY <2>1, <2>3, <2>7 DEF a, b, c
  <1>4. ASSUME NEW k \in 1..(4 * n) PROVE body[k] \in Chars
    <2> DEFINE q == (k - 1) \div 4  j == ((k - 1) % 4) + 1
    <2>1. q \in 0..(n - 1) /\ j \in 1..4 /\ k = 4 * q + j
      BY <1>1
    <2> HIDE DEF q, j, body
    <2> QED BY <1>3, <2>1
  <1>5. 4 * n \in Nat /\ body \in Seq(Kept) /\ Len(body) = 4 * n
    BY <1>1, <1>4 DEF Kept
  <1>6. /\ r = 0 => rest = << >>
        /\ r = 1 => rest = <<x[3 * n + 1]>>
        /\ r = 2 => rest = <<x[3 * n + 1], x[3 * n + 2]>>
    <2> DEFINE i == 3 * n + 1
    <2>1. i \in Nat /\ i + 1 = 3 * n + 2 /\ Len(x) = i - 1 + r /\ i >= 1
      BY <1>1
    <2>2. rest = SubSeq(x, i, Len(x))
      OBVIOUS
    <2> HIDE DEF i, rest
    <2>3. CASE r = 0
      BY <2>1, <2>2, <2>3
    <2>4. CASE r = 1
      <3>1. i \in 1..Len(x) /\ Len(x) = i
        BY <2>1, <2>4
      <3>2. SubSeq(x, i, i) = <<x[i]>>
        BY <3>1, PartsAre
      <3> QED BY <2>2, <2>4, <3>1, <3>2 DEF i
    <2>5. CASE r = 2
      <3>1. i \in 1..Len(x) /\ i < Len(x) /\ Len(x) = i + 1
        BY <2>1, <2>5
      <3>2. SubSeq(x, i, i + 1) = <<x[i], x[i + 1]>>
        BY <3>1, PartsAre
      <3>3. rest = <<x[i], x[i + 1]>>
        BY <2>2, <3>1, <3>2
      <3> QED BY <2>1, <2>5, <3>3 DEF i
    <2> QED BY <1>1, <2>3, <2>4, <2>5
  <1>7. last \in Seq(Kept) /\ Len(last) = IF r = 0 THEN 0 ELSE 4
    <2> DEFINE a == x[3 * n + 1]  b == x[3 * n + 2]
    <2>1. (r # 0 => a \in Bytes) /\ (r = 2 => b \in Bytes)
      BY <1>1
    <2>2. /\ r = 0 => rest = << >>
          /\ r = 1 => rest = <<a>>
          /\ r = 2 => rest = <<a, b>>
      BY <1>6
    <2> HIDE DEF a, b, rest
    <2>3. CASE r = 0
      <3>1. last = << >>
        BY <2>2, <2>3, LastGroupIs
      <3> HIDE DEF last
      <3> QED BY <2>3, <3>1
    <2>4. CASE r = 1
      <3>1. a \in Bytes /\ a \in Nat /\ a \div 4 \in Chars /\ (a % 4) * 16 \in Chars
        <4>1. a \in Bytes
          BY <2>1, <2>4
        <4> QED BY <4>1 DEF Bytes, Chars
      <3>2. last = <<a \div 4, (a % 4) * 16, Pad64, Pad64>>
        BY <2>2, <2>4, <3>1, LastGroupIs
      <3> HIDE DEF last
      <3> QED BY <2>4, <3>1, <3>2 DEF Kept
    <2>5. CASE r = 2
      <3>1. /\ a \in Nat /\ b \in Nat /\ a \div 4 \in Chars /\ (a % 4) * 16 + b \div 16 \in Chars
            /\ (b % 16) * 4 \in Chars
        <4>1. a \in Bytes /\ b \in Bytes
          BY <2>1, <2>5
        <4> QED BY <4>1 DEF Bytes, Chars
      <3>2. last = <<a \div 4, (a % 4) * 16 + b \div 16, (b % 16) * 4, Pad64>>
        BY <2>2, <2>5, <3>1, LastGroupIs
      <3> HIDE DEF last
      <3> QED BY <2>5, <3>1, <3>2 DEF Kept
    <2> QED BY <1>1, <2>3, <2>4, <2>5
  <1> HIDE DEF body, last
  <1>8. e \in Seq(Kept) /\ Len(e) = 4 * n + (IF r = 0 THEN 0 ELSE 4)
    <2>1. e \in Seq(Kept) /\ Len(e) = Len(body) + Len(last)
      BY <1>2, <1>5, <1>7, JoinHas
    <2> QED BY <1>5, <1>7, <2>1
  <1>9. \A k \in 1..(4 * n) : e[k] = body[k]
    <2>1. \A k \in 1..Len(body) : e[k] = body[k]
      BY <1>2, <1>5, <1>7, JoinHas
    <2> QED BY <1>5, <2>1
  <1>10. ASSUME NEW q \in 0..(n - 1)
         PROVE  LET g == Group(x[3 * q + 1], x[3 * q + 2], x[3 * q + 3])
                IN  /\ e[4 * q + 1] = g[1] /\ e[4 * q + 2] = g[2]
                    /\ e[4 * q + 3] = g[3] /\ e[4 * q + 4] = g[4]
    BY <1>3, <1>9
  <1>11. r # 0 => SubSeq(e, 4 * n + 1, 4 * n + 4) = last
    <2>1. SubSeq(e, Len(body) + 1, Len(body) + Len(last)) = last
      BY <1>2, <1>5, <1>7, JoinHas
    <2> QED BY <1>5, <1>7, <2>1
  <1> QED BY <1>1, <1>4, <1>6, <1>8, <1>9, <1>10, <1>11 DEF n, r, e, last

LEMMA WrittenIsEncoding ==
  ASSUME NEW x \in Seq(Bytes)
  PROVE  Encoded(x) \in Seq(Kept) /\ IsEncoding(Encoded(x)) /\ Size(Encoded(x)) = Len(x)
  <1> DEFINE e == Encoded(x)  n == Len(x) \div 3  r == Len(x) % 3  l == Len(e)
             rest == SubSeq(x, 3 * n + 1, Len(x))
  <1>1. /\ n \in Nat /\ r \in 0..2 /\ Len(x) = 3 * n + r
        /\ e \in Seq(Kept) /\ l = 4 * n + (IF r = 0 THEN 0 ELSE 4)
        /\ r = 0 \/ SubSeq(e, 4 * n + 1, 4 * n + 4) = LastGroup(rest)
        /\ \A k \in 1..(4 * n) : e[k] \in Chars
        /\ r = 1 => rest = <<x[3 * n + 1]>>
        /\ r = 2 => rest = <<x[3 * n + 1], x[3 * n + 2]>>
    BY EncodedIs
  <1> HIDE DEF e, n, r, rest
  <1>2. CASE r = 0
    <2>1. Range(e) \subseteq Chars /\ l = 4 * n
      BY <1>1, <1>2 DEF Range
    <2>2. IsEncoding(e)
      BY <1>1, <2>1 DEF IsEncoding
    <2>3. {k \in 1..l : e[k] = Pad64} = {}
      BY <1>1, <2>1, Apart
    <2>4. Cardinality({k \in 1..l : e[k] = Pad64}) = 0
      BY <2>3, FS_EmptySet
    <2>5. l \div 4 = n
      <3>1. n \in Nat /\ l = 4 * n
        BY <1>1, <2>1
      <3> HIDE DEF l
      <3> QED BY <3>1
    <2>6. Size(e) = 3 * n
      BY <1>1, <2>4, <2>5 DEF Size
    <2> QED BY <1>1, <1>2, <2>2, <2>6 DEF e
  <1>3. CASE r \in {1, 2}
    <2> DEFINE a == x[3 * n + 1]  b == x[3 * n + 2]  g == SubSeq(e, l - 3, l)
    <2>1. /\ l = 4 * n + 4 /\ l - 4 = 4 * n /\ l - 3 = 4 * n + 1
          /\ l \in Nat
      BY <1>1, <1>3
    <2>2. g = LastGroup(rest)
      BY <1>1, <1>3, <2>1
    <2>3. /\ a \in Bytes /\ (r = 2 => b \in Bytes)
          /\ r = 1 => rest = <<a>>
          /\ r = 2 => rest = <<a, b>>
      BY <1>1, <1>3
    <2>4. rest \in {<<c>> : c \in Bytes} \cup (Bytes \X Bytes)
      BY <1>1, <1>3, <2>3
    <2>5. g \in LastGroups
      BY <2>2, <2>4 DEF LastGroups
    <2>6. Range(SubSeq(e, 1, l - 4)) \subseteq Chars
      <3> DEFINE h == SubSeq(e, 1, l - 4)
      <3>1. DOMAIN h = 1..(4 * n) /\ \A k \in 1..(4 * n) : h[k] = e[k]
        BY <1>1, <2>1
      <3> HIDE DEF h
      <3>2. Range(h) \subseteq Chars
        BY <1>1, <3>1 DEF Range
      <3> QED BY <3>2 DEF h
    <2>7. l % 4 = 0 /\ l \div 4 = n + 1 /\ l > 0
      BY <1>1, <2>1
    <2>8. IsEncoding(e)
      BY <2>5, <2>6, <2>7 DEF IsEncoding
    <2>9. g[3] = e[l - 1] /\ g[4] = e[l]
      BY <1>1, <2>1
    <2>10. Size(e) = 3 * (n + 1) - (IF e[l] = Pad64 THEN IF e[l - 1] = Pad64 THEN 2 ELSE 1 ELSE 0)
      BY <1>1, <2>7, <2>8, SizeIs
    <2>11. e[l] = Pad64 /\ (e[l - 1] = Pad64 <=> r = 1)
      <3> HIDE DEF a, b, g
      <3>1. CASE r = 1
        <4>1. rest = <<a>> /\ a \in Nat
          BY <2>3, <3>1 DEF Bytes
        <4>2. g = <<a \div 4, (a % 4) * 16, Pad64, Pad64>>
          BY <2>2, <4>1, LastGroupIs
        <4> QED BY <2>9, <3>1, <4>2
      <3>2. CASE r = 2
        <4>1a. rest = <<a, b>>
          BY <2>3, <3>2
        <4>1b. a \in Bytes /\ b \in Bytes
          BY <2>3, <3>2
        <4>1. rest = <<a, b>> /\ a \in Nat /\ b \in Nat /\ b \in Bytes
          BY <4>1a, <4>1b, ByteIsNat
        <4>2. g = <<a \div 4, (a % 4) * 16 + b \div 16, (b % 16) * 4, Pad64>>
          BY <2>2, <4>1, LastGroupIs
        <4>3. (b % 16) * 4 \in Chars
          BY <4>1 DEF Bytes, Chars
        <4> QED BY <2>9, <3>2, <4>2, <4>3, Apart
      <3> QED BY <1>3, <3>1, <3>2
    <2>12. Size(e) = 3 * n + r
      BY <1>1, <1>3, <2>10, <2>11
    <2> QED BY <1>1, <2>8, <2>12 DEF e
  <1> QED BY <1>1, <1>2, <1>3

LEMMA GroupOnce ==
  ASSUME NEW a \in Bytes, NEW b \in Bytes, NEW c \in Bytes, NEW d \in Bytes, NEW e \in Bytes, NEW f \in Bytes
  PROVE  /\ a \div 4 = d \div 4 /\ (a % 4) * 16 + b \div 16 = (d % 4) * 16 + e \div 16 => a = d
         /\ a = d /\ (a % 4) * 16 + b \div 16 = (d % 4) * 16 + e \div 16
              /\ (b % 16) * 4 + c \div 64 = (e % 16) * 4 + f \div 64 => b = e
         /\ b = e /\ (b % 16) * 4 + c \div 64 = (e % 16) * 4 + f \div 64 /\ c % 64 = f % 64 => c = f
  <1> USE DEF Bytes
  <1>1. a = 4 * (a \div 4) + (a % 4) /\ d = 4 * (d \div 4) + (d % 4) /\ a % 4 \in 0..3 /\ d % 4 \in 0..3
    OBVIOUS
  <1>2. b = 16 * (b \div 16) + (b % 16) /\ e = 16 * (e \div 16) + (e % 16) /\ b \div 16 \in 0..15 /\ e \div 16 \in 0..15
    OBVIOUS
  <1>3. c = 64 * (c \div 64) + (c % 64) /\ f = 64 * (f \div 64) + (f % 64) /\ c \div 64 \in 0..3 /\ f \div 64 \in 0..3
    OBVIOUS
  <1>4. b % 16 \in 0..15 /\ e % 16 \in 0..15
    OBVIOUS
  <1> QED BY <1>1, <1>2, <1>3, <1>4

(* Different bytes are never written alike.                                *)
LEMMA EncodedOnce ==
  ASSUME NEW x \in Seq(Bytes), NEW y \in Seq(Bytes), Encoded(x) = Encoded(y)
  PROVE  x = y
  <1> DEFINE e == Encoded(x)  n == Len(x) \div 3  r == Len(x) % 3
  <1>1. Len(y) = Len(x) /\ Len(x) \in Nat
    BY WrittenIsEncoding
  <1>2. /\ n \in Nat /\ r \in 0..2 /\ Len(x) = 3 * n + r
        /\ \A q \in 0..(n - 1) :
             LET g == Group(x[3 * q + 1], x[3 * q + 2], x[3 * q + 3])
             IN  /\ e[4 * q + 1] = g[1] /\ e[4 * q + 2] = g[2] /\ e[4 * q + 3] = g[3] /\ e[4 * q + 4] = g[4]
        /\ r = 0 \/ SubSeq(e, 4 * n + 1, 4 * n + 4) = LastGroup(SubSeq(x, 3 * n + 1, Len(x)))
        /\ r = 1 => SubSeq(x, 3 * n + 1, Len(x)) = <<x[3 * n + 1]>>
        /\ r = 2 => SubSeq(x, 3 * n + 1, Len(x)) = <<x[3 * n + 1], x[3 * n + 2]>>
    BY EncodedIs
  <1>3. /\ \A q \in 0..(n - 1) :
             LET g == Group(y[3 * q + 1], y[3 * q + 2], y[3 * q + 3])
             IN  /\ e[4 * q + 1] = g[1] /\ e[4 * q + 2] = g[2] /\ e[4 * q + 3] = g[3] /\ e[4 * q + 4] = g[4]
        /\ r = 0 \/ SubSeq(e, 4 * n + 1, 4 * n + 4) = LastGroup(SubSeq(y, 3 * n + 1, Len(x)))
        /\ r = 1 => SubSeq(y, 3 * n + 1, Len(x)) = <<y[3 * n + 1]>>
        /\ r = 2 => SubSeq(y, 3 * n + 1, Len(x)) = <<y[3 * n + 1], y[3 * n + 2]>>
    <2> DEFINE f == Encoded(y)  m == Len(y) \div 3  u == Len(y) % 3
    <2>1. /\ \A q \in 0..(m - 1) :
               LET g == Group(y[3 * q + 1], y[3 * q + 2], y[3 * q + 3])
               IN  /\ f[4 * q + 1] = g[1] /\ f[4 * q + 2] = g[2] /\ f[4 * q + 3] = g[3] /\ f[4 * q + 4] = g[4]
          /\ u = 0 \/ SubSeq(f, 4 * m + 1, 4 * m + 4) = LastGroup(SubSeq(y, 3 * m + 1, Len(y)))
          /\ u = 1 => SubSeq(y, 3 * m + 1, Len(y)) = <<y[3 * m + 1]>>
          /\ u = 2 => SubSeq(y, 3 * m + 1, Len(y)) = <<y[3 * m + 1], y[3 * m + 2]>>
      BY EncodedIs
    <2>2. f = e /\ m = n /\ u = r
      BY <1>1
    <2> HIDE DEF e, n, r, f, m, u
    <2> QED BY <1>1, <2>1, <2>2
  <1> DEFINE last == SubSeq(e, 4 * n + 1, 4 * n + 4)
             xs == SubSeq(x, 3 * n + 1, Len(x))
             ys == SubSeq(y, 3 * n + 1, Len(x))
  <1> HIDE DEF last, xs, ys
  <1>3a. r # 0 => LastGroup(xs) = LastGroup(ys)
    <2>1. r # 0 => last = LastGroup(xs)
      BY <1>2 DEF last, xs
    <2>2. r # 0 => last = LastGroup(ys)
      BY <1>3 DEF last, ys
    <2> QED BY <2>1, <2>2
  <1>3b. (r = 1 => xs = <<x[3 * n + 1]>>) /\ (r = 2 => xs = <<x[3 * n + 1], x[3 * n + 2]>>)
    BY <1>2 DEF xs
  <1>3c. (r = 1 => ys = <<y[3 * n + 1]>>) /\ (r = 2 => ys = <<y[3 * n + 1], y[3 * n + 2]>>)
    BY <1>3 DEF ys
  <1> HIDE DEF e, n, r
  <1>4. \A k \in 1..Len(x) : x[k] \in Bytes /\ y[k] \in Bytes
    BY <1>1
  <1>5. ASSUME NEW q \in 0..(n - 1)
        PROVE  x[3 * q + 1] = y[3 * q + 1] /\ x[3 * q + 2] = y[3 * q + 2] /\ x[3 * q + 3] = y[3 * q + 3]
    <2> DEFINE a == x[3 * q + 1]  b == x[3 * q + 2]  c == x[3 * q + 3]
               d == y[3 * q + 1]  f == y[3 * q + 2]  g == y[3 * q + 3]
    <2>1. 3 * q + 1 \in 1..Len(x) /\ 3 * q + 2 \in 1..Len(x) /\ 3 * q + 3 \in 1..Len(x)
      BY <1>2
    <2>2. a \in Bytes /\ b \in Bytes /\ c \in Bytes /\ d \in Bytes /\ f \in Bytes /\ g \in Bytes
      BY <1>4, <2>1
    <2>3. /\ Group(a, b, c)[1] = Group(d, f, g)[1] /\ Group(a, b, c)[2] = Group(d, f, g)[2]
          /\ Group(a, b, c)[3] = Group(d, f, g)[3] /\ Group(a, b, c)[4] = Group(d, f, g)[4]
      BY <1>2, <1>3
    <2> HIDE DEF a, b, c, d, f, g
    <2>4. /\ a \div 4 = d \div 4 /\ (a % 4) * 16 + b \div 16 = (d % 4) * 16 + f \div 16
          /\ (b % 16) * 4 + c \div 64 = (f % 16) * 4 + g \div 64 /\ c % 64 = g % 64
      BY <2>3 DEF Group
    <2>5. a = d
      BY <2>2, <2>4, GroupOnce
    <2>6. b = f
      BY <2>2, <2>4, <2>5, GroupOnce
    <2>7. c = g
      BY <2>2, <2>4, <2>6, GroupOnce
    <2> QED BY <2>5, <2>6, <2>7 DEF a, b, c, d, f, g
  <1>6. /\ r \in {1, 2} => x[3 * n + 1] = y[3 * n + 1]
        /\ r = 2 => x[3 * n + 2] = y[3 * n + 2]
    <2> DEFINE a == x[3 * n + 1]  b == x[3 * n + 2]  d == y[3 * n + 1]  f == y[3 * n + 2]
    <2>1. CASE r = 1
      <3>1. 3 * n + 1 \in 1..Len(x)
        BY <1>2, <2>1
      <3>2. a \in Bytes /\ d \in Bytes
        BY <1>4, <3>1
      <3>3. LastGroup(<<a>>) = LastGroup(<<d>>)
        BY <1>3a, <1>3b, <1>3c, <2>1
      <3> HIDE DEF a, d
      <3>4. a \in Nat /\ d \in Nat
        BY <3>2 DEF Bytes
      <3>5. <<a \div 4, (a % 4) * 16, Pad64, Pad64>> = <<d \div 4, (d % 4) * 16, Pad64, Pad64>>
        BY <3>3, <3>4, LastGroupIs
      <3>6. a \div 4 = d \div 4 /\ (a % 4) * 16 = (d % 4) * 16
        BY <3>5
      <3>7. a = d
        BY <3>2, <3>6 DEF Bytes
      <3> QED BY <2>1, <3>7 DEF a, d
    <2>2. CASE r = 2
      <3>1. 3 * n + 1 \in 1..Len(x) /\ 3 * n + 2 \in 1..Len(x)
        BY <1>2, <2>2
      <3>2. a \in Bytes /\ d \in Bytes /\ b \in Bytes /\ f \in Bytes
        BY <1>4, <3>1
      <3>3. LastGroup(<<a, b>>) = LastGroup(<<d, f>>)
        <4>1. xs = <<a, b>> /\ ys = <<d, f>>
          BY <1>3b, <1>3c, <2>2
        <4>2. LastGroup(xs) = LastGroup(ys)
          BY <1>3a, <2>2
        <4> HIDE DEF a, b, d, f
        <4> QED BY <4>1, <4>2
      <3> HIDE DEF a, b, d, f
      <3>4. a \in Nat /\ d \in Nat /\ b \in Nat /\ f \in Nat
        BY <3>2 DEF Bytes
      <3>5. <<a \div 4, (a % 4) * 16 + b \div 16, (b % 16) * 4, Pad64>>
            = <<d \div 4, (d % 4) * 16 + f \div 16, (f % 16) * 4, Pad64>>
        <4>1. LastGroup(<<a, b>>) = <<a \div 4, (a % 4) * 16 + b \div 16, (b % 16) * 4, Pad64>>
          BY <3>4, LastGroupIs
        <4>2. LastGroup(<<d, f>>) = <<d \div 4, (d % 4) * 16 + f \div 16, (f % 16) * 4, Pad64>>
          BY <3>4, LastGroupIs
        <4> QED BY <3>3, <4>1, <4>2
      <3>6. /\ a \div 4 = d \div 4 /\ (a % 4) * 16 + b \div 16 = (d % 4) * 16 + f \div 16
            /\ (b % 16) * 4 = (f % 16) * 4
        BY <3>5
      <3>7. a = d
        BY <3>2, <3>6, GroupOnce
      <3>8. b = f
        BY <3>2, <3>6, <3>7 DEF Bytes
      <3> QED BY <2>2, <3>7, <3>8 DEF a, b, d, f
    <2> QED BY <2>1, <2>2
  <1>7. ASSUME NEW k \in 1..Len(x) PROVE x[k] = y[k]
    <2> DEFINE q == (k - 1) \div 3  j == (k - 1) % 3
    <2>1. q \in Nat /\ j \in 0..2 /\ k = 3 * q + j + 1
      BY <1>1
    <2> HIDE DEF q, j
    <2>2. q <= n /\ (q = n => j < r)
      BY <1>2, <2>1
    <2>3. CASE q < n
      <3>1. q \in 0..(n - 1)
        BY <1>2, <2>1, <2>3
      <3>2. x[3 * q + 1] = y[3 * q + 1] /\ x[3 * q + 2] = y[3 * q + 2] /\ x[3 * q + 3] = y[3 * q + 3]
        BY <1>5, <3>1
      <3>3. k = 3 * q + 1 \/ k = 3 * q + 2 \/ k = 3 * q + 3
        BY <2>1
      <3> QED BY <3>2, <3>3
    <2>4. CASE q = n
      <3>1. (k = 3 * n + 1 /\ r \in {1, 2}) \/ (k = 3 * n + 2 /\ r = 2)
        BY <1>2, <2>1, <2>2, <2>4
      <3> QED BY <1>6, <3>1
    <2> QED BY <1>2, <2>1, <2>2, <2>3, <2>4
  <1> QED BY <1>1, <1>7

LEMMA BytesOfChars ==
  ASSUME NEW c1 \in Chars, NEW c2 \in Chars, NEW c3 \in Chars, NEW c4 \in Chars
  PROVE  /\ c1 * 4 + c2 \div 16 \in Bytes /\ (c2 % 16) * 16 + c3 \div 4 \in Bytes
         /\ (c3 % 4) * 64 + c4 \in Bytes
  BY DEF Chars, Bytes

LEMMA ResultIsBytes ==
  ASSUME DecodeInv, decoding = "done"
  PROVE  Result \in Seq(Bytes)
  <1>1. DecodeType /\ InPlace /\ BytesAreOfChars
    BY DEF DecodeInv, Decoded
  <1>2. /\ Taken \in Nat /\ tarindex \in Nat
        /\ tarindex = 3 * (Taken \div 4) + (IF Taken % 4 = 0 THEN 0 ELSE (Taken % 4) - 1)
        /\ \A k \in 1..Len(Got) : k <= Taken => Got[k] \in Chars
        /\ Taken <= Len(Got) /\ Len(Got) \in Nat
    <2>1. Got \in Seq(Kept) /\ Len(Got) \in Nat
      BY <1>1, GotIs
    <2>2. targsize \in Nat /\ tarindex \in Nat
      BY <1>1, InputsAssumption DEF DecodeType
    <2>3. Taken \in Nat /\ Padding \in 0..2 /\ state = Taken % 4
      BY <1>1 DEF InPlace
    <2>4. Taken <= Len(Got)
      <3>1. Taken = Len(Got) - Padding
        BY DEF Taken
      <3> QED BY <2>1, <2>3, <3>1
    <2>5. tarindex = 3 * (Taken \div 4) + (IF state = 0 THEN 0 ELSE state - 1)
      BY <1>1 DEF InPlace
    <2>6. \A k \in 1..Len(Got) : k <= Taken => Got[k] \in Chars
      BY <1>1 DEF InPlace
    <2> QED BY <2>1, <2>2, <2>3, <2>4, <2>5, <2>6
  <1>3. \A k \in 1..Taken : Got[k] \in Chars
    BY <1>2
  <1>4. ASSUME NEW j \in 0..(tarindex - 1)
        PROVE  target[j] \in Bytes
    <2> DEFINE q == j \div 3  i == j % 3
    <2>1. q \in Nat /\ i \in 0..2 /\ j = 3 * q + i
      BY <1>2
    <2> HIDE DEF q, i
    <2>2. 4 * q + i + 2 <= Taken
      BY <1>2, <2>1, CharsOf
    <2>3. Got[4 * q + i + 1] \in Chars /\ Got[4 * q + i + 2] \in Chars
      BY <1>2, <1>3, <2>1, <2>2
    <2>4. CASE i = 0
      <3>1. target[j] = Got[4 * q + 1] * 4 + Got[4 * q + 2] \div 16
        BY <1>1, <1>2, <2>1, <2>4 DEF BytesAreOfChars
      <3>2. Got[4 * q + 1] \in Chars /\ Got[4 * q + 2] \in Chars
        BY <2>1, <2>3, <2>4
      <3> QED BY <3>1, <3>2, BytesOfChars
    <2>5. CASE i = 1
      <3>1. target[j] = (Got[4 * q + 2] % 16) * 16 + Got[4 * q + 3] \div 4
        BY <1>1, <1>2, <2>1, <2>5 DEF BytesAreOfChars
      <3>2. Got[4 * q + 2] \in Chars /\ Got[4 * q + 3] \in Chars
        BY <2>1, <2>3, <2>5
      <3> QED BY <3>1, <3>2, BytesOfChars
    <2>6. CASE i = 2
      <3>1. target[j] = (Got[4 * q + 3] % 4) * 64 + Got[4 * q + 4]
        BY <1>1, <1>2, <2>1, <2>6 DEF BytesAreOfChars
      <3>2. Got[4 * q + 3] \in Chars /\ Got[4 * q + 4] \in Chars
        BY <2>1, <2>3, <2>6
      <3> QED BY <3>1, <3>2, BytesOfChars
    <2> QED BY <2>1, <2>4, <2>5, <2>6
  <1> QED BY <1>2, <1>4 DEF Result

(* b64_pton reads what b64_ntop wrote, if the target has room for it, and  *)
(* accepts nothing but the one encoding of the bytes that it returns.      *)
THEOREM OneEncodingIsRead == DecodeSpec => []DecodesExactly
  <1>1. DecodeInv => DecodesExactly
    BY AcceptedIsEncoding DEF DecodesExactly, DecodeInv, Refused
  <1> QED BY <1>1, DecodeInvariant, PTL

(* Keys and signatures survive their encoding: whatever bytes b64_ntop     *)
(* wrote, with whitespace anywhere (line breaks), b64_pton never refuses if*)
(* the target has room for them, and what it returns are those bytes.      *)
ReadBack ==
  \A bytes \in Seq(Bytes) : Stripped = Encoded(bytes) /\ Len(bytes) <= targsize =>
    /\ decoding # "error"
    /\ decoding = "done" => Result = bytes

THEOREM WrittenIsRead == DecodeSpec => []ReadBack
  <1>1. DecodeInv => ReadBack
    <2> SUFFICES ASSUME DecodeInv,
                        NEW bytes \in Seq(Bytes), Stripped = Encoded(bytes), Len(bytes) <= targsize
                 PROVE  decoding # "error" /\ (decoding = "done" => Result = bytes)
      BY DEF ReadBack
    <2>1. IsEncoding(Stripped) /\ Size(Stripped) = Len(bytes)
      BY WrittenIsEncoding
    <2>2. decoding # "error"
      <3>1. targsize \in Nat /\ Len(bytes) \in Nat
        BY InputsAssumption DEF DecodeInv, DecodeType
      <3> QED BY <2>1, <3>1 DEF DecodeInv, Refused
    <2>3. ASSUME decoding = "done" PROVE Result = bytes
      <3>1. Encoded(Result) = Encoded(bytes)
        BY <2>3, AcceptedIsEncoding
      <3>2. Result \in Seq(Bytes)
        BY <2>3, ResultIsBytes
      <3> QED BY <3>1, <3>2, EncodedOnce
    <2> QED BY <2>2, <2>3
  <1> QED BY <1>1, DecodeInvariant, PTL

-----------------------------------------------------------------------------
(* Products and remainders.                                                *)
LEMMA NextMultiple ==
  ASSUME NEW b \in Nat, NEW p \in Nat, NEW q \in Nat, p < q
  PROVE  b * p + b <= b * q
  <1>1. PICK d \in Nat : q = p + 1 + d
    <2>1. q - p - 1 \in Nat /\ q = p + 1 + (q - p - 1)
      OBVIOUS
    <2> QED BY <2>1
  <1>2. b * q = b * p + b + b * d /\ b * d \in Nat /\ b * p \in Nat
    BY <1>1
  <1> QED BY <1>2

LEMMA DivMod ==
  ASSUME NEW n \in Nat, NEW b \in Nat \ {0}
  PROVE  n = b * (n \div b) + (n % b) /\ n % b \in 0..(b - 1) /\ n \div b \in Nat
  <1> DEFINE x == n \div b
             y == n % b
  <1>1. y \in 0..(b - 1) /\ n = b * x + y /\ x \in Int
    OBVIOUS
  <1> HIDE DEF x, y
  <1>2. ~ (x < 0)
    <2> SUFFICES ASSUME x < 0 PROVE FALSE
      OBVIOUS
    <2>1. -x - 1 \in Nat /\ x = -1 - (-x - 1)
      BY <1>1
    <2>2. b * (-x - 1) \in Nat /\ b * x = -b - b * (-x - 1)
      BY <2>1
    <2> QED BY <1>1, <2>2
  <1>3. x \in Nat
    BY <1>1, <1>2
  <1> QED BY <1>1, <1>3 DEF x, y

LEMMA DivModIs ==
  ASSUME NEW n \in Nat, NEW b \in Nat \ {0}, NEW q \in Nat, NEW r \in 0..(b - 1), n = b * q + r
  PROVE  n \div b = q /\ n % b = r
  <1> DEFINE x == n \div b
             y == n % b
  <1>1. n = b * x + y /\ y \in 0..(b - 1) /\ x \in Nat
    BY DivMod
  <1> HIDE DEF x, y
  <1>2. b * x \in Nat /\ b * q \in Nat
    BY <1>1
  <1>3. ~ (x < q)
    <2> SUFFICES ASSUME x < q PROVE FALSE
      OBVIOUS
    <2>1. b * x + b <= b * q
      BY <1>1, NextMultiple
    <2> QED BY <1>1, <1>2, <2>1
  <1>4. ~ (q < x)
    <2> SUFFICES ASSUME q < x PROVE FALSE
      OBVIOUS
    <2>1. b * q + b <= b * x
      BY <1>1, NextMultiple
    <2> QED BY <1>1, <1>2, <2>1
  <1>5. q = x
    BY <1>1, <1>3, <1>4
  <1>6. r = y
    BY <1>1, <1>2, <1>5
  <1> QED BY <1>5, <1>6 DEF x, y

LEMMA ModSum ==
  ASSUME NEW l \in Nat, NEW n \in Nat, NEW b \in Nat \ {0}
  PROVE  /\ (l + n) % b = ((l % b) + n) % b
         /\ (l + n) \div b = l \div b + ((l % b) + n) \div b
  <1> DEFINE q == l \div b
             r == l % b
             x == (r + n) \div b
             y == (r + n) % b
  <1>1. l = b * q + r /\ r \in 0..(b - 1) /\ q \in Nat
    BY DivMod
  <1>2. r + n \in Nat
    BY <1>1
  <1>3. r + n = b * x + y /\ y \in 0..(b - 1) /\ x \in Nat
    <2> HIDE DEF r
    <2> QED BY <1>2, DivMod
  <1> HIDE DEF q, r, x, y
  <1>4. b * (q + x) = b * q + b * x /\ b * q \in Nat /\ b * x \in Nat /\ q + x \in Nat
    BY <1>1, <1>3
  <1>5. l + n = b * (q + x) + y /\ l + n \in Nat
    BY <1>1, <1>3, <1>4
  <1>6. (l + n) \div b = q + x /\ (l + n) % b = y
    BY <1>3, <1>4, <1>5, DivModIs
  <1> QED BY <1>6 DEF q, r, x, y

LEMMA ModPlus ==
  ASSUME NEW l \in Nat, NEW n \in Nat, NEW b \in Nat \ {0}
  PROVE  (l + n) % b = ((l % b) + n) % b
  BY ModSum

-----------------------------------------------------------------------------
(* Recursive functions: there is one for every first value and step, and   *)
(* its values are where the steps stay.                                    *)
Runs(g, c, step, n) == g[0] = c /\ \A k \in 1..n : g[k] = step[<<k, g[k - 1]>>]

LEMMA RunsOnce ==
  ASSUME NEW c, NEW step, NEW n \in Nat, NEW g, NEW h, Runs(g, c, step, n), Runs(h, c, step, n)
  PROVE  \A k \in 0..n : g[k] = h[k]
  <1> DEFINE T == {k \in Nat : k <= n => g[k] = h[k]}
  <1>1. 0 \in T
    BY DEF Runs
  <1>2. ASSUME NEW k \in Nat, k \in T PROVE k + 1 \in T
    <2> SUFFICES ASSUME k + 1 <= n PROVE g[k + 1] = h[k + 1]
      OBVIOUS
    <2>1. k + 1 \in 1..n /\ (k + 1) - 1 = k /\ g[k] = h[k]
      BY <1>2
    <2> QED BY <2>1 DEF Runs
  <1> HIDE DEF T
  <1>3. Nat \subseteq T
    BY <1>1, <1>2, NatInSet
  <1> QED BY <1>3 DEF T

Recursion(f, S, c, step) ==
  f \in [Nat -> S] /\ f[0] = c /\ \A n \in Nat : f[n + 1] = step[<<n + 1, f[n]>>]

LEMMA RecursionExists ==
  ASSUME NEW S, NEW c \in S, NEW step \in [Nat \X S -> S]
  PROVE  \E f : Recursion(f, S, c, step)
  <1> DEFINE T == {n \in Nat : \E g \in [0..n -> S] : Runs(g, c, step, n)}
  <1>1. 0 \in T
    <2> DEFINE g == [k \in 0..0 |-> c]
    <2>1. g \in [0..0 -> S] /\ Runs(g, c, step, 0)
      BY DEF Runs
    <2> QED BY <2>1
  <1>2. ASSUME NEW n \in Nat, n \in T PROVE n + 1 \in T
    <2>1. PICK g \in [0..n -> S] : Runs(g, c, step, n)
      BY <1>2
    <2> DEFINE h == [k \in 0..(n + 1) |-> IF k = n + 1 THEN step[<<n + 1, g[n]>>] ELSE g[k]]
    <2>2. g[n] \in S /\ step[<<n + 1, g[n]>>] \in S
      <3>1. g[n] \in S
        OBVIOUS
      <3>2. <<n + 1, g[n]>> \in Nat \X S
        BY <3>1
      <3> QED BY <3>1, <3>2
    <2>3. h \in [0..(n + 1) -> S]
      BY <2>2
    <2>4. h[0] = c
      BY <2>1 DEF Runs
    <2>5. ASSUME NEW k \in 1..(n + 1) PROVE h[k] = step[<<k, h[k - 1]>>]
      <3>1. CASE k = n + 1
        <4>1. h[k] = step[<<n + 1, g[n]>>] /\ h[k - 1] = g[n]
          BY <3>1
        <4> QED BY <3>1, <4>1
      <3>2. CASE k # n + 1
        <4>1. k \in 1..n /\ h[k] = g[k] /\ h[k - 1] = g[k - 1]
          BY <3>2
        <4> HIDE DEF h
        <4> QED BY <2>1, <4>1 DEF Runs
      <3> QED BY <3>1, <3>2
    <2> HIDE DEF h
    <2>6. Runs(h, c, step, n + 1)
      BY <2>4, <2>5 DEF Runs
    <2> QED BY <2>3, <2>6
  <1>3. Nat \subseteq T
    <2> HIDE DEF T
    <2> QED BY <1>1, <1>2, NatInSet
  <1> DEFINE runs == [n \in Nat |-> CHOOSE g \in [0..n -> S] : Runs(g, c, step, n)]
             f == [n \in Nat |-> runs[n][n]]
  <1>4. ASSUME NEW n \in Nat PROVE runs[n] \in [0..n -> S] /\ Runs(runs[n], c, step, n)
    <2>1. \E g \in [0..n -> S] : Runs(g, c, step, n)
      BY <1>3
    <2> QED BY <2>1
  <1> HIDE DEF runs
  <1>5. f \in [Nat -> S]
    BY <1>4
  <1>6. f[0] = c
    BY <1>4 DEF Runs
  <1>7. ASSUME NEW n \in Nat PROVE f[n + 1] = step[<<n + 1, f[n]>>]
    <2>1. Runs(runs[n + 1], c, step, n + 1)
      BY <1>4
    <2>2. Runs(runs[n + 1], c, step, n)
      BY <2>1 DEF Runs
    <2>3. runs[n + 1][n] = runs[n][n]
      BY <1>4, <2>2, RunsOnce
    <2>4. runs[n + 1][n + 1] = step[<<n + 1, runs[n + 1][n]>>]
      <3>1. n + 1 \in 1..(n + 1) /\ (n + 1) - 1 = n
        OBVIOUS
      <3> QED BY <2>1, <3>1 DEF Runs
    <2> QED BY <2>3, <2>4
  <1> HIDE DEF f
  <1> QED BY <1>5, <1>6, <1>7 DEF Recursion

LEMMA RecursionStays ==
  ASSUME NEW S, NEW m \in Nat, NEW f, f[0] \in S, \A n \in 1..m : f[n - 1] \in S => f[n] \in S
  PROVE  \A n \in 0..m : f[n] \in S
  <1> DEFINE T == {n \in Nat : n <= m => f[n] \in S}
  <1>1. 0 \in T
    OBVIOUS
  <1>2. ASSUME NEW n \in Nat, n \in T PROVE n + 1 \in T
    <2> SUFFICES ASSUME n + 1 <= m PROVE f[n + 1] \in S
      OBVIOUS
    <2>1. n + 1 \in 1..m /\ (n + 1) - 1 = n /\ f[n] \in S
      BY <1>2
    <2> QED BY <2>1
  <1> HIDE DEF T
  <1>3. Nat \subseteq T
    BY <1>1, <1>2, NatInSet
  <1> QED BY <1>3 DEF T

(* The same up to a number, as a LET has it.                               *)
Steps(h, S, m, c, step) ==
  h \in [0..m -> S] /\ h[0] = c /\ \A n \in 1..m : h[n] = step[<<n, h[n - 1]>>]

LEMMA StepsExist ==
  ASSUME NEW S, NEW m \in Nat, NEW c \in S, NEW step \in [Nat \X S -> S]
  PROVE  \E h : Steps(h, S, m, c, step)
  <1>1. PICK g : Recursion(g, S, c, step)
    BY RecursionExists
  <1>2. g \in [Nat -> S] /\ g[0] = c /\ \A n \in Nat : g[n + 1] = step[<<n + 1, g[n]>>]
    BY <1>1 DEF Recursion
  <1> DEFINE h == [n \in 0..m |-> g[n]]
  <1>3. h \in [0..m -> S] /\ h[0] = c
    BY <1>2
  <1>4. ASSUME NEW n \in 1..m PROVE h[n] = step[<<n, h[n - 1]>>]
    <2>1. n - 1 \in Nat /\ (n - 1) + 1 = n /\ n - 1 \in 0..m /\ n \in 0..m
      OBVIOUS
    <2>2. g[n] = step[<<n, g[n - 1]>>]
      BY <1>2, <2>1
    <2> QED BY <2>1, <2>2
  <1> HIDE DEF h
  <1> QED BY <1>3, <1>4 DEF Steps

LEMMA PowerIs == Power \in [Nat -> Nat \ {0}] /\ Power[0] = 1 /\ \A n \in Nat : Power[n + 1] = 2 * Power[n]
  <1> DEFINE S == Nat \ {0}
             step == [p \in Nat \X S |-> 2 * p[2]]
             IsPower(f) == f = [n \in Nat |-> IF n = 0 THEN 1 ELSE 2 * f[n - 1]]
  <1>1. PICK f \in [Nat -> S] : f[0] = 1 /\ \A n \in Nat : f[n + 1] = step[<<n + 1, f[n]>>]
    <2>1. step \in [Nat \X S -> S] /\ 1 \in S
      OBVIOUS
    <2> HIDE DEF step, S
    <2>2. \E f : Recursion(f, S, 1, step)
      BY <2>1, RecursionExists
    <2> QED BY <2>2 DEF Recursion
  <1>2. ASSUME NEW n \in Nat PROVE f[n] = IF n = 0 THEN 1 ELSE 2 * f[n - 1]
    <2>1. CASE n = 0
      BY <1>1, <2>1
    <2>2. CASE n # 0
      <3>1. n - 1 \in Nat /\ (n - 1) + 1 = n
        BY <2>2
      <3>2. f[n - 1] \in S /\ f[n] = step[<<n, f[n - 1]>>]
        BY <1>1, <3>1
      <3> QED BY <2>2, <3>2
    <2> QED BY <2>1, <2>2
  <1> HIDE DEF step
  <1>3. IsPower(f)
    BY <1>1, <1>2
  <1>4. IsPower(Power)
    BY <1>3 DEF Power
  <1>5. DOMAIN Power = Nat /\ \A n \in Nat : Power[n] = IF n = 0 THEN 1 ELSE 2 * Power[n - 1]
    BY <1>4
  <1>6. Power[0] = 1 /\ \A n \in Nat : Power[n + 1] = 2 * Power[n]
    <2>1. Power[0] = 1
      BY <1>5
    <2>2. ASSUME NEW n \in Nat PROVE Power[n + 1] = 2 * Power[n]
      <3>1. n + 1 \in Nat /\ n + 1 # 0 /\ (n + 1) - 1 = n
        OBVIOUS
      <3> QED BY <1>5, <3>1
    <2> QED BY <2>1, <2>2
  <1>7. \A n \in Nat : Power[n] \in S
    <2> DEFINE T == {n \in Nat : Power[n] \in S}
    <2>1. 0 \in T
      BY <1>6
    <2>2. ASSUME NEW n \in Nat, n \in T PROVE n + 1 \in T
      <3>1. Power[n] \in Nat /\ Power[n] # 0 /\ Power[n + 1] = 2 * Power[n]
        BY <1>6, <2>2
      <3> QED BY <3>1
    <2> HIDE DEF T
    <2>3. Nat \subseteq T
      BY <2>1, <2>2, NatInSet
    <2> QED BY <2>3 DEF T
  <1>8. Power = [n \in Nat |-> Power[n]]
    BY <1>4
  <1> QED BY <1>6, <1>7, <1>8

-----------------------------------------------------------------------------
(* The words of SHA-2.                                                     *)
LEMMA SizeIsPositive == WordBits \in Nat \ {0} /\ Power[WordBits] \in Nat \ {0} /\ Words \subseteq Nat
  <1>1. WordBits \in Nat \ {0}
    BY TransformAssumption
  <1>2. Power[WordBits] \in Nat \ {0}
    BY <1>1, PowerIs
  <1> QED BY <1>1, <1>2 DEF Words

LEMMA PlusIsWord ==
  ASSUME NEW x \in Nat, NEW y \in Nat
  PROVE  Plus(x, y) \in Words
  <1> DEFINE m == Power[WordBits]
  <1>1. m \in Nat \ {0} /\ x + y \in Nat
    BY SizeIsPositive
  <1> HIDE DEF m
  <1>2. (x + y) % m \in 0..(m - 1)
    BY <1>1, DivMod
  <1> QED BY <1>2 DEF m, Plus, Words

(* The code and the standard add the four words in different orders.       *)
LEMMA PlusOfFour ==
  ASSUME NEW x \in Nat, NEW y \in Nat, NEW z \in Nat, NEW u \in Nat
  PROVE  Plus(Plus(x, y), Plus(z, u)) = Plus(Plus(y, z), Plus(u, x))
  <1> DEFINE m == Power[WordBits]
  <1>0. m \in Nat \ {0}
    BY SizeIsPositive
  <1> HIDE DEF m
  <1>1. ASSUME NEW a \in Nat, NEW b \in Nat, NEW c \in Nat, NEW d \in Nat
        PROVE  (((a + b) % m) + ((c + d) % m)) % m = (a + b + c + d) % m
    <2> DEFINE p == (a + b) % m  q == (c + d) % m
    <2>0. a + b \in Nat /\ c + d \in Nat
      OBVIOUS
    <2>1. p \in Nat /\ q \in Nat
      BY <1>0, <2>0, DivMod
    <2>2. (p + q) % m = ((a + b) + q) % m
      <3> DEFINE l == a + b
      <3>1. l \in Nat /\ l % m = p
        BY <2>0
      <3> HIDE DEF l, p, q
      <3>2. (l + q) % m = ((l % m) + q) % m
        BY <1>0, <2>1, <3>1, ModPlus
      <3>3. (l + q) % m = (p + q) % m
        BY <3>1, <3>2
      <3> QED BY <3>3 DEF l
    <2>3. (q + (a + b)) % m = ((c + d) + (a + b)) % m
      <3> DEFINE l == c + d  k == a + b
      <3>1. l \in Nat /\ k \in Nat /\ l % m = q
        BY <2>0
      <3> HIDE DEF l, k, q
      <3>2. (l + k) % m = ((l % m) + k) % m
        BY <1>0, <3>1, ModPlus
      <3>3. (l + k) % m = (q + k) % m
        BY <3>1, <3>2
      <3> QED BY <3>3 DEF l, k
    <2> HIDE DEF p, q
    <2>4. (a + b) + q = q + (a + b) /\ (c + d) + (a + b) = a + b + c + d
      BY <2>1
    <2>5. (p + q) % m = (a + b + c + d) % m
      BY <2>2, <2>3, <2>4
    <2> QED BY <2>5 DEF p, q
  <1>2. (((x + y) % m) + ((z + u) % m)) % m = (x + y + z + u) % m
    BY <1>1
  <1>3. (((y + z) % m) + ((u + x) % m)) % m = (y + z + u + x) % m
    BY <1>1
  <1>4. x + y + z + u = y + z + u + x
    OBVIOUS
  <1>5. (((x + y) % m) + ((z + u) % m)) % m = (((y + z) % m) + ((u + x) % m)) % m
    BY <1>2, <1>3, <1>4
  <1> QED BY <1>5 DEF m, Plus

LEMMA BitIs ==
  ASSUME NEW x \in Nat, NEW b \in Nat
  PROVE  BitOf(x, b) \in Nat
  <1> DEFINE p == Power[b]
  <1>1. p \in Nat \ {0}
    BY PowerIs
  <1> HIDE DEF p
  <1>2. x \div p \in Nat
    BY <1>1, DivMod
  <1> DEFINE q == x \div p
  <1> HIDE DEF q
  <1>3. q % 2 \in Nat
    BY <1>2 DEF q
  <1> QED BY <1>3 DEF BitOf, p, q

LEMMA FromBitsIs ==
  ASSUME NEW f, \A b \in 0..(WordBits - 1) : f[b] \in Nat
  PROVE  FromBits(f) \in Nat
  <1> DEFINE n == WordBits
             IsFrom(g) == g = [b \in 0..n |-> IF b = n THEN 0 ELSE 2 * g[b + 1] + (f[b] % 2)]
             step == [p \in Nat \X Nat |-> IF p[1] \in 1..n THEN 2 * p[2] + (f[n - p[1]] % 2) ELSE 0]
             from == CHOOSE g : IsFrom(g)
  <1>0. n \in Nat \ {0}
    BY SizeIsPositive
  <1>1. \A b \in 0..(n - 1) : f[b] % 2 \in Nat
    OBVIOUS
  <1> HIDE DEF n
  <1>2. step \in [Nat \X Nat -> Nat]
    <2> SUFFICES ASSUME NEW p \in Nat \X Nat, p[1] \in 1..n PROVE 2 * p[2] + (f[n - p[1]] % 2) \in Nat
      OBVIOUS
    <2>1. n - p[1] \in 0..(n - 1) /\ p[2] \in Nat
      BY <1>0
    <2> QED BY <1>1, <2>1
  <1>3. PICK g : Recursion(g, Nat, 0, step)
    <2> HIDE DEF step
    <2> QED BY <1>2, RecursionExists
  <1>4. g \in [Nat -> Nat] /\ g[0] = 0 /\ \A j \in Nat : g[j + 1] = step[<<j + 1, g[j]>>]
    BY <1>3 DEF Recursion
  <1> DEFINE h == [b \in 0..n |-> g[n - b]]
  <1>5. ASSUME NEW b \in 0..n PROVE h[b] = IF b = n THEN 0 ELSE 2 * h[b + 1] + (f[b] % 2)
    <2>1. CASE b = n
      BY <1>0, <1>4, <2>1
    <2>2. CASE b # n
      <3>1. n - b \in 1..n /\ n - b - 1 \in Nat /\ (n - b - 1) + 1 = n - b /\ n - (n - b) = b
            /\ n - (b + 1) = n - b - 1 /\ b + 1 \in 0..n
        BY <1>0, <2>2
      <3>2. g[n - b] = step[<<n - b, g[n - b - 1]>>] /\ g[n - b - 1] \in Nat
        BY <1>4, <3>1
      <3>3. g[n - b] = 2 * g[n - b - 1] + (f[b] % 2)
        BY <3>1, <3>2
      <3>4. h[b] = g[n - b] /\ h[b + 1] = g[n - b - 1]
        BY <3>1
      <3> HIDE DEF h
      <3> QED BY <2>2, <3>3, <3>4
    <2> QED BY <2>1, <2>2
  <1> HIDE DEF step
  <1>6. IsFrom(h)
    BY <1>5
  <1>7. IsFrom(from)
    BY <1>6
  <1> HIDE DEF from, h
  <1>8. \A b \in 0..n : from[b] = IF b = n THEN 0 ELSE 2 * from[b + 1] + (f[b] % 2)
    BY <1>7
  <1> DEFINE k == [j \in 0..n |-> from[n - j]]
  <1>9. k[0] \in Nat
    BY <1>0, <1>8
  <1>10. ASSUME NEW j \in 1..n, k[j - 1] \in Nat PROVE k[j] \in Nat
    <2>1. n - j \in 0..(n - 1) /\ n - (j - 1) = (n - j) + 1 /\ n - j # n /\ j - 1 \in 0..n
      BY <1>0
    <2>2. from[n - j] = 2 * from[(n - j) + 1] + (f[n - j] % 2) /\ from[(n - j) + 1] \in Nat
      <3>1. k[j - 1] = from[(n - j) + 1]
        BY <2>1 DEF k
      <3>2. from[n - j] = 2 * from[(n - j) + 1] + (f[n - j] % 2)
        BY <1>0, <1>8, <2>1
      <3> QED BY <1>10, <3>1, <3>2
    <2>3. f[n - j] % 2 \in Nat
      BY <1>1, <2>1
    <2> QED BY <2>2, <2>3
  <1> HIDE DEF k
  <1>11. \A j \in 0..n : k[j] \in Nat
    BY <1>0, <1>9, <1>10, RecursionStays
  <1>12. from[0] \in Nat
    <2>1. n \in 0..n /\ n - n = 0
      BY <1>0
    <2> QED BY <1>11, <2>1 DEF k
  <1> QED BY <1>12 DEF FromBits, from, n

LEMMA SchedulesAreNat == sigma0 \in [Words -> Nat] /\ sigma1 \in [Words -> Nat]
  <1>1. ASSUME NEW x \in Words, NEW r \in Nat, NEW b \in 0..(WordBits - 1)
        PROVE  Rotated(x, r)[b] \in Nat /\ Shifted(x, r)[b] \in Nat
    <2>0. b + r \in Nat /\ WordBits \in Nat \ {0} /\ x \in Nat
      BY SizeIsPositive
    <2>1. (b + r) % WordBits \in Nat
      <3> DEFINE l == b + r
      <3>1. l \in Nat
        BY <2>0
      <3> HIDE DEF l
      <3>2. l % WordBits \in Nat
        BY <2>0, <3>1, DivMod
      <3> QED BY <3>2 DEF l
    <2>2. BitOf(x, (b + r) % WordBits) \in Nat /\ BitOf(x, b + r) \in Nat
      BY <2>0, <2>1, BitIs
    <2> QED BY <2>2 DEF Rotated, Shifted
  <1>2. ASSUME NEW f, NEW g, NEW h, \A b \in 0..(WordBits - 1) : f[b] \in Nat /\ g[b] \in Nat /\ h[b] \in Nat
        PROVE  Xor3(f, g, h) \in Nat
    <2> DEFINE e == [b \in 0..(WordBits - 1) |-> f[b] + g[b] + h[b]]
    <2>1. \A b \in 0..(WordBits - 1) : e[b] \in Nat
      BY <1>2
    <2> HIDE DEF e
    <2>2. FromBits(e) \in Nat
      BY <2>1, FromBitsIs
    <2> QED BY <2>2 DEF e, Xor3
  <1>3. ASSUME NEW d \in Nat \X Nat \X Nat PROVE Shifts(d) \in [Words -> Nat]
    <2> SUFFICES ASSUME NEW x \in Words PROVE Xor3(Rotated(x, d[1]), Rotated(x, d[2]), Shifted(x, d[3])) \in Nat
      BY DEF Shifts
    <2>1. d[1] \in Nat /\ d[2] \in Nat /\ d[3] \in Nat
      OBVIOUS
    <2>2. \A b \in 0..(WordBits - 1) :
            Rotated(x, d[1])[b] \in Nat /\ Rotated(x, d[2])[b] \in Nat /\ Shifted(x, d[3])[b] \in Nat
      BY <1>1, <2>1
    <2> QED BY <1>2, <2>2
  <1>4. Distances["sigma0"] \in Nat \X Nat \X Nat /\ Distances["sigma1"] \in Nat \X Nat \X Nat
    BY TransformAssumption
  <1> QED BY <1>3, <1>4 DEF sigma0, sigma1

-----------------------------------------------------------------------------
(* The ring of words and the roles of registers.                           *)

TransformType ==
  /\ blk \in Schedules /\ chain \in Starts /\ final \in RoundCounts /\ unrolled \in BOOLEAN
  /\ turn \in 0..final /\ W \in [0..15 -> Words]
  /\ stdwords \in Seq(Words) /\ Len(stdwords) = turn
  /\ DOMAIN reg = 0..7 /\ DOMAIN stdreg = 0..7
  /\ transforming \in {"rounds", "done"}

(* The ring holds the standard's last sixteen words.                       *)
RingHolds == \A j \in Nat : j < turn /\ turn <= j + 16 => W[j % 16] = stdwords[j + 1]

TransformInv == TransformType /\ RingHolds /\ TransformIsStandard

LEMMA TransformInvInit == TransformInit => TransformInv
  <1> SUFFICES ASSUME TransformInit PROVE TransformInv
    OBVIOUS
  <1>1. final \in Nat /\ chain \in [0..7 -> Words]
    <2>1. \A n \in RoundCounts : n \in Nat
      BY TransformAssumption
    <2> QED BY <2>1, TransformAssumption DEF TransformInit
  <1>2. 0 \in Words
    BY SizeIsPositive DEF Words
  <1>3. TransformType
    BY <1>1, <1>2 DEF TransformInit, TransformType
  <1>4. \A k \in 0..7 : Role(k) = k
    BY DEF Role, TransformInit
  <1> QED BY <1>3, <1>4 DEF TransformInit, TransformInv, RingHolds, TransformIsStandard

LEMMA RolesTurn ==
  ASSUME NEW u \in BOOLEAN, NEW n \in Nat
  PROVE  \A k \in 0..7 :
           LET r(j, m) == IF u THEN (j - m) % 8 ELSE j
           IN  /\ r(k, n) \in 0..7
               /\ u => r(k, n + 1) = r((k + 7) % 8, n)
               /\ \A j \in 0..7 : r(j, n) = r(k, n) => j = k
  OBVIOUS

(* A round of the code does what the standard's round does, in both forms. *)
LEMMA RoundIsStandard ==
  ASSUME TransformInv, transforming = "rounds", Compress(StandardWord), StandardRound,
         turn' = turn + 1, unrolled' = unrolled, transforming' = "rounds"
  PROVE  /\ DOMAIN reg' = 0..7 /\ DOMAIN stdreg' = 0..7
         /\ \A k \in 0..7 : reg'[Role(k)'] = stdreg'[k]
  <1> DEFINE r == [k \in 0..7 |-> reg[Role(k)]]
             w == StandardWord
             T1 == Plus(Plus(Plus(r[7], Sigma1[r[4]]), Plus(Ch[r[4], r[5], r[6]], K[turn])), w)
             T2 == Plus(Sigma0[r[0]], Maj[r[0], r[1], r[2]])
             S1 == Plus(Plus(Plus(stdreg[7], Sigma1[stdreg[4]]), Plus(Ch[stdreg[4], stdreg[5], stdreg[6]], K[turn])), w)
             S2 == Plus(Sigma0[stdreg[0]], Maj[stdreg[0], stdreg[1], stdreg[2]])
  <1>1. \A k \in 0..7 : r[k] = stdreg[k]
    BY DEF TransformInv, TransformIsStandard
  <1>2. T1 = S1 /\ T2 = S2
    <2>1. /\ r[0] = stdreg[0] /\ r[1] = stdreg[1] /\ r[2] = stdreg[2] /\ r[4] = stdreg[4]
          /\ r[5] = stdreg[5] /\ r[6] = stdreg[6] /\ r[7] = stdreg[7]
      BY <1>1
    <2> HIDE DEF r, w
    <2> QED BY <2>1, Zenon
  <1>3. stdreg' = [k \in 0..7 |-> CASE k = 0 -> Plus(S1, S2)
                                    [] k = 4 -> Plus(stdreg[3], S1)
                                    [] OTHER -> stdreg[k - 1]]
    BY DEF StandardRound
  <1>4. reg' = IF unrolled
                 THEN [reg EXCEPT ![Role(3)] = Plus(@, T1), ![Role(7)] = Plus(T1, T2)]
                 ELSE [k \in 0..7 |-> CASE k = 0 -> Plus(T1, T2)
                                        [] k = 4 -> Plus(r[3], T1)
                                        [] OTHER -> r[k - 1]]
    BY DEF Compress
  <1>5. DOMAIN reg = 0..7 /\ turn \in Nat /\ unrolled \in BOOLEAN
    BY TransformAssumption DEF TransformInv, TransformType
  <1>6. \A k \in 0..7 : r[k] = reg[Role(k)]
    OBVIOUS
  <1> HIDE DEF r, w, T1, T2, S1, S2
  <1>7. CASE ~ unrolled
    <2>1. reg' = stdreg'
      BY <1>1, <1>2, <1>3, <1>4, <1>7
    <2>2. \A k \in 0..7 : Role(k)' = k
      BY <1>7 DEF Role
    <2> QED BY <1>3, <2>1, <2>2
  <1>8. CASE unrolled
    <2>1. \A k \in 0..7 :
            /\ Role(k) \in 0..7 /\ Role(k)' = Role((k + 7) % 8)
            /\ \A j \in 0..7 : Role(j) = Role(k) => j = k
      BY <1>5, <1>8, RolesTurn DEF Role
    <2>2. reg' = [reg EXCEPT ![Role(3)] = Plus(@, T1), ![Role(7)] = Plus(T1, T2)]
      BY <1>4, <1>8
    <2>3. Role(3) # Role(7) /\ Role(3) \in 0..7 /\ Role(7) \in 0..7
      BY <2>1
    <2>4. reg'[Role(3)] = Plus(reg[Role(3)], T1) /\ reg'[Role(7)] = Plus(T1, T2)
      BY <1>5, <2>2, <2>3
    <2>5. ASSUME NEW k \in 0..7 PROVE reg'[Role(k)'] = stdreg'[k]
      <3>1. CASE k = 0
        <4>1. Role(k)' = Role(7)
          BY <2>1, <3>1
        <4> QED BY <1>2, <1>3, <2>4, <3>1, <4>1
      <3>2. CASE k = 4
        <4>1. Role(k)' = Role(3)
          BY <2>1, <3>2
        <4>2. stdreg'[4] = Plus(stdreg[3], S1)
          BY <1>3
        <4> QED BY <1>1, <1>2, <1>6, <2>4, <3>2, <4>1, <4>2
      <3>3. CASE k \notin {0, 4}
        <4>1. (k + 7) % 8 = k - 1 /\ k - 1 \in 0..7 /\ k - 1 \notin {3, 7}
          BY <3>3
        <4>2. Role(k)' = Role(k - 1) /\ Role(k - 1) \in 0..7 /\ Role(k - 1) # Role(3) /\ Role(k - 1) # Role(7)
          BY <2>1, <4>1
        <4>3. reg'[Role(k - 1)] = reg[Role(k - 1)]
          BY <1>5, <2>2, <4>2
        <4>4. stdreg'[k] = stdreg[k - 1]
          BY <1>3, <3>3
        <4> QED BY <1>1, <1>6, <4>1, <4>2, <4>3, <4>4
      <3> QED BY <3>1, <3>2, <3>3
    <2>6. DOMAIN reg' = 0..7
      BY <1>5, <2>2
    <2> QED BY <1>3, <2>5, <2>6
  <1> QED BY <1>5, <1>7, <1>8

(* The word of a round from the seventeenth on, put together from the ring.*)
LEMMA RingIsEnough ==
  ASSUME TransformType, RingHolds, turn >= 16
  PROVE  Expanded(turn) = StandardWord /\ Expanded(turn) \in Words
  <1>1. turn \in Nat /\ stdwords \in Seq(Words) /\ Len(stdwords) = turn /\ W \in [0..15 -> Words]
    BY TransformAssumption DEF TransformType
  <1>2. /\ turn % 16 = (turn - 16) % 16 /\ (turn + 14) % 16 = (turn - 2) % 16
        /\ (turn + 9) % 16 = (turn - 7) % 16 /\ (turn + 1) % 16 = (turn - 15) % 16
        /\ (turn - 16) % 16 \in 0..15 /\ (turn - 2) % 16 \in 0..15
        /\ (turn - 7) % 16 \in 0..15 /\ (turn - 15) % 16 \in 0..15
    BY <1>1
  <1> DEFINE v(j) == stdwords[j + 1]
             a == v(turn - 16)  b == v(turn - 2)  c == v(turn - 7)  d == v(turn - 15)
  <1>3. /\ W[turn % 16] = a /\ W[(turn + 14) % 16] = b
        /\ W[(turn + 9) % 16] = c /\ W[(turn + 1) % 16] = d
    <2>1. turn - 16 \in Nat /\ turn - 2 \in Nat /\ turn - 7 \in Nat /\ turn - 15 \in Nat
      BY <1>1
    <2>2. /\ W[(turn - 16) % 16] = a /\ W[(turn - 2) % 16] = b
          /\ W[(turn - 7) % 16] = c /\ W[(turn - 15) % 16] = d
      <3>1. \A j \in Nat : j < turn /\ turn <= j + 16 => W[j % 16] = v(j)
        BY DEF RingHolds
      <3> HIDE DEF v
      <3> QED BY <1>1, <2>1, <3>1
    <2> QED BY <1>2, <2>2
  <1>4. a \in Words /\ b \in Words /\ c \in Words /\ d \in Words
    BY <1>1
  <1>5. /\ Expanded(turn) = Plus(Plus(a, sigma1[b]), Plus(c, sigma0[d]))
        /\ StandardWord = Plus(Plus(sigma1[b], c), Plus(sigma0[d], a))
    BY <1>1, <1>3 DEF Expanded, StandardWord
  <1> HIDE DEF a, b, c, d
  <1>6. a \in Nat /\ c \in Nat /\ sigma1[b] \in Nat /\ sigma0[d] \in Nat
    BY <1>4, SizeIsPositive, SchedulesAreNat
  <1>7. Expanded(turn) = StandardWord
    BY <1>5, <1>6, PlusOfFour
  <1>8. Expanded(turn) \in Words
    <2> DEFINE p == Plus(a, sigma1[b])  q == Plus(c, sigma0[d])
    <2>1. p \in Words /\ q \in Words
      BY <1>6, PlusIsWord
    <2> HIDE DEF p, q
    <2>2. Plus(p, q) \in Words
      BY <2>1, PlusIsWord, SizeIsPositive
    <2> QED BY <1>5, <2>2 DEF p, q
  <1> QED BY <1>7, <1>8

LEMMA NeverTwice ==
  ASSUME NEW j \in Nat, NEW d \in 1..15
  PROVE  (j + d) % 16 # j % 16
  OBVIOUS

(* The word is put into the ring in place of the one that is needed for the*)
(* last time.                                                              *)
LEMMA RingTurns ==
  ASSUME TransformType, RingHolds, turn < final, StandardWord \in Words,
         W' = [W EXCEPT ![turn % 16] = StandardWord],
         stdwords' = Append(stdwords, StandardWord), turn' = turn + 1
  PROVE  /\ W' \in [0..15 -> Words] /\ stdwords' \in Seq(Words) /\ Len(stdwords') = turn'
         /\ RingHolds'
  <1> DEFINE w == StandardWord
  <1>1. turn \in Nat /\ stdwords \in Seq(Words) /\ Len(stdwords) = turn /\ W \in [0..15 -> Words]
    BY TransformAssumption DEF TransformType
  <1>2. turn % 16 \in 0..15
    BY <1>1
  <1> HIDE DEF w
  <1>3. W' \in [0..15 -> Words] /\ stdwords' \in Seq(Words) /\ Len(stdwords') = turn'
    <2>1. w \in Words /\ W' = [W EXCEPT ![turn % 16] = w] /\ stdwords' = Append(stdwords, w)
      BY DEF w
    <2>2. W' \in [0..15 -> Words]
      BY <1>1, <1>2, <2>1
    <2>3. stdwords' \in Seq(Words) /\ Len(stdwords') = turn + 1
      BY <1>1, <2>1
    <2> QED BY <2>2, <2>3
  <1>4. \A k \in 1..turn : stdwords'[k] = stdwords[k]
    BY <1>1 DEF w
  <1>5. stdwords'[turn + 1] = w
    BY <1>1 DEF w
  <1>6. ASSUME NEW j \in Nat, j < turn + 1, turn + 1 <= j + 16
        PROVE  W'[j % 16] = stdwords'[j + 1]
    <2>1. CASE j = turn
      BY <1>1, <1>2, <1>5, <2>1 DEF w
    <2>2. CASE j # turn
      <3>1. j < turn /\ turn <= j + 16 /\ j % 16 # turn % 16 /\ j % 16 \in 0..15
        <4>1. j < turn /\ turn - j \in 1..15 /\ turn = j + (turn - j)
          BY <1>1, <1>6, <2>2
        <4>2. (j + (turn - j)) % 16 # j % 16
          BY <4>1, NeverTwice
        <4>3. turn <= j + 16 /\ j % 16 \in 0..15
          BY <1>1, <1>6, <4>1
        <4> QED BY <4>1, <4>2, <4>3
      <3>2. W'[j % 16] = W[j % 16]
        BY <1>1, <3>1
      <3>3. W[j % 16] = stdwords[j + 1]
        BY <3>1 DEF RingHolds
      <3>4. j + 1 \in 1..turn
        BY <1>1, <3>1
      <3> QED BY <1>4, <3>2, <3>3, <3>4
    <2> QED BY <2>1, <2>2
  <1>7. RingHolds'
    BY <1>6 DEF RingHolds
  <1> QED BY <1>3, <1>7

LEMMA TransformInvNext == TransformInv /\ [TransformStep]_wvars => TransformInv'
  <1> SUFFICES ASSUME TransformInv, [TransformStep]_wvars PROVE TransformInv'
    OBVIOUS
  <1>0. /\ TransformType /\ RingHolds /\ TransformIsStandard
        /\ turn \in Nat /\ final \in Nat /\ final % 8 = 0 /\ final >= 24
        /\ blk \in [0..15 -> Words]
    <2>1. \A n \in RoundCounts : n \in Nat /\ n % 8 = 0 /\ n >= 24
      BY TransformAssumption
    <2> QED BY <2>1, TransformAssumption DEF TransformInv, TransformType
  <1>1. ASSUME transforming = "rounds", turn < final, StandardWord \in Words, StandardRound,
               Compress(StandardWord), W' = [W EXCEPT ![turn % 16] = StandardWord],
               turn' = turn + 1, UNCHANGED <<blk, chain, final, unrolled, transforming>>
        PROVE  TransformInv'
    <2>1. stdwords' = Append(stdwords, StandardWord)
      BY <1>1 DEF StandardRound
    <2>2. /\ W' \in [0..15 -> Words] /\ stdwords' \in Seq(Words) /\ Len(stdwords') = turn'
          /\ RingHolds'
      BY <1>0, <1>1, <2>1, RingTurns
    <2>3. /\ DOMAIN reg' = 0..7 /\ DOMAIN stdreg' = 0..7
          /\ \A k \in 0..7 : reg'[Role(k)'] = stdreg'[k]
      BY <1>1, RoundIsStandard
    <2>4. turn' \in 0..final
      BY <1>0, <1>1
    <2>5. TransformType'
      BY <1>0, <1>1, <2>2, <2>3, <2>4 DEF TransformType
    <2>6. TransformIsStandard'
      BY <1>1, <2>3 DEF TransformIsStandard
    <2> QED BY <2>2, <2>5, <2>6 DEF TransformInv
  <1>2. CASE RoundOfData
    <2>1. StandardWord = blk[turn] /\ turn \in 0..15 /\ turn % 16 = turn
      BY <1>0, <1>2 DEF RoundOfData, StandardWord
    <2>2. StandardWord \in Words /\ turn < final
      BY <1>0, <2>1
    <2> QED BY <1>1, <1>2, <2>1, <2>2 DEF RoundOfData
  <1>3. CASE RoundOfSchedule
    <2>1. Expanded(turn) = StandardWord /\ StandardWord \in Words
      BY <1>0, <1>3, RingIsEnough DEF RoundOfSchedule
    <2> QED BY <1>1, <1>3, <2>1 DEF RoundOfSchedule
  <1>4. CASE AddState
    <2>1. \A k \in 0..7 : Role(k) = k
      BY <1>0, <1>4 DEF AddState, Role
    <2>2. \A k \in 0..7 : reg[k] = stdreg[k]
      BY <1>0, <1>4, <2>1 DEF AddState, TransformIsStandard
    <2>3. reg' = [k \in 0..7 |-> Plus(chain[k], stdreg[k])]
      BY <1>4, <2>2 DEF AddState
    <2>4. TransformType'
      BY <1>0, <1>4, <2>3 DEF AddState, TransformType
    <2>5. RingHolds'
      BY <1>0, <1>4 DEF AddState, RingHolds
    <2>6. TransformIsStandard'
      BY <1>4, <2>3 DEF AddState, TransformIsStandard
    <2> QED BY <2>4, <2>5, <2>6 DEF TransformInv
  <1>5. CASE UNCHANGED wvars
    BY <1>0, <1>5 DEF wvars, TransformInv, TransformType, RingHolds, TransformIsStandard, Role
  <1> QED BY <1>2, <1>3, <1>4, <1>5 DEF TransformStep

(* Sixteen words used in a ring, and registers that stay and change their  *)
(* roles or move, give what the standard gives, for words of every length. *)
THEOREM TransformAlwaysStandard == TransformSpec => []TransformIsStandard
  <1>1. TransformInv => TransformIsStandard
    BY DEF TransformInv
  <1> QED BY <1>1, TransformInvInit, TransformInvNext, PTL DEF TransformSpec

-----------------------------------------------------------------------------
(* The words of Blowfish.                                                  *)

LEMMA BlfSizes ==
  /\ Digit \in Nat \ {0} /\ WordSize \in Nat \ {0} /\ 0 \in BlfWords /\ 0 \in BlfBytes
  /\ BlfWords \subseteq Nat /\ BlfBytes \subseteq Nat
  /\ BLF_N \in Nat /\ Cost \in Nat \ {0} /\ DigitBits \in Nat \ {0} /\ 4 * DigitBits \in Nat
  <1>1. BLF_N \in Nat /\ Cost \in Nat \ {0} /\ DigitBits \in Nat \ {0} /\ 4 * DigitBits \in Nat
    BY BlowfishAssumption
  <1>2. Digit \in Nat \ {0} /\ WordSize \in Nat \ {0}
    BY <1>1, PowerIs DEF Digit, WordSize
  <1> QED BY <1>1, <1>2 DEF BlfWords, BlfBytes

LEMMA RemainderIsWord ==
  ASSUME NEW x \in Nat
  PROVE  x % WordSize \in BlfWords
  <1>1. x % WordSize \in 0..(WordSize - 1)
    BY BlfSizes, DivMod
  <1> QED BY <1>1 DEF BlfWords

LEMMA AddIsWord ==
  ASSUME NEW x \in Nat, NEW y \in Nat
  PROVE  Add32(x, y) \in BlfWords
  <1> DEFINE z == x + y
  <1>1. z \in Nat
    OBVIOUS
  <1> HIDE DEF z
  <1>2. z % WordSize \in BlfWords
    BY <1>1, RemainderIsWord
  <1> QED BY <1>2 DEF z, Add32

LEMMA ByteIs ==
  ASSUME NEW x \in Nat, NEW k \in Nat
  PROVE  ByteAt(x, k) \in BlfBytes
  <1> DEFINE p == Power[k * DigitBits]
             q == x \div p
  <1>1. k * DigitBits \in Nat
    BY BlfSizes
  <1>2. p \in Nat \ {0}
    BY <1>1, PowerIs
  <1> HIDE DEF p
  <1>3. q \in Nat
    BY <1>2, DivMod
  <1> HIDE DEF q
  <1>4. q % Digit \in 0..(Digit - 1)
    BY <1>3, BlfSizes, DivMod
  <1> QED BY <1>4 DEF ByteAt, BlfBytes, p, q

LEMMA Halves ==
  ASSUME NEW x \in Nat
  PROVE  /\ x \div 2 \in Nat /\ x % 2 \in 0..1 /\ x = 2 * (x \div 2) + (x % 2)
         /\ \A p \in Nat : x <= 2 * p - 1 => x \div 2 <= p - 1
  OBVIOUS

LEMMA BitsCancel ==
  ASSUME NEW x \in Nat, NEW y \in Nat, NEW r \in Nat
  PROVE  LET a == 2 * r + ((x + y) % 2) IN
         a \in Nat /\ a \div 2 = r /\ (a + y) % 2 = x % 2
  OBVIOUS

LEMMA XoredIs ==
  /\ \A n \in Nat : Xored[n] \in [Nat \X Nat -> Nat]
  /\ \A x, y \in Nat : Xored[0][<<x, y>>] = 0
  /\ \A n \in Nat, x, y \in Nat :
       Xored[n + 1][<<x, y>>] = 2 * Xored[n][<<x \div 2, y \div 2>>] + ((x + y) % 2)
  <1> DEFINE D == Nat \X Nat
             S == [D -> Nat]
             zero == [p \in D |-> 0]
             Next1(g) == [p \in D |-> 2 * g[<<p[1] \div 2, p[2] \div 2>>] + ((p[1] + p[2]) % 2)]
             step == [q \in Nat \X S |-> Next1(q[2])]
             IsXored(f) == f = [n \in Nat |-> [p \in D |->
               IF n = 0 THEN 0 ELSE 2 * f[n - 1][<<p[1] \div 2, p[2] \div 2>>] + ((p[1] + p[2]) % 2)]]
  <1>0. ASSUME NEW p \in D
        PROVE  p[1] \in Nat /\ p[2] \in Nat /\ <<p[1] \div 2, p[2] \div 2>> \in D /\ (p[1] + p[2]) % 2 \in Nat
    OBVIOUS
  <1>1. ASSUME NEW g \in S PROVE Next1(g) \in S
    BY <1>0
  <1>2. zero \in S
    OBVIOUS
  <1>3. step \in [Nat \X S -> S]
    <2> HIDE DEF S, Next1
    <2> QED BY <1>1
  <1>4. PICK f : Recursion(f, S, zero, step)
    <2> HIDE DEF S, step, zero
    <2> QED BY <1>2, <1>3, RecursionExists
  <1>5. f \in [Nat -> S] /\ f[0] = zero /\ \A n \in Nat : f[n + 1] = Next1(f[n])
    <2>1. f \in [Nat -> S] /\ f[0] = zero /\ \A n \in Nat : f[n + 1] = step[<<n + 1, f[n]>>]
      <3> HIDE DEF S, step, zero
      <3> QED BY <1>4 DEF Recursion
    <2>2. ASSUME NEW n \in Nat PROVE f[n + 1] = Next1(f[n])
      <3> HIDE DEF S, Next1
      <3>1. <<n + 1, f[n]>> \in Nat \X S /\ <<n + 1, f[n]>>[2] = f[n]
        BY <2>1
      <3> DEFINE q == <<n + 1, f[n]>>
      <3> HIDE DEF q
      <3>2. step[q] = Next1(q[2])
        BY <3>1 DEF q
      <3> QED BY <2>1, <3>1, <3>2 DEF q
    <2> HIDE DEF S, Next1
    <2> QED BY <2>1, <2>2
  <1>6. ASSUME NEW n \in Nat
        PROVE  f[n] = [p \in D |->
                 IF n = 0 THEN 0 ELSE 2 * f[n - 1][<<p[1] \div 2, p[2] \div 2>>] + ((p[1] + p[2]) % 2)]
    <2>1. CASE n = 0
      BY <1>5, <2>1
    <2>2. CASE n # 0
      <3>1. n - 1 \in Nat /\ (n - 1) + 1 = n
        BY <2>2
      <3>2. f[n] = Next1(f[n - 1])
        BY <1>5, <3>1
      <3> QED BY <2>2, <3>2
    <2> QED BY <2>1, <2>2
  <1>7. IsXored(f)
    BY <1>5, <1>6
  <1>8. IsXored(Xored)
    BY <1>7 DEF Xored
  <1>9. \A n \in Nat : Xored[n] = [p \in D |->
          IF n = 0 THEN 0 ELSE 2 * Xored[n - 1][<<p[1] \div 2, p[2] \div 2>>] + ((p[1] + p[2]) % 2)]
    BY <1>8
  <1>10. Xored[0] = zero
    BY <1>9
  <1>11. ASSUME NEW n \in Nat PROVE Xored[n + 1] = Next1(Xored[n])
    <2>1. n + 1 \in Nat /\ n + 1 # 0 /\ (n + 1) - 1 = n
      OBVIOUS
    <2> QED BY <1>9, <2>1
  <1>12. \A n \in Nat : Xored[n] \in S
    <2> DEFINE T == {n \in Nat : Xored[n] \in S}
    <2> HIDE DEF S, Next1, zero
    <2>1. 0 \in T
      BY <1>2, <1>10
    <2>2. \A n \in Nat : n \in T => n + 1 \in T
      BY <1>1, <1>11
    <2> HIDE DEF T
    <2>3. Nat \subseteq T
      BY <2>1, <2>2, NatInSet
    <2> QED BY <2>3 DEF T
  <1>13. \A x, y \in Nat : Xored[0][<<x, y>>] = 0
    BY <1>10
  <1>14. ASSUME NEW n \in Nat, NEW x \in Nat, NEW y \in Nat
         PROVE  Xored[n + 1][<<x, y>>] = 2 * Xored[n][<<x \div 2, y \div 2>>] + ((x + y) % 2)
    <2> DEFINE q == <<x, y>>
               g == Xored[n]
    <2>1. q \in D /\ q[1] = x /\ q[2] = y
      OBVIOUS
    <2>2. Xored[n + 1] = Next1(g)
      BY <1>11
    <2> HIDE DEF q, g
    <2>3. Next1(g)[q] = 2 * g[<<q[1] \div 2, q[2] \div 2>>] + ((q[1] + q[2]) % 2)
      BY <2>1
    <2> HIDE DEF Next1
    <2>4. Xored[n + 1][q] = 2 * g[<<x \div 2, y \div 2>>] + ((x + y) % 2)
      BY <2>1, <2>2, <2>3
    <2> QED BY <2>4 DEF q, g
  <1> QED BY <1>12, <1>13, <1>14

(* Bits that are added twice are as they were.                              *)
LEMMA XoredBack ==
  ASSUME NEW n \in Nat
  PROVE  \A x \in 0..(Power[n] - 1), y \in Nat :
           /\ Xored[n][<<x, y>>] \in 0..(Power[n] - 1)
           /\ Xored[n][<<Xored[n][<<x, y>>], y>>] = x
  <1> DEFINE Good(m) == \A x \in 0..(Power[m] - 1), y \in Nat :
                          /\ Xored[m][<<x, y>>] \in 0..(Power[m] - 1)
                          /\ Xored[m][<<Xored[m][<<x, y>>], y>>] = x
             T == {m \in Nat : Good(m)}
  <1>1. 0 \in T
    <2>1. Power[0] = 1 /\ \A x, y \in Nat : Xored[0][<<x, y>>] = 0
      BY PowerIs, XoredIs
    <2>2. ASSUME NEW x \in 0..(Power[0] - 1), NEW y \in Nat
          PROVE  Xored[0][<<x, y>>] = 0 /\ x = 0 /\ Xored[0][<<0, y>>] = 0
      BY <2>1
    <2>3. Good(0)
      BY <2>1, <2>2
    <2> QED BY <2>3
  <1>2. ASSUME NEW m \in Nat, Good(m) PROVE Good(m + 1)
    <2> SUFFICES ASSUME NEW x \in 0..(Power[m + 1] - 1), NEW y \in Nat
                 PROVE  /\ Xored[m + 1][<<x, y>>] \in 0..(Power[m + 1] - 1)
                        /\ Xored[m + 1][<<Xored[m + 1][<<x, y>>], y>>] = x
      OBVIOUS
    <2> DEFINE p == Power[m]
               r == Xored[m][<<x \div 2, y \div 2>>]
               a == Xored[m + 1][<<x, y>>]
    <2>1. p \in Nat \ {0} /\ Power[m + 1] = 2 * p
      BY PowerIs
    <2>2. x \in Nat /\ x \div 2 \in 0..(p - 1) /\ y \div 2 \in Nat
      <3> HIDE DEF p
      <3>1. x \in Nat /\ x <= 2 * p - 1
        BY <2>1
      <3> QED BY <2>1, <3>1, Halves
    <2>3. r \in 0..(p - 1) /\ Xored[m][<<r, y \div 2>>] = x \div 2
      BY <1>2, <2>2
    <2>4. a = 2 * r + ((x + y) % 2)
      BY <2>2, XoredIs
    <2> HIDE DEF p, r, a
    <2>5. a \in Nat /\ a \div 2 = r /\ (a + y) % 2 = x % 2
      BY <2>2, <2>3, <2>4, BitsCancel
    <2>6. a \in 0..(Power[m + 1] - 1)
      <3>1. (x + y) % 2 \in 0..1
        BY <2>2
      <3> QED BY <2>1, <2>3, <2>4, <3>1
    <2>7. Xored[m + 1][<<a, y>>] = 2 * Xored[m][<<a \div 2, y \div 2>>] + ((a + y) % 2)
      BY <2>5, XoredIs
    <2>8. Xored[m + 1][<<a, y>>] = 2 * (x \div 2) + (x % 2)
      BY <2>3, <2>5, <2>7
    <2>9. Xored[m + 1][<<a, y>>] = x
      BY <2>2, <2>8, Halves
    <2> QED BY <2>6, <2>9 DEF a
  <1> HIDE DEF Good
  <1>3. Nat \subseteq T
    <2>1. \A m \in Nat : m \in T => m + 1 \in T
      BY <1>2
    <2> HIDE DEF T
    <2> QED BY <1>1, <2>1, NatInSet
  <1>4. Good(n)
    BY <1>3
  <1> QED BY <1>4 DEF Good

LEMMA XorBack ==
  ASSUME NEW x \in BlfWords, NEW y \in BlfWords
  PROVE  xor(x, y) \in BlfWords /\ xor(xor(x, y), y) = x
  <1> DEFINE n == 4 * DigitBits
  <1>1. n \in Nat /\ y \in Nat /\ WordSize = Power[n]
    BY BlfSizes DEF WordSize
  <1> HIDE DEF n
  <1>2. /\ Xored[n][<<x, y>>] \in BlfWords
        /\ Xored[n][<<Xored[n][<<x, y>>], y>>] = x
    BY <1>1, XoredBack DEF BlfWords
  <1>3. \A a, b \in BlfWords : xor(a, b) = Xored[n][<<a, b>>]
    BY DEF xor, XorTable, n
  <1> QED BY <1>2, <1>3

-----------------------------------------------------------------------------
(* The network and its inverse.                                            *)

Boxes == [0..3 -> [BlfBytes -> BlfWords]]
Subkeys == [0..(BLF_N + 1) -> BlfWords]
Contexts == [P : Subkeys, S : Boxes]
BlfPairs == BlfWords \X BlfWords

LEMMA FIsWord ==
  ASSUME NEW S \in Boxes, NEW x \in BlfWords
  PROVE  F(S, x) \in BlfWords
  <1>1. x \in Nat /\ BlfWords \subseteq Nat
    BY BlfSizes
  <1> DEFINE a == S[0][ByteAt(x, 3)]  b == S[1][ByteAt(x, 2)]
             c == S[2][ByteAt(x, 1)]  d == S[3][ByteAt(x, 0)]
             e == Add32(a, b)  f == xor(e, c)
  <1>2. a \in BlfWords /\ b \in BlfWords /\ c \in BlfWords /\ d \in BlfWords
    <2>1. ByteAt(x, 3) \in BlfBytes /\ ByteAt(x, 2) \in BlfBytes /\ ByteAt(x, 1) \in BlfBytes /\ ByteAt(x, 0) \in BlfBytes
      BY <1>1, ByteIs
    <2> QED BY <2>1 DEF Boxes
  <1>3. F(S, x) = Add32(f, d)
    BY DEF F
  <1> HIDE DEF a, b, c, d
  <1>4. e \in BlfWords
    BY <1>1, <1>2, AddIsWord
  <1> HIDE DEF e
  <1>5. f \in BlfWords
    BY <1>2, <1>4, XorBack
  <1> HIDE DEF f
  <1>6. Add32(f, d) \in BlfWords
    BY <1>1, <1>2, <1>5, AddIsWord
  <1> QED BY <1>3, <1>6

LEMMA RoundIs ==
  ASSUME NEW S \in Boxes, NEW P \in Subkeys, NEW x \in BlfPairs, NEW n \in 0..(BLF_N + 1)
  PROVE  BLFRND(S, P, x, n) \in BlfPairs
  <1>1. x[1] \in BlfWords /\ x[2] \in BlfWords /\ P[n] \in BlfWords
    BY DEF BlfPairs, Subkeys
  <1>2. ASSUME NEW i \in BlfWords, NEW j \in BlfWords PROVE xor(i, xor(F(S, j), P[n])) \in BlfWords
    <2>1. xor(F(S, j), P[n]) \in BlfWords
      BY <1>1, FIsWord, XorBack
    <2> QED BY <2>1, XorBack
  <1>3. xor(x[1], xor(F(S, x[2]), P[n])) \in BlfWords /\ xor(x[2], xor(F(S, x[1]), P[n])) \in BlfWords
    BY <1>1, <1>2
  <1> QED BY <1>1, <1>3 DEF BLFRND, BlfPairs

(* A round undoes itself, with the halves exchanged.                       *)
LEMMA RoundBack ==
  ASSUME NEW S \in Boxes, NEW P \in Subkeys, NEW R \in Subkeys, NEW x \in BlfPairs,
         NEW n \in 1..BLF_N, R[BLF_N + 1 - n] = P[n]
  PROVE  LET y == BLFRND(S, P, x, n)
         IN  BLFRND(S, R, <<y[2], y[1]>>, BLF_N + 1 - n) = <<x[2], x[1]>>
  <1> DEFINE m == BLF_N + 1 - n
             a == x[1]
             b == x[2]
             k == P[n]
  <1>1. a \in BlfWords /\ b \in BlfWords /\ k \in BlfWords /\ x = <<a, b>>
    BY BlfSizes DEF BlfPairs, Subkeys
  <1>2. R[m] = k
    OBVIOUS
  <1>3. m \in 1..BLF_N /\ n \in Nat /\ (n % 2 = 1 => m % 2 = 0) /\ (n % 2 = 0 => m % 2 = 1) /\ n % 2 \in 0..1
    <2>1. BLF_N \in Nat /\ BLF_N % 2 = 0
      BY BlowfishAssumption
    <2> QED BY <2>1
  <1>4. BLFRND(S, P, x, n) = IF n % 2 = 1 THEN <<a, xor(b, xor(F(S, a), k))>> ELSE <<xor(a, xor(F(S, b), k)), b>>
    BY DEF BLFRND
  <1>5. \A i, j \in BlfWords :
          BLFRND(S, R, <<i, j>>, m) = IF m % 2 = 1 THEN <<i, xor(j, xor(F(S, i), k))>> ELSE <<xor(i, xor(F(S, j), k)), j>>
    BY <1>2 DEF BLFRND
  <1> HIDE DEF a, b, k, m
  <1>6. CASE n % 2 = 1
    <2> DEFINE u == xor(F(S, a), k)
               v == xor(b, u)
    <2>1. u \in BlfWords
      BY <1>1, FIsWord, XorBack
    <2>2. v \in BlfWords /\ xor(v, u) = b
      <3> HIDE DEF u
      <3> QED BY <1>1, <2>1, XorBack
    <2>3. BLFRND(S, P, x, n) = <<a, v>>
      BY <1>4, <1>6
    <2>4. BLFRND(S, R, <<v, a>>, m) = <<xor(v, u), a>>
      <3>1. m % 2 # 1
        BY <1>3, <1>6
      <3> HIDE DEF v
      <3>2. BLFRND(S, R, <<v, a>>, m) =
              IF m % 2 = 1 THEN <<v, xor(a, xor(F(S, v), k))>> ELSE <<xor(v, xor(F(S, a), k)), a>>
        BY <1>1, <1>5, <2>2
      <3> QED BY <3>1, <3>2
    <2> HIDE DEF v
    <2> QED BY <2>2, <2>3, <2>4 DEF m, a, b
  <1>7. CASE n % 2 = 0
    <2> DEFINE u == xor(F(S, b), k)
               v == xor(a, u)
    <2>1. u \in BlfWords
      BY <1>1, FIsWord, XorBack
    <2>2. v \in BlfWords /\ xor(v, u) = a
      <3> HIDE DEF u
      <3> QED BY <1>1, <2>1, XorBack
    <2>3. BLFRND(S, P, x, n) = <<v, b>>
      BY <1>4, <1>7
    <2>4. BLFRND(S, R, <<b, v>>, m) = <<b, xor(v, u)>>
      <3>1. m % 2 = 1
        BY <1>3, <1>7
      <3> HIDE DEF v
      <3>2. BLFRND(S, R, <<b, v>>, m) =
              IF m % 2 = 1 THEN <<b, xor(v, xor(F(S, b), k))>> ELSE <<xor(b, xor(F(S, v), k)), v>>
        BY <1>1, <1>5, <2>2
      <3> QED BY <3>1, <3>2
    <2> HIDE DEF v
    <2> QED BY <2>2, <2>3, <2>4 DEF m, a, b
  <1> QED BY <1>3, <1>6, <1>7

(* The halves after each round.                                            *)
Rounded(f, S, P, xl, xr) ==
  /\ f[0] = <<xor(xl, P[0]), xr>>
  /\ \A n \in 1..BLF_N : f[n] = BLFRND(S, P, f[n - 1], n)
  /\ \A n \in 0..BLF_N : f[n] \in BlfPairs

LEMMA FeistelIs ==
  ASSUME NEW S \in Boxes, NEW P \in Subkeys, NEW xl \in BlfWords, NEW xr \in BlfWords
  PROVE  \E f : /\ Rounded(f, S, P, xl, xr)
                /\ Feistel(S, P, xl, xr) = <<xor(f[BLF_N][2], P[BLF_N + 1]), f[BLF_N][1]>>
  <1> DEFINE c == <<xor(xl, P[0]), xr>>
             step == [p \in Nat \X BlfPairs |-> IF p[1] \in 1..BLF_N THEN BLFRND(S, P, p[2], p[1]) ELSE c]
             IsAfter(g) == g = [n \in 0..BLF_N |-> IF n = 0 THEN <<xor(xl, P[0]), xr>> ELSE BLFRND(S, P, g[n - 1], n)]
             after == CHOOSE g : IsAfter(g)
  <1>0. BLF_N \in Nat
    BY BlfSizes
  <1>1. c \in BlfPairs
    <2>1. P[0] \in BlfWords
      BY <1>0 DEF Subkeys
    <2> QED BY <2>1, XorBack DEF BlfPairs
  <1>2. step \in [Nat \X BlfPairs -> BlfPairs]
    <2> SUFFICES ASSUME NEW p \in Nat \X BlfPairs, p[1] \in 1..BLF_N PROVE BLFRND(S, P, p[2], p[1]) \in BlfPairs
      BY <1>1
    <2>1. p[2] \in BlfPairs /\ p[1] \in 0..(BLF_N + 1)
      BY <1>0
    <2> QED BY <2>1, RoundIs
  <1>3. PICK g : Recursion(g, BlfPairs, c, step)
    <2> HIDE DEF step, c
    <2> QED BY <1>1, <1>2, RecursionExists
  <1> DEFINE h == [n \in 0..BLF_N |-> g[n]]
  <1>4. ASSUME NEW n \in 0..BLF_N
        PROVE  h[n] = IF n = 0 THEN c ELSE BLFRND(S, P, h[n - 1], n)
    <2>1. g \in [Nat -> BlfPairs] /\ g[0] = c /\ \A m \in Nat : g[m + 1] = step[<<m + 1, g[m]>>]
      BY <1>3 DEF Recursion
    <2>2. CASE n = 0
      BY <2>1, <2>2
    <2>3. CASE n # 0
      <3>1. n - 1 \in Nat /\ (n - 1) + 1 = n /\ n - 1 \in 0..BLF_N /\ n \in 1..BLF_N
        BY <1>0, <2>3
      <3>2. g[n] = step[<<n, g[n - 1]>>] /\ g[n - 1] \in BlfPairs
        BY <2>1, <3>1
      <3> DEFINE q == <<n, g[n - 1]>>
      <3>3. q \in Nat \X BlfPairs /\ q[1] = n /\ q[2] = g[n - 1]
        BY <3>1, <3>2
      <3> HIDE DEF q
      <3>4. step[q] = BLFRND(S, P, g[n - 1], n)
        BY <3>1, <3>3
      <3> HIDE DEF step
      <3>5. g[n] = BLFRND(S, P, g[n - 1], n)
        BY <3>2, <3>4 DEF q
      <3> QED BY <2>3, <3>1, <3>5
    <2> QED BY <2>2, <2>3
  <1>5. IsAfter(h)
    <2>1. h = [n \in 0..BLF_N |-> h[n]]
      OBVIOUS
    <2> HIDE DEF h
    <2> QED BY <1>4, <2>1
  <1> HIDE DEF h
  <1>6. IsAfter(after)
    BY <1>5
  <1>7. Feistel(S, P, xl, xr) = <<xor(after[BLF_N][2], P[BLF_N + 1]), after[BLF_N][1]>>
    BY DEF Feistel
  <1> HIDE DEF after
  <1>8. after[0] = c /\ \A n \in 1..BLF_N : after[n] = BLFRND(S, P, after[n - 1], n)
    BY <1>0, <1>6
  <1>9. ASSUME NEW n \in 1..BLF_N, after[n - 1] \in BlfPairs PROVE after[n] \in BlfPairs
    BY <1>0, <1>8, <1>9, RoundIs
  <1>10. \A n \in 0..BLF_N : after[n] \in BlfPairs
    <2>1. after[0] \in BlfPairs
      BY <1>1, <1>8
    <2> QED BY <1>0, <1>9, <2>1, RecursionStays
  <1> QED BY <1>7, <1>8, <1>10 DEF Rounded

LEMMA EncipheredIs ==
  ASSUME NEW c \in Contexts, NEW xl \in BlfWords, NEW xr \in BlfWords
  PROVE  Blowfish_encipher(c, xl, xr) \in BlfPairs
  <1>1. c.S \in Boxes /\ c.P \in Subkeys
    BY DEF Contexts
  <1>2. PICK f : /\ Rounded(f, c.S, c.P, xl, xr)
                 /\ Feistel(c.S, c.P, xl, xr) = <<xor(f[BLF_N][2], c.P[BLF_N + 1]), f[BLF_N][1]>>
    BY <1>1, FeistelIs
  <1>3. f[BLF_N] \in BlfPairs /\ c.P[BLF_N + 1] \in BlfWords
    BY <1>1, <1>2, BlfSizes DEF Rounded, Subkeys
  <1>4. xor(f[BLF_N][2], c.P[BLF_N + 1]) \in BlfWords
    BY <1>3, XorBack DEF BlfPairs
  <1> QED BY <1>2, <1>3, <1>4 DEF Blowfish_encipher, BlfPairs

(* Blowfish_decipher goes back the way that Blowfish_encipher went.        *)
LEMMA DecipherIsInverse ==
  ASSUME NEW c \in Contexts, NEW xl \in BlfWords, NEW xr \in BlfWords
  PROVE  LET y == Blowfish_encipher(c, xl, xr)
         IN  Blowfish_decipher(c, y[1], y[2]) = <<xl, xr>>
  <1> DEFINE S == c.S
             P == c.P
             R == [k \in DOMAIN P |-> P[BLF_N + 1 - k]]
             N == BLF_N
  <1>0. N \in Nat
    BY BlfSizes
  <1>1. S \in Boxes /\ P \in Subkeys /\ DOMAIN P = 0..(N + 1)
    BY DEF Contexts, Subkeys
  <1>2. R \in Subkeys /\ \A k \in 0..(N + 1) : R[k] = P[N + 1 - k]
    <2>1. \A k \in 0..(N + 1) : N + 1 - k \in 0..(N + 1)
      BY <1>0
    <2> QED BY <1>1, <2>1 DEF Subkeys
  <1>3. /\ Blowfish_encipher(c, xl, xr) = Feistel(S, P, xl, xr)
        /\ \A i, j \in BlfWords : Blowfish_decipher(c, i, j) = Feistel(S, R, i, j)
    BY DEF Blowfish_encipher, Blowfish_decipher
  <1> HIDE DEF S, P, R
  <1>4. PICK f : Rounded(f, S, P, xl, xr) /\ Feistel(S, P, xl, xr) = <<xor(f[N][2], P[N + 1]), f[N][1]>>
    BY <1>1, FeistelIs
  <1> DEFINE yl == xor(f[N][2], P[N + 1])
             yr == f[N][1]
  <1>5. f[N] \in BlfPairs /\ P[N + 1] \in BlfWords /\ P[0] \in BlfWords
    BY <1>0, <1>1, <1>4 DEF Rounded, Subkeys
  <1>6. yl \in BlfWords /\ yr \in BlfWords /\ xor(yl, P[N + 1]) = f[N][2]
    BY <1>5, XorBack DEF BlfPairs
  <1>7. Blowfish_encipher(c, xl, xr) = <<yl, yr>>
    BY <1>3, <1>4
  <1> HIDE DEF yl, yr
  <1>8. PICK g : Rounded(g, S, R, yl, yr) /\ Feistel(S, R, yl, yr) = <<xor(g[N][2], R[N + 1]), g[N][1]>>
    BY <1>1, <1>2, <1>6, FeistelIs
  <1>9. R[0] = P[N + 1] /\ R[N + 1] = P[0]
    BY <1>0, <1>2
  <1> DEFINE T == {k \in Nat : k <= N => g[k] = <<f[N - k][2], f[N - k][1]>>}
  <1>10. 0 \in T
    <2>1. g[0] = <<xor(yl, R[0]), yr>> /\ N - 0 = N
      BY <1>0, <1>8 DEF Rounded
    <2> QED BY <1>6, <1>9, <2>1 DEF yr
  <1>11. ASSUME NEW k \in Nat, k \in T PROVE k + 1 \in T
    <2> SUFFICES ASSUME k + 1 <= N PROVE g[k + 1] = <<f[N - (k + 1)][2], f[N - (k + 1)][1]>>
      OBVIOUS
    <2> DEFINE n == N - k
    <2>1. n \in 1..N /\ n - 1 = N - (k + 1) /\ N + 1 - n = k + 1 /\ k + 1 \in 1..N /\ (k + 1) - 1 = k
          /\ n - 1 \in 0..N /\ n \in 0..N /\ k + 1 \in 0..(N + 1) /\ N + 1 - (k + 1) = n
      BY <1>0
    <2>2. f[n] = BLFRND(S, P, f[n - 1], n) /\ f[n - 1] \in BlfPairs
      BY <1>4, <2>1 DEF Rounded
    <2>3. g[k + 1] = BLFRND(S, R, g[k], k + 1)
      BY <1>8, <2>1 DEF Rounded
    <2>4. g[k] = <<f[n][2], f[n][1]>>
      <3>1. k <= N
        BY <1>0
      <3> QED BY <1>11, <3>1
    <2>5. R[N + 1 - n] = P[n]
      BY <1>2, <2>1
    <2> DEFINE x == f[n - 1]
               y == BLFRND(S, P, x, n)
    <2>6. BLFRND(S, R, <<y[2], y[1]>>, N + 1 - n) = <<x[2], x[1]>>
      <3> HIDE DEF x, n
      <3>1. x \in BlfPairs /\ n \in 1..BLF_N /\ R[BLF_N + 1 - n] = P[n]
        BY <2>1, <2>2, <2>5 DEF x
      <3> QED BY <1>1, <1>2, <3>1, RoundBack
    <2>7. y = f[n]
      BY <2>2
    <2> HIDE DEF y
    <2>8. BLFRND(S, R, g[k], k + 1) = <<x[2], x[1]>>
      BY <2>1, <2>4, <2>6, <2>7
    <2> QED BY <2>1, <2>3, <2>8
  <1> HIDE DEF T
  <1>12. N \in T
    BY <1>0, <1>10, <1>11, NatInSet
  <1>13. g[N] = <<xr, xor(xl, P[0])>>
    <2>1. g[N] = <<f[0][2], f[0][1]>>
      <3>1. N <= N /\ N - N = 0
        BY <1>0
      <3> QED BY <1>12, <3>1 DEF T
    <2>2. f[0] = <<xor(xl, P[0]), xr>>
      BY <1>4 DEF Rounded
    <2> QED BY <2>1, <2>2
  <1>14. xor(xor(xl, P[0]), P[0]) = xl
    BY <1>5, XorBack
  <1>15. Feistel(S, R, yl, yr) = <<xl, xr>>
    BY <1>8, <1>9, <1>13, <1>14
  <1> QED BY <1>3, <1>6, <1>7, <1>15

-----------------------------------------------------------------------------
(* The key schedule.                                                       *)

(* The words of a stream are where its bytes lead.                         *)
LEMMA StreamIn ==
  ASSUME NEW data \in Seq(BlfBytes) \ {<< >>}, NEW V \in SUBSET BlfWords, 0 \in V,
         \A x \in V, k \in 1..Len(data) : Add32(x * Digit, data[k]) \in V, NEW words \in Nat
  PROVE  Stream(data, words) \in [1..words -> V]
  <1> DEFINE S == [word : V, current : 0..Len(data)]
             c == [word |-> 0, current |-> 0]
             Read(x) == Blowfish_stream2word(data, x.current)
             step == [p \in Nat \X S |-> Read(p[2])]
             IsW(g) == g = [k \in 0..words |-> IF k = 0 THEN [word |-> 0, current |-> 0]
                                               ELSE Blowfish_stream2word(data, g[k - 1].current)]
             w == CHOOSE g : IsW(g)
  <1>1. Len(data) \in Nat \ {0}
    OBVIOUS
  <1>2. ASSUME NEW x \in S PROVE ByteRead(data, x) \in S
    <2> DEFINE j == IF x.current >= Len(data) THEN 0 ELSE x.current
    <2>1. j \in 0..Len(data) /\ j + 1 \in 1..Len(data) /\ x.word \in V
      BY <1>1
    <2>2. ByteRead(data, x) = [word |-> Add32(x.word * Digit, data[j + 1]), current |-> j + 1]
      BY DEF ByteRead
    <2> HIDE DEF j
    <2>3. Add32(x.word * Digit, data[j + 1]) \in V
      BY <2>1
    <2>4. j + 1 \in 0..Len(data)
      BY <1>1, <2>1
    <2> QED BY <2>2, <2>3, <2>4
  <1>3. c \in S
    BY <1>1
  <1>4. ASSUME NEW x \in S PROVE Read(x) \in S
    <2> DEFINE x0 == [word |-> 0, current |-> x.current]
               x1 == ByteRead(data, x0)
               x2 == ByteRead(data, x1)
               x3 == ByteRead(data, x2)
    <2>1. x0 \in S
      OBVIOUS
    <2>2. Read(x) = ByteRead(data, x3)
      BY DEF Blowfish_stream2word
    <2> HIDE DEF S, x0, Read
    <2>3. x1 \in S
      BY <1>2, <2>1
    <2> HIDE DEF x1
    <2>4. x2 \in S
      BY <1>2, <2>3
    <2> HIDE DEF x2
    <2>5. x3 \in S
      BY <1>2, <2>4
    <2> HIDE DEF x3
    <2> QED BY <1>2, <2>2, <2>5
  <1> HIDE DEF S
  <1>5. step \in [Nat \X S -> S]
    <2> HIDE DEF Read
    <2> QED BY <1>4
  <1>6. PICK h : h \in [0..words -> S] /\ h[0] = c /\ \A n \in 1..words : h[n] = step[<<n, h[n - 1]>>]
    <2> HIDE DEF step, c
    <2>1. \E h : Steps(h, S, words, c, step)
      BY <1>3, <1>5, StepsExist
    <2> QED BY <2>1 DEF Steps
  <1>7. ASSUME NEW n \in 1..words PROVE h[n] = Read(h[n - 1])
    <2>1. n \in Nat /\ n - 1 \in 0..words
      OBVIOUS
    <2>2. h[n - 1] \in S
      BY <1>6, <2>1
    <2> HIDE DEF Read
    <2> QED BY <1>6, <2>1, <2>2
  <1>8. IsW(h)
    <2>1. h[0] = c /\ \A n \in 0..words : n # 0 => n \in 1..words
      BY <1>6
    <2>2. \A n \in 0..words : h[n] = IF n = 0 THEN c ELSE Read(h[n - 1])
      <3> HIDE DEF Read, c
      <3> QED BY <1>7, <2>1
    <2>3. h = [n \in 0..words |-> h[n]]
      BY <1>6
    <2> QED BY <2>2, <2>3
  <1>9. IsW(w)
    BY <1>8
  <1>10. Stream(data, words) = [k \in 1..words |-> w[k].word]
    BY DEF Stream
  <1> HIDE DEF w, step
  <1>11. w[0] = c /\ \A n \in 1..words : w[n] = Read(w[n - 1])
    BY <1>9
  <1> HIDE DEF Read, c, IsW
  <1>12. \A n \in 1..words : w[n - 1] \in S => w[n] \in S
    BY <1>4, <1>11
  <1>13. \A n \in 0..words : w[n] \in S
    BY <1>3, <1>11, <1>12, RecursionStays
  <1>14. \A n \in 1..words : w[n].word \in V
    BY <1>13 DEF S
  <1> QED BY <1>10, <1>14

LEMMA StreamIs ==
  ASSUME NEW data \in Seq(BlfBytes) \ {<< >>}, NEW words \in Nat
  PROVE  /\ Stream(data, words) \in [1..words -> BlfWords]
         /\ (\A k \in 1..Len(data) : data[k] = 0) => Stream(data, words) = [k \in 1..words |-> 0]
  <1>1. 0 \in BlfWords /\ Digit \in Nat /\ BlfWords \subseteq Nat /\ BlfBytes \subseteq Nat /\ WordSize \in Nat \ {0}
    BY BlfSizes
  <1>2. Stream(data, words) \in [1..words -> BlfWords]
    <2>1. ASSUME NEW x \in BlfWords, NEW k \in 1..Len(data) PROVE Add32(x * Digit, data[k]) \in BlfWords
      <3>0. data[k] \in BlfBytes
        OBVIOUS
      <3>1. data[k] \in Nat
        BY <1>1, <3>0
      <3>2. x * Digit \in Nat
        BY <1>1
      <3> QED BY <3>1, <3>2, AddIsWord
    <2> QED BY <1>1, <2>1, StreamIn
  <1>3. ASSUME \A k \in 1..Len(data) : data[k] = 0 PROVE Stream(data, words) = [k \in 1..words |-> 0]
    <2>1. Add32(0 * Digit, 0) = 0
      <3>1. 0 * Digit = 0
        BY <1>1
      <3>2. 0 % WordSize = 0
        BY <1>1
      <3> QED BY <3>1, <3>2 DEF Add32
    <2> DEFINE V == {0}
    <2>2. V \in SUBSET BlfWords /\ 0 \in V
      BY <1>1
    <2>3. \A x \in V, k \in 1..Len(data) : Add32(x * Digit, data[k]) \in V
      BY <1>3, <2>1
    <2> HIDE DEF V
    <2>4. Stream(data, words) \in [1..words -> V]
      BY <2>2, <2>3, StreamIn
    <2> QED BY <2>4 DEF V
  <1> QED BY <1>2, <1>3

LEMMA PairStoredIs ==
  ASSUME NEW c \in Contexts, NEW n \in Nat, NEW x \in BlfPairs
  PROVE  PairStored(c, n, x) \in Contexts
  <1>1. x[1] \in BlfWords /\ x[2] \in BlfWords /\ c.P \in Subkeys /\ c.S \in Boxes /\ c = [P |-> c.P, S |-> c.S]
    BY DEF BlfPairs, Contexts
  <1>2. CASE 2 * n < BLF_N + 2
    <2> DEFINE Q == [c.P EXCEPT ![2 * n] = x[1], ![2 * n + 1] = x[2]]
    <2>1. Q \in Subkeys
      BY <1>1 DEF Subkeys
    <2>2. PairStored(c, n, x) = [c EXCEPT !.P = Q]
      BY <1>1, <1>2 DEF PairStored, Contexts
    <2> HIDE DEF Q
    <2> QED BY <1>1, <2>1, <2>2 DEF Contexts
  <1>3. CASE ~ (2 * n < BLF_N + 2)
    <2> DEFINE k == 2 * n - (BLF_N + 2)
               b == k \div Digit
               l == k % Digit
               m == l + 1
               R == [c.S EXCEPT ![b][l] = x[1], ![b][m] = x[2]]
    <2>1. PairStored(c, n, x) = [c EXCEPT !.S[b][l] = x[1], !.S[b][m] = x[2]]
      BY <1>3 DEF PairStored
    <2> HIDE DEF m, l, b, k
    <2>2. R \in Boxes
      BY <1>1 DEF Boxes
    <2>3. PairStored(c, n, x) = [c EXCEPT !.S = R]
      BY <1>1, <2>1 DEF Contexts
    <2> HIDE DEF R
    <2> QED BY <1>1, <2>2, <2>3 DEF Contexts
  <1> QED BY <1>2, <1>3

LEMMA KeyedIs ==
  ASSUME NEW c \in Contexts, NEW keywords \in [1..(BLF_N + 2) -> BlfWords]
  PROVE  Keyed(c, keywords) \in Contexts
  <1>1. c.P \in Subkeys /\ BLF_N \in Nat
    BY BlfSizes DEF Contexts
  <1>2. ASSUME NEW k \in 0..(BLF_N + 1) PROVE xor(c.P[k], keywords[k + 1]) \in BlfWords
    <2>1. k + 1 \in 1..(BLF_N + 2)
      BY <1>1
    <2>2. c.P[k] \in BlfWords /\ keywords[k + 1] \in BlfWords
      BY <1>1, <2>1 DEF Subkeys
    <2> QED BY <2>2, XorBack
  <1> DEFINE Q == [k \in 0..(BLF_N + 1) |-> xor(c.P[k], keywords[k + 1])]
  <1>3. Q \in Subkeys
    BY <1>2 DEF Subkeys
  <1>4. Keyed(c, keywords) = [c EXCEPT !.P = Q]
    BY DEF Keyed
  <1> HIDE DEF Q
  <1> QED BY <1>3, <1>4 DEF Contexts

LEMMA PairsIsNat == Pairs \in Nat
  <1> DEFINE x == BLF_N + 2 + 4 * Digit
  <1>1. x \in Nat
    BY BlfSizes
  <1> HIDE DEF x
  <1>2. x \div 2 \in Nat
    BY <1>1
  <1> QED BY <1>2 DEF x, Pairs

LEMMA ReplacedIs ==
  ASSUME NEW before \in [ctx : Contexts, pair : BlfPairs],
         NEW saltwords \in [1..(2 * Pairs) -> BlfWords], NEW n \in 1..Pairs
  PROVE  Replaced(before, saltwords, n) \in [ctx : Contexts, pair : BlfPairs]
  <1>1. 2 * n - 1 \in 1..(2 * Pairs) /\ 2 * n \in 1..(2 * Pairs) /\ n - 1 \in Nat
    BY PairsIsNat
  <1>2. before.ctx \in Contexts /\ before.pair \in BlfPairs
    OBVIOUS
  <1>3. before.pair[1] \in BlfWords /\ before.pair[2] \in BlfWords
    BY <1>2 DEF BlfPairs
  <1> DEFINE i == xor(before.pair[1], saltwords[2 * n - 1])
             j == xor(before.pair[2], saltwords[2 * n])
             x == Blowfish_encipher(before.ctx, i, j)
             d == PairStored(before.ctx, n - 1, x)
  <1>4. i \in BlfWords /\ j \in BlfWords
    BY <1>1, <1>3, XorBack
  <1>5. Replaced(before, saltwords, n) = [ctx |-> d, pair |-> x]
    BY DEF Replaced
  <1> HIDE DEF i, j
  <1>6. x \in BlfPairs
    BY <1>2, <1>4, EncipheredIs
  <1> HIDE DEF x
  <1>7. d \in Contexts
    BY <1>1, <1>2, <1>6, PairStoredIs
  <1> QED BY <1>5, <1>6, <1>7

LEMMA BlfExpandedIs ==
  ASSUME NEW c \in Contexts, NEW saltwords \in [1..(2 * Pairs) -> BlfWords],
         NEW ckey \in Seq(BlfBytes) \ {<< >>}
  PROVE  BlfExpanded(c, saltwords, ckey) \in Contexts
  <1> DEFINE S == [ctx : Contexts, pair : BlfPairs]
             first == [ctx |-> Keyed(c, Stream(ckey, BLF_N + 2)), pair |-> <<0, 0>>]
             Next1(x, n) == Replaced(x, saltwords, n)
             step == [p \in Nat \X S |-> IF p[1] \in 1..Pairs THEN Next1(p[2], p[1]) ELSE first]
             IsS(g) == g = [n \in 0..Pairs |-> IF n = 0
                              THEN [ctx |-> Keyed(c, Stream(ckey, BLF_N + 2)), pair |-> <<0, 0>>]
                              ELSE Replaced(g[n - 1], saltwords, n)]
             s == CHOOSE g : IsS(g)
  <1>1. first \in S
    <2>1. BLF_N + 2 \in Nat /\ <<0, 0>> \in BlfPairs
      BY BlfSizes DEF BlfPairs
    <2>2. Stream(ckey, BLF_N + 2) \in [1..(BLF_N + 2) -> BlfWords]
      BY <2>1, StreamIs
    <2>3. Keyed(c, Stream(ckey, BLF_N + 2)) \in Contexts
      BY <2>2, KeyedIs
    <2> QED BY <2>1, <2>3
  <1>2. ASSUME NEW x \in S, NEW n \in 1..Pairs PROVE Next1(x, n) \in S
    BY ReplacedIs
  <1>3. BlfExpanded(c, saltwords, ckey) = s[Pairs].ctx
    BY DEF BlfExpanded
  <1>4. step \in [Nat \X S -> S]
    <2> HIDE DEF S, first, Next1
    <2> QED BY <1>1, <1>2
  <1>5. PICK h : h \in [0..Pairs -> S] /\ h[0] = first /\ \A n \in 1..Pairs : h[n] = step[<<n, h[n - 1]>>]
    <2> HIDE DEF step, first, S
    <2>1. \E h : Steps(h, S, Pairs, first, step)
      BY <1>1, <1>4, PairsIsNat, StepsExist
    <2> QED BY <2>1 DEF Steps
  <1>6. ASSUME NEW n \in 1..Pairs PROVE h[n] = Next1(h[n - 1], n)
    <2> HIDE DEF S
    <2>1. n \in Nat /\ n - 1 \in 0..Pairs
      BY PairsIsNat
    <2>2. h[n - 1] \in S
      BY <1>5, <2>1
    <2> DEFINE q == <<n, h[n - 1]>>
    <2>3. q \in Nat \X S /\ q[1] = n /\ q[2] = h[n - 1]
      BY <2>1, <2>2
    <2>4. h[n] = step[q]
      BY <1>5
    <2> HIDE DEF q, Next1, first
    <2>5. step[q] = Next1(q[2], q[1])
      BY <2>3
    <2> QED BY <2>3, <2>4, <2>5
  <1>7. IsS(h)
    <2>1. \A n \in 0..Pairs : n # 0 => n \in 1..Pairs
      BY PairsIsNat
    <2>2. \A n \in 0..Pairs : h[n] = IF n = 0 THEN first ELSE Next1(h[n - 1], n)
      <3> HIDE DEF Next1, first, step, S
      <3> QED BY <1>5, <1>6, <2>1
    <2>3. h = [n \in 0..Pairs |-> h[n]]
      BY <1>5
    <2> QED BY <2>2, <2>3
  <1>8. IsS(s)
    BY <1>7
  <1> HIDE DEF s, step
  <1>9. s[0] = first /\ \A n \in 1..Pairs : s[n] = Next1(s[n - 1], n)
    <2>1. \A n \in 0..Pairs : s[n] = IF n = 0 THEN first ELSE Next1(s[n - 1], n)
      BY <1>8
    <2>2. 0 \in 0..Pairs /\ \A n \in 1..Pairs : n \in 0..Pairs /\ n # 0
      BY PairsIsNat
    <2> HIDE DEF Next1, first, IsS, S
    <2> QED BY <2>1, <2>2
  <1> HIDE DEF Next1, first, IsS, S
  <1>10. \A n \in 1..Pairs : s[n - 1] \in S => s[n] \in S
    BY <1>2, <1>9
  <1>11. \A n \in 0..Pairs : s[n] \in S
    BY <1>1, <1>9, <1>10, PairsIsNat, RecursionStays
  <1>12. s[Pairs] \in S
    BY <1>11, PairsIsNat
  <1> QED BY <1>3, <1>12 DEF S

LEMMA ExpandedIs ==
  ASSUME NEW c \in Contexts, NEW ckey \in Seq(BlfBytes) \ {<< >>}
  PROVE  /\ Blowfish_expand0state(c, ckey) \in Contexts
         /\ \A salt \in Seq(BlfBytes) \ {<< >>} :
              /\ Blowfish_expandstate(c, salt, ckey) \in Contexts
              /\ (\A k \in 1..Len(salt) : salt[k] = 0) =>
                   Blowfish_expandstate(c, salt, ckey) = Blowfish_expand0state(c, ckey)
  <1> DEFINE zeros == [k \in 1..(2 * Pairs) |-> 0]
  <1>1. zeros \in [1..(2 * Pairs) -> BlfWords] /\ 2 * Pairs \in Nat
    BY BlfSizes, PairsIsNat
  <1>2. Blowfish_expand0state(c, ckey) = BlfExpanded(c, zeros, ckey)
    BY DEF Blowfish_expand0state
  <1> HIDE DEF zeros
  <1>3. Blowfish_expand0state(c, ckey) \in Contexts
    BY <1>1, <1>2, BlfExpandedIs
  <1>4. ASSUME NEW salt \in Seq(BlfBytes) \ {<< >>}
        PROVE  /\ Blowfish_expandstate(c, salt, ckey) \in Contexts
               /\ (\A k \in 1..Len(salt) : salt[k] = 0) =>
                    Blowfish_expandstate(c, salt, ckey) = Blowfish_expand0state(c, ckey)
    <2> DEFINE w == Stream(salt, 2 * Pairs)
    <2>1. w \in [1..(2 * Pairs) -> BlfWords] /\ ((\A k \in 1..Len(salt) : salt[k] = 0) => w = zeros)
      BY <1>1, StreamIs DEF zeros
    <2>2. Blowfish_expandstate(c, salt, ckey) = BlfExpanded(c, w, ckey)
      BY DEF Blowfish_expandstate
    <2> HIDE DEF w
    <2>3. BlfExpanded(c, w, ckey) \in Contexts
      BY <2>1, BlfExpandedIs
    <2> QED BY <1>2, <2>1, <2>2, <2>3
  <1> QED BY <1>3, <1>4

LEMMA InitstateIs == Blowfish_initstate \in Contexts
  BY BlowfishAssumption DEF Blowfish_initstate, Contexts, Subkeys, Boxes

LEMMA BcryptStateIs ==
  ASSUME NEW ckey \in Seq(BlfBytes) \ {<< >>}, NEW salt \in Seq(BlfBytes) \ {<< >>}
  PROVE  BcryptState(ckey, salt) \in Contexts
  <1> DEFINE S == Contexts
             first == Blowfish_expandstate(Blowfish_initstate, salt, ckey)
             Next1(x) == Blowfish_expand0state(Blowfish_expand0state(x, salt), ckey)
             step == [p \in Nat \X S |-> Next1(p[2])]
             IsC(g) == g = [n \in 0..Cost |->
                              IF n = 0 THEN Blowfish_expandstate(Blowfish_initstate, salt, ckey)
                              ELSE Blowfish_expand0state(Blowfish_expand0state(g[n - 1], salt), ckey)]
             s == CHOOSE g : IsC(g)
  <1>0. Cost \in Nat
    BY BlfSizes
  <1>1. first \in S
    BY InitstateIs, ExpandedIs
  <1>2. ASSUME NEW x \in S PROVE Next1(x) \in S
    <2>1. Blowfish_expand0state(x, salt) \in S
      BY ExpandedIs
    <2> QED BY <2>1, ExpandedIs
  <1>3. BcryptState(ckey, salt) = s[Cost]
    BY DEF BcryptState
  <1> HIDE DEF S
  <1>4. step \in [Nat \X S -> S]
    <2> HIDE DEF Next1
    <2> QED BY <1>2
  <1>5. PICK h : h \in [0..Cost -> S] /\ h[0] = first /\ \A n \in 1..Cost : h[n] = step[<<n, h[n - 1]>>]
    <2> HIDE DEF step, first
    <2>1. \E h : Steps(h, S, Cost, first, step)
      BY <1>0, <1>1, <1>4, StepsExist
    <2> QED BY <2>1 DEF Steps
  <1>6. ASSUME NEW n \in 1..Cost PROVE h[n] = Next1(h[n - 1])
    <2>1. n \in Nat /\ n - 1 \in 0..Cost
      BY <1>0
    <2>2. h[n - 1] \in S
      BY <1>5, <2>1
    <2> DEFINE q == <<n, h[n - 1]>>
    <2>3. q \in Nat \X S /\ q[2] = h[n - 1]
      BY <2>1, <2>2
    <2>4. h[n] = step[q]
      BY <1>5
    <2> HIDE DEF q, Next1
    <2>5. step[q] = Next1(q[2])
      BY <2>3
    <2> QED BY <2>3, <2>4, <2>5
  <1>7. IsC(h)
    <2>1. \A n \in 0..Cost : n # 0 => n \in 1..Cost
      BY <1>0
    <2>2. \A n \in 0..Cost : h[n] = IF n = 0 THEN first ELSE Next1(h[n - 1])
      <3> HIDE DEF Next1, first, step
      <3> QED BY <1>5, <1>6, <2>1
    <2>3. h = [n \in 0..Cost |-> h[n]]
      BY <1>5
    <2> QED BY <2>2, <2>3
  <1>8. IsC(s)
    BY <1>7
  <1> HIDE DEF s, step
  <1>9. s[0] = first /\ \A n \in 1..Cost : s[n] = Next1(s[n - 1])
    BY <1>0, <1>8
  <1> HIDE DEF Next1, first, IsC
  <1>10. \A n \in 1..Cost : s[n - 1] \in S => s[n] \in S
    BY <1>2, <1>9
  <1>11. \A n \in 0..Cost : s[n] \in S
    BY <1>0, <1>1, <1>9, <1>10, RecursionStays
  <1>12. s[Cost] \in S
    BY <1>0, <1>11
  <1> QED BY <1>3, <1>12 DEF S


-----------------------------------------------------------------------------
(* Encrypting and decrypting in place.                                     *)

CryptType ==
  /\ blfmode \in Modes /\ blfkey \in BlfKeys /\ blfsalt \in BlfSalts /\ blfiv \in Ivs
  /\ plain \in Plaintexts /\ blf \in Contexts
  /\ text \in [1..Len(plain) -> BlfWords]
  /\ crypting \in {"key", "encrypt", "decrypt", "done"}
  /\ crypting = "key" => text = plain
  /\ crypting # "key" => block \in 1..(Blocks + 1) /\ pass \in 1..Passes

(* What the network is given for a block, with the one before it.          *)
Mixed(mode, x, last) == IF mode = "cbc" THEN <<xor(x[1], last[1]), xor(x[2], last[2])>> ELSE x

PairAt(w, k) == <<w[2 * k - 1], w[2 * k]>>

(* How often a block of the buffer is encrypted now.                       *)
Behind(k) == IF blfmode = "cbc" THEN k > Blocks + 1 - block ELSE k < block
Level(k) ==
  CASE crypting = "encrypt" -> IF k < block THEN pass ELSE pass - 1
    [] crypting = "decrypt" -> IF Behind(k) THEN Passes - pass ELSE Passes - pass + 1
    [] OTHER -> 0
Made(n, k) ==
  \/ crypting \in {"decrypt", "done"}
  \/ crypting = "encrypt" /\ (n < pass \/ (n = pass /\ k < block))

(* What each block is after each encryption of the buffer; the iv stands   *)
(* before the first.                                                       *)
Story(h) ==
  /\ h \in [(0..Passes) \X (0..Blocks) -> BlfPairs]
  /\ \A n \in 0..Passes : h[<<n, 0>>] = blfiv
  /\ \A k \in 1..Blocks : h[<<0, k>>] = PairAt(plain, k)
  /\ \A k \in 1..Blocks : PairAt(text, k) = h[<<Level(k), k>>]
  /\ \A n \in 1..Passes, k \in 1..Blocks : Made(n, k) =>
       LET x == Mixed(blfmode, h[<<n - 1, k>>], h[<<n, k - 1>>])
       IN  h[<<n, k>>] = Blowfish_encipher(blf, x[1], x[2])

CryptInv == CryptType /\ \E h : Story(h)

LEMMA CountsAre ==
  ASSUME plain \in Plaintexts
  PROVE  /\ Blocks \in Nat /\ Len(plain) = 2 * Blocks /\ Passes \in Nat \ {0}
         /\ plain \in [1..Len(plain) -> BlfWords]
         /\ \A k \in 1..Blocks : k \in Nat /\ 2 * k - 1 \in 1..Len(plain) /\ 2 * k \in 1..Len(plain)
  <1>1. plain \in Seq(BlfWords) /\ Len(plain) \in Nat /\ Len(plain) % 2 = 0
    BY BlowfishAssumption
  <1>2. Blocks \in Nat /\ Len(plain) = 2 * Blocks
    BY <1>1 DEF Blocks
  <1>3. Passes \in Nat \ {0}
    BY BlfSizes DEF Passes
  <1>4. plain \in [1..Len(plain) -> BlfWords]
    BY <1>1
  <1> QED BY <1>2, <1>3, <1>4

LEMMA BlockIs ==
  ASSUME NEW k \in Nat
  PROVE  Block(k) = PairAt(text, k)
  <1>1. 1 + 2 * k - (2 * k - 1) = 2
    OBVIOUS
  <1>2. Block(k) = [i \in 1..2 |-> text[i + (2 * k - 1) - 1]]
    BY <1>1 DEF Block, SubSeq
  <1>3. 1 + (2 * k - 1) - 1 = 2 * k - 1 /\ 2 + (2 * k - 1) - 1 = 2 * k
    OBVIOUS
  <1>4. [i \in 1..2 |-> text[i + (2 * k - 1) - 1]] = <<text[2 * k - 1], text[2 * k]>>
    BY <1>3
  <1> QED BY <1>2, <1>4 DEF PairAt

LEMMA MixedIs ==
  ASSUME NEW mode, NEW x \in BlfPairs, NEW last \in BlfPairs
  PROVE  Mixed(mode, x, last) \in BlfPairs /\ Mixed(mode, Mixed(mode, x, last), last) = x
  <1>1. x[1] \in BlfWords /\ x[2] \in BlfWords /\ last[1] \in BlfWords /\ last[2] \in BlfWords /\ x = <<x[1], x[2]>>
    BY DEF BlfPairs
  <1>2. /\ xor(x[1], last[1]) \in BlfWords /\ xor(xor(x[1], last[1]), last[1]) = x[1]
        /\ xor(x[2], last[2]) \in BlfWords /\ xor(xor(x[2], last[2]), last[2]) = x[2]
    BY <1>1, XorBack
  <1> QED BY <1>1, <1>2 DEF Mixed, BlfPairs

(* What a step does to the buffer.                                         *)
PairSet(w, k, x) == [w EXCEPT ![2 * k - 1] = x[1], ![2 * k] = x[2]]

LEMMA PairIsSet ==
  ASSUME NEW m \in Nat, NEW w \in [1..m -> BlfWords], NEW k \in Nat,
         2 * k - 1 \in 1..m, 2 * k \in 1..m, NEW x \in BlfPairs
  PROVE  /\ PairSet(w, k, x) \in [1..m -> BlfWords] /\ PairAt(PairSet(w, k, x), k) = x
         /\ \A l \in Nat : l # k /\ 2 * l - 1 \in 1..m /\ 2 * l \in 1..m =>
              PairAt(PairSet(w, k, x), l) = PairAt(w, l)
  <1> DEFINE v == [w EXCEPT ![2 * k - 1] = x[1], ![2 * k] = x[2]]
  <1>1. x[1] \in BlfWords /\ x[2] \in BlfWords /\ x = <<x[1], x[2]>> /\ 2 * k - 1 # 2 * k
    BY DEF BlfPairs
  <1>2. v \in [1..m -> BlfWords]
    BY <1>1
  <1>3. v[2 * k - 1] = x[1] /\ v[2 * k] = x[2]
    BY <1>1
  <1>4. ASSUME NEW l \in Nat, l # k, 2 * l - 1 \in 1..m, 2 * l \in 1..m
        PROVE  v[2 * l - 1] = w[2 * l - 1] /\ v[2 * l] = w[2 * l]
    <2>1. 2 * l - 1 # 2 * k - 1 /\ 2 * l - 1 # 2 * k /\ 2 * l # 2 * k - 1 /\ 2 * l # 2 * k
      BY <1>4
    <2> QED BY <1>4, <2>1
  <1> HIDE DEF v
  <1>5. PairAt(v, k) = x
    BY <1>1, <1>3 DEF PairAt
  <1>6. \A l \in Nat : l # k /\ 2 * l - 1 \in 1..m /\ 2 * l \in 1..m => PairAt(v, l) = PairAt(w, l)
    BY <1>4 DEF PairAt
  <1> QED BY <1>2, <1>5, <1>6 DEF v, PairSet

LEMMA BufferIsSet ==
  ASSUME plain \in Plaintexts, text \in [1..Len(plain) -> BlfWords],
         NEW b \in 1..Blocks, NEW y \in BlfPairs, text' = PairSet(text, b, y)
  PROVE  /\ text' \in [1..Len(plain) -> BlfWords] /\ PairAt(text', b) = y
         /\ \A k \in 1..Blocks : k # b => PairAt(text', k) = PairAt(text, k)
  <1> DEFINE m == Len(plain)
             w == text
             v == PairSet(w, b, y)
  <1>1. m \in Nat /\ w \in [1..m -> BlfWords] /\ b \in Nat /\ 2 * b - 1 \in 1..m /\ 2 * b \in 1..m
    BY CountsAre
  <1>2. \A k \in 1..Blocks : k \in Nat /\ 2 * k - 1 \in 1..m /\ 2 * k \in 1..m
    BY CountsAre
  <1> HIDE DEF m, w
  <1>3. /\ v \in [1..m -> BlfWords] /\ PairAt(v, b) = y
        /\ \A l \in Nat : l # b /\ 2 * l - 1 \in 1..m /\ 2 * l \in 1..m => PairAt(v, l) = PairAt(w, l)
    BY <1>1, PairIsSet
  <1> HIDE DEF v
  <1>4. \A k \in 1..Blocks : k # b => PairAt(v, k) = PairAt(w, k)
    BY <1>2, <1>3
  <1> QED BY <1>3, <1>4 DEF m, w, v

LEMMA CryptInvInit == BlowfishInit => CryptInv
  <1> SUFFICES ASSUME BlowfishInit PROVE CryptInv
    OBVIOUS
  <1> USE DEF BlowfishInit
  <1>1. CryptType
    BY CountsAre, InitstateIs DEF CryptType
  <1> DEFINE h == [p \in (0..Passes) \X (0..Blocks) |-> IF p[2] = 0 THEN blfiv ELSE PairAt(plain, p[2])]
  <1>2. blfiv \in BlfPairs
    BY BlowfishAssumption DEF BlfPairs
  <1>3. \A k \in 1..Blocks : PairAt(plain, k) \in BlfPairs
    BY CountsAre DEF PairAt, BlfPairs
  <1>4. Blocks \in Nat /\ Passes \in Nat /\ \A k \in 0..Blocks : k # 0 => k \in 1..Blocks
    BY CountsAre
  <1>5. h \in [(0..Passes) \X (0..Blocks) -> BlfPairs]
    BY <1>2, <1>3, <1>4
  <1>6. \A n \in 0..Passes, k \in 0..Blocks : h[<<n, k>>] = IF k = 0 THEN blfiv ELSE PairAt(plain, k)
    OBVIOUS
  <1>7. \A k : Level(k) = 0
    BY DEF Level
  <1>8. \A n, k : ~ Made(n, k)
    BY DEF Made
  <1>9. 0 \in 0..Passes /\ 0 \in 0..Blocks /\ \A k \in 1..Blocks : k \in 0..Blocks /\ k # 0
    BY <1>4
  <1> HIDE DEF h
  <1>10. Story(h)
    BY <1>5, <1>6, <1>7, <1>8, <1>9 DEF Story
  <1> QED BY <1>1, <1>10 DEF CryptInv

LEMMA EncryptKeeps ==
  ASSUME CryptInv, Encrypt
  PROVE  CryptInv'
  <1> DEFINE N == Passes
             B == Blocks
  <1>1. /\ blfmode \in Modes /\ plain \in Plaintexts /\ blf \in Contexts /\ crypting = "encrypt"
        /\ text \in [1..Len(plain) -> BlfWords] /\ pass \in 1..N /\ block \in 1..(B + 1) /\ block <= B
    BY DEF CryptInv, CryptType, Encrypt
  <1>2. /\ B \in Nat /\ N \in Nat \ {0} /\ Len(plain) \in Nat
        /\ \A k \in 1..B : k \in Nat /\ 2 * k - 1 \in 1..Len(plain) /\ 2 * k \in 1..Len(plain)
    BY <1>1, CountsAre
  <1>3. /\ blfmode' = blfmode /\ blfiv' = blfiv /\ plain' = plain /\ blf' = blf /\ B' = B /\ N' = N
        /\ pass' = pass /\ crypting' = "encrypt" /\ block' = block + 1
    BY <1>1 DEF Encrypt, Blocks, Passes
  <1> HIDE DEF N, B
  <1>4. PICK h : Story(h)
    BY DEF CryptInv
  <1>5. /\ h \in [(0..N) \X (0..B) -> BlfPairs] /\ \A n \in 0..N : h[<<n, 0>>] = blfiv
        /\ \A k \in 1..B : h[<<0, k>>] = PairAt(plain, k)
        /\ \A k \in 1..B : PairAt(text, k) = h[<<Level(k), k>>]
        /\ \A n \in 1..N, k \in 1..B : Made(n, k) =>
             LET x == Mixed(blfmode, h[<<n - 1, k>>], h[<<n, k - 1>>])
             IN  h[<<n, k>>] = Blowfish_encipher(blf, x[1], x[2])
    BY <1>4 DEF Story, N, B
  <1>6. block \in 1..B /\ block - 1 \in 0..B /\ pass - 1 \in 0..N /\ pass \in 0..N /\ block \in 0..B /\ block \in Nat
    BY <1>1, <1>2
  <1>7. \A k \in 1..B : Level(k) = IF k < block THEN pass ELSE pass - 1
    BY <1>1 DEF Level
  <1> DEFINE x0 == h[<<pass - 1, block>>]
             l0 == h[<<pass, block - 1>>]
             x == Mixed(blfmode, x0, l0)
             y == Blowfish_encipher(blf, x[1], x[2])
  <1>8. x0 \in BlfPairs /\ l0 \in BlfPairs
    BY <1>5, <1>6
  <1>9. Block(block) = x0
    <2>1. Level(block) = pass - 1
      BY <1>6, <1>7
    <2> QED BY <1>5, <1>6, <2>1, BlockIs
  <1>10. Chained(block, x0) = x
    <2> DEFINE last == IF block = 1 THEN blfiv ELSE Block(block - 1)
    <2>1. CASE block = 1
      BY <1>5, <1>6, <2>1 DEF Chained, Mixed
    <2>2. CASE block # 1
      <3>1. block - 1 \in 1..B /\ block - 1 < block /\ block - 1 \in Nat
        BY <1>6, <2>2
      <3>2. Level(block - 1) = pass
        BY <1>7, <3>1
      <3>3. Block(block - 1) = l0
        BY <1>5, <3>1, <3>2, BlockIs
      <3> QED BY <2>2, <3>3 DEF Chained, Mixed
    <2> QED BY <2>1, <2>2
  <1>11. text' = PairSet(text, block, y)
    BY <1>9, <1>10 DEF Encrypt, BlockSet, PairSet
  <1> HIDE DEF x0, l0
  <1>12. x[1] \in BlfWords /\ x[2] \in BlfWords
    <2>1. x \in BlfPairs
      BY <1>8, MixedIs
    <2> QED BY <2>1 DEF BlfPairs
  <1> HIDE DEF x
  <1>13. y \in BlfPairs
    BY <1>1, <1>12, EncipheredIs
  <1> HIDE DEF y
  <1>14. /\ text' \in [1..Len(plain) -> BlfWords] /\ PairAt(text', block) = y
         /\ \A k \in 1..B : k # block => PairAt(text', k) = PairAt(text, k)
    BY <1>1, <1>6, <1>11, <1>13, BufferIsSet DEF B
  <1>15. CryptType'
    <2>1. block' \in 1..(B' + 1) /\ pass' \in 1..N'
      BY <1>1, <1>2, <1>3
    <2> QED BY <1>1, <1>3, <1>14, <2>1 DEF CryptInv, CryptType, Encrypt, N, B
  <1>16. PICK g : g = [h EXCEPT ![<<pass, block>>] = y]
    OBVIOUS
  <1>17. /\ g \in [(0..N) \X (0..B) -> BlfPairs] /\ g[<<pass, block>>] = y
         /\ \A n \in 0..N, k \in 0..B : (n # pass \/ k # block) => g[<<n, k>>] = h[<<n, k>>]
    BY <1>5, <1>6, <1>13, <1>16
  <1>18. \A n \in 0..N : g[<<n, 0>>] = blfiv
    <2>1. 0 \in 0..B /\ 0 # block
      BY <1>2, <1>6
    <2> QED BY <1>5, <1>17, <2>1
  <1>19. \A k \in 1..B : g[<<0, k>>] = PairAt(plain, k)
    <2>1. 0 \in 0..N /\ 0 # pass /\ \A k \in 1..B : k \in 0..B
      BY <1>1, <1>2
    <2> QED BY <1>5, <1>17, <2>1
  <1>20. ASSUME NEW k \in 1..B PROVE PairAt(text', k) = g[<<Level(k)', k>>]
    <2>1. Level(k)' = IF k < block + 1 THEN pass ELSE pass - 1
      BY <1>3 DEF Level
    <2>2. CASE k = block
      <3>1. Level(k)' = pass
        BY <1>6, <2>1, <2>2
      <3> QED BY <1>14, <1>17, <2>2, <3>1
    <2>3. CASE k # block
      <3>1. Level(k)' = Level(k) /\ Level(k) \in 0..N /\ k \in 0..B
        BY <1>1, <1>2, <1>6, <1>7, <2>1, <2>3
      <3> QED BY <1>5, <1>14, <1>17, <2>3, <3>1
    <2> QED BY <2>2, <2>3
  <1>21. ASSUME NEW n \in 1..N, NEW k \in 1..B, Made(n, k)'
         PROVE  LET z == Mixed(blfmode, g[<<n - 1, k>>], g[<<n, k - 1>>])
                IN  g[<<n, k>>] = Blowfish_encipher(blf, z[1], z[2])
    <2>1. n < pass \/ (n = pass /\ k < block + 1)
      BY <1>3, <1>21 DEF Made
    <2>2. CASE n = pass /\ k = block
      <3>1. g[<<n - 1, k>>] = x0 /\ g[<<n, k - 1>>] = l0
        BY <1>6, <1>17, <2>2 DEF x0, l0
      <3> QED BY <1>17, <2>2, <3>1 DEF x, y
    <2>3. CASE ~ (n = pass /\ k = block)
      <3>1. n < pass \/ (n = pass /\ k < block)
        BY <1>6, <2>1, <2>3
      <3>2. Made(n, k)
        BY <1>1, <3>1 DEF Made
      <3>3. n \in 0..N /\ k \in 0..B /\ n - 1 \in 0..N /\ k - 1 \in 0..B
        BY <1>2
      <3>4. (n - 1 # pass \/ k # block) /\ (n # pass \/ k - 1 # block)
        BY <1>6, <3>1
      <3>5. g[<<n, k>>] = h[<<n, k>>] /\ g[<<n - 1, k>>] = h[<<n - 1, k>>] /\ g[<<n, k - 1>>] = h[<<n, k - 1>>]
        BY <1>17, <2>3, <3>3, <3>4
      <3>6. LET z == Mixed(blfmode, h[<<n - 1, k>>], h[<<n, k - 1>>])
            IN  h[<<n, k>>] = Blowfish_encipher(blf, z[1], z[2])
        BY <1>5, <3>2
      <3> QED BY <3>5, <3>6
    <2> QED BY <2>2, <2>3
  <1>22. Story(g)'
    BY <1>3, <1>17, <1>18, <1>19, <1>20, <1>21 DEF Story, N, B
  <1> QED BY <1>15, <1>22 DEF CryptInv

LEMMA DecryptKeeps ==
  ASSUME CryptInv, Decrypt
  PROVE  CryptInv'
  <1> DEFINE N == Passes
             B == Blocks
             q == N - pass
             b == ToDecrypt(block)
  <1>1. /\ blfmode \in Modes /\ plain \in Plaintexts /\ blf \in Contexts /\ crypting = "decrypt"
        /\ text \in [1..Len(plain) -> BlfWords] /\ pass \in 1..N /\ block \in 1..(B + 1) /\ block <= B
    BY DEF CryptInv, CryptType, Decrypt
  <1>2. B \in Nat /\ N \in Nat \ {0} /\ Len(plain) \in Nat
    BY <1>1, CountsAre
  <1>3. /\ blfmode' = blfmode /\ blfiv' = blfiv /\ plain' = plain /\ blf' = blf /\ B' = B /\ N' = N
        /\ pass' = pass /\ crypting' = "decrypt" /\ block' = block + 1
    BY <1>1 DEF Decrypt, Blocks, Passes
  <1>4. b = IF blfmode = "cbc" THEN B + 1 - block ELSE block
    BY DEF ToDecrypt
  <1>5. text' = BlockSet(b, Chained(b, Blowfish_decipher(blf, Block(b)[1], Block(b)[2])))
    BY DEF Decrypt
  <1> HIDE DEF N, B, b
  <1>6. PICK h : Story(h)
    BY DEF CryptInv
  <1>7. /\ h \in [(0..N) \X (0..B) -> BlfPairs] /\ \A n \in 0..N : h[<<n, 0>>] = blfiv
        /\ \A k \in 1..B : h[<<0, k>>] = PairAt(plain, k)
        /\ \A k \in 1..B : PairAt(text, k) = h[<<Level(k), k>>]
        /\ \A n \in 1..N, k \in 1..B :
             LET x == Mixed(blfmode, h[<<n - 1, k>>], h[<<n, k - 1>>])
             IN  h[<<n, k>>] = Blowfish_encipher(blf, x[1], x[2])
    BY <1>1, <1>6 DEF Story, Made, N, B
  <1>8. /\ b \in 1..B /\ b - 1 \in 0..B /\ b \in 0..B /\ b \in Nat
        /\ q \in 0..N /\ q + 1 \in 1..N /\ q + 1 \in 0..N /\ q \in Nat /\ (q + 1) - 1 = q
    BY <1>1, <1>2, <1>4
  <1>9. \A k \in 1..B : Level(k) = IF Behind(k) THEN q ELSE q + 1
    BY <1>1 DEF Level, N
  <1> HIDE DEF q
  <1>10. \A k \in 1..B : Behind(k) <=> IF blfmode = "cbc" THEN k > B + 1 - block ELSE k < block
    BY DEF Behind, B
  <1> DEFINE x0 == h[<<q, b>>]
             l0 == h[<<q + 1, b - 1>>]
             x == Mixed(blfmode, x0, l0)
             y == Blowfish_encipher(blf, x[1], x[2])
  <1>11. x0 \in BlfPairs /\ l0 \in BlfPairs
    BY <1>7, <1>8
  <1>12. Block(b) = y
    <2>1. Level(b) = q + 1
      BY <1>1, <1>2, <1>4, <1>8, <1>9, <1>10
    <2>2. h[<<q + 1, b>>] = y
      BY <1>7, <1>8
    <2> QED BY <1>7, <1>8, <2>1, <2>2, BlockIs
  <1>13. blfmode = "cbc" => (IF b = 1 THEN blfiv ELSE Block(b - 1)) = l0
    <2> SUFFICES ASSUME blfmode = "cbc" PROVE (IF b = 1 THEN blfiv ELSE Block(b - 1)) = l0
      OBVIOUS
    <2>1. CASE b = 1
      BY <1>7, <1>8, <2>1
    <2>2. CASE b # 1
      <3>1. b - 1 \in 1..B /\ b - 1 \in Nat /\ b - 1 < B + 1 - block
        BY <1>2, <1>4, <1>8, <2>2
      <3>2. Level(b - 1) = q + 1
        BY <1>1, <1>2, <1>9, <1>10, <3>1
      <3>3. Block(b - 1) = l0
        BY <1>7, <3>1, <3>2, BlockIs
      <3> QED BY <2>2, <3>3
    <2> QED BY <2>1, <2>2
  <1>14. \A z : Chained(b, z) = Mixed(blfmode, z, l0)
    BY <1>13 DEF Chained, Mixed
  <1> HIDE DEF x0, l0
  <1>15. x \in BlfPairs /\ Mixed(blfmode, x, l0) = x0
    BY <1>11, MixedIs
  <1> HIDE DEF x
  <1>16. Blowfish_decipher(blf, y[1], y[2]) = x
    <2>1. x[1] \in BlfWords /\ x[2] \in BlfWords /\ x = <<x[1], x[2]>>
      BY <1>15 DEF BlfPairs
    <2>2. Blowfish_decipher(blf, y[1], y[2]) = <<x[1], x[2]>>
      BY <1>1, <2>1, DecipherIsInverse
    <2> QED BY <2>1, <2>2
  <1> HIDE DEF y
  <1>17. text' = PairSet(text, b, x0)
    <2>1. text' = BlockSet(b, x0)
      BY <1>5, <1>12, <1>14, <1>15, <1>16
    <2> QED BY <2>1 DEF BlockSet, PairSet
  <1>18. /\ text' \in [1..Len(plain) -> BlfWords] /\ PairAt(text', b) = x0
         /\ \A k \in 1..B : k # b => PairAt(text', k) = PairAt(text, k)
    BY <1>1, <1>8, <1>11, <1>17, BufferIsSet DEF B
  <1>19. CryptType'
    <2>1. block' \in 1..(B' + 1) /\ pass' \in 1..N'
      BY <1>1, <1>2, <1>3
    <2> QED BY <1>1, <1>3, <1>18, <2>1 DEF CryptInv, CryptType, Decrypt, N, B
  <1>20. ASSUME NEW k \in 1..B PROVE PairAt(text', k) = h[<<Level(k)', k>>]
    <2>1. Behind(k)' <=> IF blfmode = "cbc" THEN k > B + 1 - (block + 1) ELSE k < block + 1
      BY <1>3 DEF Behind, B
    <2>2. Behind(k)' <=> Behind(k) \/ k = b
      BY <1>1, <1>2, <1>4, <1>10, <2>1
    <2>3. Level(k)' = IF Behind(k)' THEN q ELSE q + 1
      BY <1>3 DEF Level, N, q
    <2>4. CASE k = b
      <3>1. Level(k)' = q
        BY <2>2, <2>3, <2>4
      <3> QED BY <1>18, <2>4, <3>1 DEF x0
    <2>5. CASE k # b
      <3>1. Level(k)' = Level(k)
        BY <1>9, <2>2, <2>3, <2>5
      <3> QED BY <1>7, <1>18, <2>5, <3>1
    <2> QED BY <2>4, <2>5
  <1>21. Story(h)'
    BY <1>3, <1>7, <1>20 DEF Story, N, B
  <1> QED BY <1>19, <1>21 DEF CryptInv

LEMMA PassEndKeeps ==
  ASSUME CryptInv, PassEnd
  PROVE  CryptInv'
  <1> DEFINE N == Passes
             B == Blocks
  <1>1. /\ plain \in Plaintexts /\ crypting \in {"encrypt", "decrypt"}
        /\ pass \in 1..N /\ block = B + 1 /\ B \in Nat /\ N \in Nat \ {0}
    BY CountsAre DEF CryptInv, CryptType, PassEnd
  <1>2. /\ blfmode' = blfmode /\ blfiv' = blfiv /\ plain' = plain /\ text' = text /\ blf' = blf
        /\ B' = B /\ N' = N /\ block' = 1
    BY DEF PassEnd, Blocks, Passes
  <1>3. \/ pass < N /\ pass' = pass + 1 /\ crypting' = crypting
        \/ pass = N /\ pass' = 1 /\ crypting' = IF crypting = "encrypt" THEN "decrypt" ELSE "done"
    BY <1>1 DEF PassEnd
  <1>4. CryptType'
    <2>1. block' \in 1..(B' + 1) /\ pass' \in 1..N'
      BY <1>1, <1>2, <1>3
    <2>2. crypting' \in {"encrypt", "decrypt", "done"}
      BY <1>1, <1>3
    <2> QED BY <1>2, <2>1, <2>2 DEF CryptInv, CryptType, PassEnd
  <1>5. \A k \in 1..B : Behind(k) /\ k < block
    BY <1>1 DEF Behind, B
  <1>6. ASSUME NEW k \in 1..B PROVE ~ Behind(k)'
    BY <1>1, <1>2 DEF Behind, B
  <1>7. ASSUME NEW k \in 1..B PROVE Level(k)' = Level(k)
    <2>1. ~ (k < 1) /\ Behind(k) /\ k < block /\ ~ Behind(k)'
      BY <1>5, <1>6
    <2>2. CASE crypting = "encrypt"
      BY <1>1, <1>2, <1>3, <2>1, <2>2 DEF Level, N
    <2>3. CASE crypting = "decrypt"
      BY <1>1, <1>2, <1>3, <2>1, <2>3 DEF Level, N
    <2> QED BY <1>1, <2>2, <2>3
  <1>8. ASSUME NEW n \in 1..N, NEW k \in 1..B, Made(n, k)' PROVE Made(n, k)
    BY <1>1, <1>2, <1>3, <1>5, <1>8 DEF Made
  <1> HIDE DEF N, B
  <1>9. PICK h : Story(h)
    BY DEF CryptInv
  <1>10. Story(h)'
    BY <1>2, <1>7, <1>8, <1>9 DEF Story, N, B
  <1> QED BY <1>4, <1>10 DEF CryptInv

LEMMA CryptInvNext == CryptInv /\ [BlowfishStep]_fvars => CryptInv'
  <1> SUFFICES ASSUME CryptInv, [BlowfishStep]_fvars PROVE CryptInv'
    OBVIOUS
  <1>1. PICK h : Story(h)
    BY DEF CryptInv
  <1>2. CASE KeySchedule
    <2>1. /\ blfkey \in Seq(BlfBytes) \ {<< >>} /\ blfsalt \in Seq(BlfBytes) \ {<< >>} /\ plain \in Plaintexts
          /\ crypting = "key" /\ Blocks \in Nat /\ Passes \in Nat \ {0}
      BY <1>2, BlowfishAssumption, CountsAre DEF CryptInv, CryptType, KeySchedule
    <2>2. blf' \in Contexts
      <3>1. BcryptState(blfkey, blfsalt) \in Contexts
        BY <2>1, BcryptStateIs
      <3>2. blf_key(blfkey) \in Contexts
        BY <2>1, InitstateIs, ExpandedIs DEF blf_key
      <3> QED BY <1>2, <3>1, <3>2 DEF KeySchedule
    <2>3. /\ blfmode' = blfmode /\ blfiv' = blfiv /\ plain' = plain /\ text' = text
          /\ Blocks' = Blocks /\ Passes' = Passes
          /\ block' = 1 /\ pass' = 1 /\ crypting' = "encrypt"
      BY <1>2 DEF KeySchedule, Blocks, Passes
    <2>4. CryptType'
      <3>1. block' \in 1..(Blocks' + 1) /\ pass' \in 1..Passes'
        BY <2>1, <2>3
      <3> QED BY <1>2, <2>2, <2>3, <3>1 DEF CryptInv, CryptType, KeySchedule
    <2>5. ASSUME NEW k \in 1..Blocks PROVE Level(k)' = Level(k)
      BY <2>1, <2>3 DEF Level
    <2>6. ASSUME NEW n \in 1..Passes, NEW k \in 1..Blocks PROVE ~ Made(n, k)'
      BY <2>1, <2>3 DEF Made
    <2>7. Story(h)'
      BY <1>1, <2>3, <2>5, <2>6 DEF Story
    <2> QED BY <2>4, <2>7 DEF CryptInv
  <1>3. CASE Encrypt
    BY <1>3, EncryptKeeps
  <1>4. CASE Decrypt
    BY <1>4, DecryptKeeps
  <1>5. CASE PassEnd
    BY <1>5, PassEndKeeps
  <1>6. CASE UNCHANGED fvars
    <2>1. CryptType'
      BY <1>6 DEF fvars, CryptInv, CryptType, Blocks, Passes
    <2>2. Story(h)'
      BY <1>1, <1>6 DEF fvars, Story, Blocks, Passes, Level, Behind, Made
    <2> QED BY <2>1, <2>2 DEF CryptInv
  <1> QED BY <1>2, <1>3, <1>4, <1>5, <1>6 DEF BlowfishStep

LEMMA StoryEnds == CryptInv => DecryptsBack
  <1> SUFFICES ASSUME CryptInv, crypting = "done"
               PROVE  /\ text = plain
                      /\ (\A k \in 1..Len(blfsalt) : blfsalt[k] = 0) =>
                           Blowfish_expandstate(blf, blfsalt, blfkey) = Blowfish_expand0state(blf, blfkey)
    BY DEF DecryptsBack
  <1>1. /\ plain \in Plaintexts /\ blf \in Contexts /\ text \in [1..Len(plain) -> BlfWords]
        /\ blfkey \in Seq(BlfBytes) \ {<< >>} /\ blfsalt \in Seq(BlfBytes) \ {<< >>}
    BY BlowfishAssumption DEF CryptInv, CryptType
  <1>2. PICK h : Story(h)
    BY DEF CryptInv
  <1>3. \A k \in 1..Blocks : PairAt(text, k) = PairAt(plain, k)
    <2>1. \A k : Level(k) = 0
      BY DEF Level
    <2> QED BY <1>2, <2>1 DEF Story
  <1>4. /\ plain \in [1..Len(plain) -> BlfWords] /\ Blocks \in Nat /\ Len(plain) = 2 * Blocks
    BY <1>1, CountsAre
  <1>5. ASSUME NEW i \in 1..Len(plain) PROVE text[i] = plain[i]
    <2>1. PICK k \in 1..Blocks : i = 2 * k - 1 \/ i = 2 * k
      <3> DEFINE k == (i + 1) \div 2
      <3>1. k \in 1..Blocks /\ (i = 2 * k - 1 \/ i = 2 * k)
        BY <1>4
      <3> QED BY <3>1
    <2>2. text[2 * k - 1] = plain[2 * k - 1] /\ text[2 * k] = plain[2 * k]
      BY <1>3 DEF PairAt
    <2> QED BY <2>1, <2>2
  <1>6. text = plain
    BY <1>1, <1>4, <1>5
  <1>7. (\A k \in 1..Len(blfsalt) : blfsalt[k] = 0) =>
          Blowfish_expandstate(blf, blfsalt, blfkey) = Blowfish_expand0state(blf, blfkey)
    BY <1>1, ExpandedIs
  <1> QED BY <1>6, <1>7

(* Whatever key and salt made of the tables, a buffer that was encrypted in*)
(* place, block by block, chained or Cost times over, is decrypted to what *)
(* it was (Blowfish_encipher, Blowfish_decipher and the modes made of them,*)
(* blowfish.c:59 and 505), and a salt of zeros expands the key as none.    *)
THEOREM DecryptsAlwaysBack == BlowfishSpec => []DecryptsBack
  <1>1. BlowfishInit => CryptInv
    BY CryptInvInit
  <1>2. CryptInv /\ [BlowfishStep]_fvars => CryptInv'
    BY CryptInvNext
  <1>3. CryptInv => DecryptsBack
    BY StoryEnds
  <1> QED BY <1>1, <1>2, <1>3, PTL DEF BlowfishSpec
=============================================================================
