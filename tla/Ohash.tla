------------------------------- MODULE Ohash -------------------------------
(***************************************************************************)
(* The hash table of ohash.c: open addressing with double hashing,         *)
(* tombstones for removed entries, and a lookup that moves what it finds   *)
(* into the first tombstone it passed.  One step is one turn of a loop.    *)
(*                                                                         *)
(* A caller looks a key up (ohash_qlookup) and then inserts it, removes it *)
(* or does neither, as verifychecksums does; or it goes through all        *)
(* entries (ohash_first, ohash_next).  A key stands for a string, and the  *)
(* entry is the string itself (key_offset is 0).  Its hash value is left   *)
(* open: the function that ohash_qlookup computes is in OhashInterval.     *)
(***************************************************************************)
EXTENDS Integers, FiniteSets, Sequences

CONSTANTS
  Keys,        \* the strings
  Interval,    \* the hash value of each
  MinSize,     \* MINSIZE
  MinDeleted,  \* MINDELETED
  InitSize,    \* 2 to the size that ohash_init is given
  NULL, DELETED

ASSUME OhashAssumption ==
  /\ Interval \in [Keys -> Nat]
  /\ {NULL, DELETED} \cap Keys = {} /\ NULL # DELETED
  /\ {MinSize, InitSize, MinDeleted} \subseteq Nat
  /\ MinSize >= 4 /\ InitSize >= MinSize /\ MinDeleted > 0

VARIABLES
  t,        \* the table: a function from slots to records
  size, total, deleted,
  tpc,      \* what is going on
  sought,   \* the key that was looked up
  slot,     \* the slot that is looked at; the one the lookup returned
  empty,    \* the first tombstone that was passed, or NONE
  newt,     \* the new table of ohash_resize
  newsize,  \* its size
  pos,      \* the slot of the old table, or the position of ohash_next
  listed    \* what ohash_next has returned so far

tvars == <<t, size, total, deleted, tpc, sought, slot, empty, newt, newsize, pos, listed>>
table == <<t, size, total, deleted>>
probing == <<sought, slot, empty>>
resizing == <<newt, newsize, pos>>

NONE == -1
NoKey == NULL
Slots == 0..(size - 1)
Record(hv, p) == [hv |-> hv, p |-> p]
EmptyTable(s) == [k \in 0..(s - 1) |-> Record(0, NULL)]

(* Double hashing: where to begin, and how far to go from slot to slot; an *)
(* odd number, since sizes are powers of two.                              *)
Home(hv, s) == hv % s
Incr(hv, s) == 2 * ((hv % (s - 2)) \div 2) + 1

NextSlot(k, hv, s) == IF k + Incr(hv, s) >= s THEN k + Incr(hv, s) - s ELSE k + Incr(hv, s)

TableInit ==
  /\ t = EmptyTable(InitSize) /\ size = InitSize /\ total = 0 /\ deleted = 0
  /\ tpc = "idle" /\ sought = NoKey /\ slot = 0 /\ empty = NONE
  /\ newt = EmptyTable(0) /\ newsize = 0 /\ pos = 0 /\ listed = << >>

Resting == {"idle", "found", "absent"}

-----------------------------------------------------------------------------
(* ohash_lookup_interval *)

Lookup(k) ==
  /\ tpc \in Resting
  /\ tpc' = "probe" /\ sought' = k
  /\ slot' = Home(Interval[k], size) /\ empty' = NONE
  /\ UNCHANGED <<table, resizing, listed>>

IsKey(r) == r.p = sought /\ r.hv = Interval[sought]

PassDeleted ==
  /\ tpc = "probe" /\ t[slot].p = DELETED
  /\ empty' = IF empty = NONE THEN slot ELSE empty
  /\ slot' = NextSlot(slot, Interval[sought], size)
  /\ UNCHANGED <<table, tpc, sought, resizing, listed>>

PassOther ==
  /\ tpc = "probe" /\ t[slot].p \notin {NULL, DELETED} /\ ~ IsKey(t[slot])
  /\ slot' = NextSlot(slot, Interval[sought], size)
  /\ UNCHANGED <<table, tpc, sought, empty, resizing, listed>>

Hit ==
  /\ tpc = "probe" /\ IsKey(t[slot])
  /\ tpc' = "found"
  /\ IF empty # NONE
       THEN /\ t' = [t EXCEPT ![empty] = Record(Interval[sought], sought), ![slot].p = DELETED]
            /\ slot' = empty
       ELSE UNCHANGED <<t, slot>>
  /\ UNCHANGED <<size, total, deleted, sought, empty, resizing, listed>>

(* The slot for the key is marked with its hash value, whether or not the  *)
(* caller goes on to insert it.                                            *)
Miss ==
  /\ tpc = "probe" /\ t[slot].p = NULL
  /\ tpc' = "absent"
  /\ slot' = IF empty # NONE THEN empty ELSE slot
  /\ t' = [t EXCEPT ![slot'].hv = Interval[sought]]
  /\ UNCHANGED <<size, total, deleted, sought, empty, resizing, listed>>

-----------------------------------------------------------------------------
(* ohash_resize *)

NewSize(del, tot) ==
  LET s == IF 4 * del < tot THEN 2 * size
           ELSE IF 3 * del > 2 * tot THEN size \div 2
           ELSE size
  IN IF s < MinSize THEN MinSize ELSE s

Resize(del, tot) ==
  /\ tpc' = "rehash"
  /\ newsize' = NewSize(del, tot) /\ newt' = EmptyTable(NewSize(del, tot)) /\ pos' = 0

Live(r) == r.p \notin {NULL, DELETED}

Skip ==
  /\ tpc = "rehash" /\ pos < size /\ ~ Live(t[pos])
  /\ pos' = pos + 1
  /\ UNCHANGED <<table, tpc, probing, newt, newsize, listed>>

(* Mutant of Rehash: the slots are those of the old size.                  *)
RehashOldSize ==
  /\ tpc = "rehash" /\ pos < size /\ Live(t[pos])
  /\ tpc' = "place"
  /\ slot' = Home(t[pos].hv, IF size < newsize THEN size ELSE newsize)
  /\ UNCHANGED <<table, sought, empty, resizing, listed>>

Rehash ==
  /\ tpc = "rehash" /\ pos < size /\ Live(t[pos])
  /\ tpc' = "place"
  /\ slot' = Home(t[pos].hv, newsize)
  /\ UNCHANGED <<table, sought, empty, resizing, listed>>

Occupied ==
  /\ tpc = "place" /\ newt[slot].p # NULL
  /\ slot' = NextSlot(slot, t[pos].hv, newsize)
  /\ UNCHANGED <<table, tpc, sought, empty, resizing, listed>>

Place ==
  /\ tpc = "place" /\ newt[slot].p = NULL
  /\ newt' = [newt EXCEPT ![slot] = t[pos]]
  /\ tpc' = "rehash" /\ pos' = pos + 1
  /\ UNCHANGED <<table, probing, newsize, listed>>

Resized ==
  /\ tpc = "rehash" /\ pos = size
  /\ t' = newt /\ size' = newsize /\ total' = total - deleted /\ deleted' = 0
  /\ tpc' = "idle"
  /\ UNCHANGED <<probing, resizing, listed>>

-----------------------------------------------------------------------------
(* ohash_insert and ohash_remove, in the slot the lookup returned *)

InsertOverDeleted ==
  /\ tpc = "absent" /\ t[slot].p = DELETED
  /\ t' = [t EXCEPT ![slot].p = sought] /\ deleted' = deleted - 1
  /\ tpc' = "idle"
  /\ UNCHANGED <<size, total, probing, resizing, listed>>

(* Mutant of Insert: the table only grows when it is full.                 *)
InsertUntilFull ==
  /\ tpc = "absent" /\ t[slot].p = NULL
  /\ t' = [t EXCEPT ![slot].p = sought] /\ total' = total + 1
  /\ IF total' > size
       THEN Resize(deleted, total')
       ELSE tpc' = "idle" /\ UNCHANGED resizing
  /\ UNCHANGED <<size, deleted, probing, listed>>

Insert ==
  /\ tpc = "absent" /\ t[slot].p = NULL
  /\ t' = [t EXCEPT ![slot].p = sought] /\ total' = total + 1
  /\ IF 4 * total' > 3 * size
       THEN Resize(deleted, total')
       ELSE tpc' = "idle" /\ UNCHANGED resizing
  /\ UNCHANGED <<size, deleted, probing, listed>>

(* Mutant of RemoveEntry: the slot is emptied, which cuts the way to others*)
RemoveEmpties ==
  /\ tpc = "found"
  /\ t' = [t EXCEPT ![slot].p = NULL] /\ total' = total - 1
  /\ tpc' = "idle"
  /\ UNCHANGED <<size, deleted, probing, resizing, listed>>

RemoveEntry ==
  /\ tpc = "found"
  /\ t' = [t EXCEPT ![slot].p = DELETED] /\ deleted' = deleted + 1
  /\ IF deleted' >= MinDeleted /\ 4 * deleted' > total
       THEN Resize(deleted', total)
       ELSE tpc' = "idle" /\ UNCHANGED resizing
  /\ UNCHANGED <<size, total, probing, listed>>

-----------------------------------------------------------------------------
(* ohash_first and ohash_next: all entries, at the end *)

First ==
  /\ tpc \in Resting
  /\ tpc' = "list" /\ pos' = 0 /\ listed' = << >>
  /\ UNCHANGED <<table, probing, newt, newsize>>

NextEntry ==
  /\ tpc = "list" /\ pos < size
  /\ listed' = IF Live(t[pos]) THEN Append(listed, t[pos].p) ELSE listed
  /\ pos' = pos + 1
  /\ UNCHANGED <<table, tpc, probing, newt, newsize>>

Listed ==
  /\ tpc = "list" /\ pos = size
  /\ tpc' = "end"
  /\ UNCHANGED <<table, probing, resizing, listed>>

-----------------------------------------------------------------------------
TableStep ==
  \/ PassDeleted \/ PassOther \/ Hit \/ Miss
  \/ Skip \/ Rehash \/ Occupied \/ Place \/ Resized
  \/ NextEntry \/ Listed

TableCall ==
  \/ \E k \in Keys : Lookup(k)
  \/ InsertOverDeleted \/ Insert \/ RemoveEntry
  \/ First

TableSpec == TableInit /\ [][TableStep \/ TableCall]_tvars

-----------------------------------------------------------------------------
(* A slot that a lookup for the hash value hv comes to in a table of size  *)
(* s, if it stops at empty slots and at the slot itself.                   *)
Reached(f, s, hv, k) ==
  \A C \in SUBSET (0..(s - 1)) :
    /\ Home(hv, s) \in C
    /\ \A c \in C : f[c].p # NULL /\ c # k => NextSlot(c, hv, s) \in C
    => k \in C

WellPlaced(f, s) ==
  \A k \in 0..(s - 1) : Live(f[k]) =>
    /\ f[k].hv = Interval[f[k].p]
    /\ Reached(f, s, f[k].hv, k)
    /\ \A l \in 0..(s - 1) : f[l].p = f[k].p => l = k

Entries == {t[k].p : k \in {l \in Slots : Live(t[l])}}

(* Every entry can be found, although removals, moves and resizes went on  *)
(* around it: it carries the hash value of its key, no empty slot lies on  *)
(* the way to it, and no other slot has the same key. For the same reasons *)
(* ohash_first and ohash_next give every entry once.                       *)
EntriesFindable ==
  /\ WellPlaced(t, size)
  /\ tpc \in {"rehash", "place"} => WellPlaced(newt, newsize)
  /\ tpc = "end" => /\ {listed[k] : k \in 1..Len(listed)} = Entries
                    /\ Len(listed) = Cardinality(Entries)

(* The table is a set of keys (ohash.h).                                   *)
AskedKey == IF tpc \in {"probe", "found", "absent"} THEN sought ELSE NoKey
Answer ==
  CASE tpc = "probe" -> "asked"
    [] tpc \in {"found", "absent"} -> tpc
    [] OTHER -> "none"
Promise == INSTANCE KeySet WITH set <- Entries, key <- AskedKey, answer <- Answer
IsKeySet == Promise!Spec

(* Every call returns: the loops of the lookup and of the resize end.      *)
CallsReturn ==
  (tpc \in {"probe", "rehash", "place", "list"}) ~> (tpc \in Resting \cup {"end"})
=============================================================================
