----------------------------- MODULE BcryptPbkdf ----------------------------
(* bcrypt_pbkdf.c: a key of any length is made of blocks of the hash, each *)
(* of them the sum of its rounds, spread over the key with a stride. The   *)
(* hash itself is left alone: the n-th round's output for a block is named *)
(* by the block's count and n, and a sum of outputs is the set of them.    *)
EXTENDS Integers, FiniteSets

CONSTANTS
  HashSize,    \* BCRYPT_HASHSIZE
  KeyLengths,  \* lengths of keys that are asked for
  AllRounds    \* numbers of rounds

VARIABLES origkeylen, rounds, keylen, amt, count, out, i, key, deriving

pvars == <<origkeylen, rounds, keylen, amt, count, out, i, key, deriving>>

NoByte == [count |-> 0, rounds |-> {}, byte |-> 0]
SizeUp(a, b) == (a + b - 1) \div b
stride == SizeUp(origkeylen, HashSize)

DeriveInit ==
  /\ origkeylen \in KeyLengths /\ rounds \in AllRounds
  /\ keylen = origkeylen /\ amt = 0 /\ count = 1
  /\ out = {} /\ i = 0
  /\ key = [k \in 0..(origkeylen - 1) |-> NoByte]
  /\ deriving = "check"

(* Nothing crazy: what cannot be done fills the key with random bytes.     *)
Refuse ==
  /\ deriving = "check"
  /\ rounds < 1 \/ origkeylen = 0 \/ origkeylen > HashSize * HashSize
  /\ deriving' = "bad"
  /\ UNCHANGED <<origkeylen, rounds, keylen, amt, count, out, i, key>>

Accept ==
  /\ deriving = "check"
  /\ rounds >= 1 /\ origkeylen > 0 /\ origkeylen <= HashSize * HashSize
  /\ amt' = SizeUp(origkeylen, stride)
  /\ deriving' = "hash"
  /\ UNCHANGED <<origkeylen, rounds, keylen, count, out, i, key>>

(* The first round's salt is the salt and the count; a later round's is the*)
(* output of the round before it.                                          *)
Rounds ==
  /\ deriving = "hash" /\ keylen > 0
  /\ out' = {[count |-> count, round |-> r] : r \in 1..rounds}
  /\ amt' = IF amt < keylen THEN amt ELSE keylen
  /\ i' = 0 /\ deriving' = "spread"
  /\ UNCHANGED <<origkeylen, rounds, keylen, count, key>>

dest == i * stride + (count - 1)

SpreadByte ==
  /\ deriving = "spread" /\ i < amt /\ dest < origkeylen
  /\ key' = [key EXCEPT ![dest] = [count |-> count, rounds |-> out, byte |-> i]]
  /\ i' = i + 1
  /\ UNCHANGED <<origkeylen, rounds, keylen, amt, count, out, deriving>>

(* Mutant of SpreadEnd: a block counts for amt bytes, however many it gave.*)
SpreadEndAmt ==
  /\ deriving = "spread" /\ (i = amt \/ dest >= origkeylen)
  /\ keylen' = keylen - amt /\ count' = count + 1
  /\ deriving' = "hash"
  /\ UNCHANGED <<origkeylen, rounds, amt, out, i, key>>

SpreadEnd ==
  /\ deriving = "spread" /\ (i = amt \/ dest >= origkeylen)
  /\ keylen' = keylen - i /\ count' = count + 1
  /\ deriving' = "hash"
  /\ UNCHANGED <<origkeylen, rounds, amt, out, i, key>>

Derived ==
  /\ deriving = "hash" /\ keylen = 0
  /\ deriving' = "done"
  /\ UNCHANGED <<origkeylen, rounds, keylen, amt, count, out, i, key>>

DeriveStep == Refuse \/ Accept \/ Rounds \/ SpreadByte \/ SpreadEnd \/ Derived

-----------------------------------------------------------------------------
(* The derivation ends, and then all bytes of the key are set, each from a *)
(* byte of the hash of its own and from all the rounds, for every length of*)
(* key: blocks that do not fit bring the key no nearer than they should.   *)
Filled ==
  /\ \A k \in DOMAIN key : Cardinality(key[k].rounds) = rounds
  /\ \A k, l \in DOMAIN key : key[k] = key[l] => k = l
KeyIsDerived == <>(deriving \in {"idle", "bad"} \/ (deriving = "done" /\ Filled))
=============================================================================
