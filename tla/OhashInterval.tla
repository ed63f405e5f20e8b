---------------------------- MODULE OhashInterval ---------------------------
(* The hash values of ohash.c: the characters of a string, which are       *)
(* signed, go one after the other into a word that is turned by two.       *)
EXTENDS Integers, FiniteSetsExt, Sequences

CONSTANT Bits   \* in a hash value: 32

ASSUME OhashIntervalAssumption == Bits \in Nat /\ Bits >= 2

Bit(v, b) == (v \div 2^b) % 2
Xor(v, w) == MapThenSumSet(LAMBDA b : 2^b * ((Bit(v, b) + Bit(w, b)) % 2), 0..(Bits - 1))
Turned(v) == ((4 * v) % 2^Bits) + (v \div 2^(Bits - 2))

ohash_interval(s) ==
  LET k[l \in 0..Len(s)] == IF l = 0 THEN 0 ELSE Xor(Turned(k[l - 1]), s[l] % 2^Bits)
  IN k[Len(s)]
=============================================================================
