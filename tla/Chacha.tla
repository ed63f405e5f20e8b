------------------------------- MODULE Chacha ------------------------------
(* The stream cipher of libbsd/chacha_private.h as arc4random.c uses it,   *)
(* to make keystream only.  What a block is under a key and a counter is   *)
(* left alone: a byte of keystream is named by them and by its place in    *)
(* the block.                                                              *)
EXTENDS Integers, Sequences

CONSTANTS
  BLOCKSZ,  \* bytes in a block
  U32       \* 2^32: the counter is made of two words of that size

ASSUME ChachaAssumption == BLOCKSZ \in Nat \ {0} /\ U32 \in Nat \ {0, 1}

(* chacha_keysetup and chacha_ivsetup: input[12] and input[13] begin at 0, *)
(* the other words are the key's and the iv's.                             *)
Keyed(k) == [key |-> k, counter |-> <<0, 0>>]

(* j12 and j13 after a block.                                              *)
Advanced(counter) ==
  LET low == (counter[1] + 1) % U32
  IN <<low, IF low = 0 THEN (counter[2] + 1) % U32 ELSE counter[2]>>

(* How many blocks so many bytes take.                                     *)
Blocks(bytes) == (bytes + BLOCKSZ - 1) \div BLOCKSZ

(* chacha_encrypt_bytes: whole blocks are used up, and of the last one only*)
(* what is asked for gets out.                                             *)
chacha_encrypt_bytes(x, bytes) ==
  LET blocks == Blocks(bytes)
      counters[k \in 0..blocks] == IF k = 0 THEN x.counter ELSE Advanced(counters[k - 1])
  IN [stream |-> [k \in 1..bytes |-> <<x.key, counters[(k - 1) \div BLOCKSZ], (k - 1) % BLOCKSZ>>],
      input |-> [x EXCEPT !.counter = counters[blocks]]]
=============================================================================
