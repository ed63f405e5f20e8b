-------------------------------- MODULE Sha2 --------------------------------
(* The six digests of libmd/sha2.c: how data that come in pieces of any    *)
(* length are buffered into blocks, counted and padded. They differ in the *)
(* initial value, the words of the count and the length of the digest. The *)
(* compression function is Sha2Transform's: here the chaining value is the *)
(* initial one and the blocks it was given since.                          *)
EXTENDS Integers, Sequences

CONSTANTS
  BlockLen,  \* SHA256_BLOCK_LENGTH, SHA512_BLOCK_LENGTH
  Word       \* 2^64: bitcount is made of words of 64 bits

ASSUME Sha2Assumption == BlockLen \in Nat /\ BlockLen > 2 /\ Word \in Nat \ {0} /\ Word % (8 * BlockLen) = 0

Initialised(iv) ==
  [state |-> <<iv>>, buffer |-> [k \in 1..BlockLen |-> 0], bitcount |-> <<0, 0>>]
SHA224Init == Initialised("sha224")
SHA256Init == Initialised("sha256")
SHA384Init == Initialised("sha384")
SHA512Init == Initialised("sha512")
SHA512_224Init == Initialised("sha512/224")
SHA512_256Init == Initialised("sha512/256")

-----------------------------------------------------------------------------
(* Update *)

UsedSpace(bitcount) == (bitcount[1] \div 8) % BlockLen

(* memcpy into the buffer, from its byte used on.                          *)
Stored(buffer, used, data) ==
  [k \in 1..BlockLen |-> IF k - used \in 1..Len(data) THEN data[k - used] ELSE buffer[k]]

(* SHA-256 counts in one word, SHA-512 in two.                             *)
ADDINC64(w, n) == <<(w[1] + n) % Word, w[2]>>
ADDINC128(w, n) ==
  LET low == (w[1] + n) % Word IN <<low, IF low < n THEN (w[2] + 1) % Word ELSE w[2]>>

Counted(words, w, n) == IF words = 1 THEN ADDINC64(w, n) ELSE ADDINC128(w, n)

Update(words, context, data) ==
  LET used == UsedSpace(context.bitcount)
      first == IF used = 0 THEN 0 ELSE BlockLen - used
      whole == (Len(data) - first) \div BlockLen
      blocks == [k \in 1..whole |-> SubSeq(data, first + (k - 1) * BlockLen + 1, first + k * BlockLen)]
      counts[k \in 0..whole] == IF k = 0 THEN Counted(words, context.bitcount, 8 * first)
                             ELSE Counted(words, counts[k - 1], 8 * BlockLen)
      rest == SubSeq(data, first + whole * BlockLen + 1, Len(data))
      full == Stored(context.buffer, used, SubSeq(data, 1, first))
  IN IF used > 0 /\ Len(data) < first
       THEN [context EXCEPT !.buffer = Stored(@, used, data), !.bitcount = Counted(words, @, 8 * Len(data))]
       ELSE [state |-> context.state \o (IF used > 0 THEN <<full>> ELSE << >>) \o blocks,
             buffer |-> Stored(full, 0, rest),
             bitcount |-> Counted(words, counts[whole], 8 * Len(rest))]

SHA256Update(context, data) == Update(1, context, data)
SHA512Update(context, data) == Update(2, context, data)

-----------------------------------------------------------------------------
(* Pad and Final *)

(* memset to 0 of the bytes after the first used ones, up to the last.     *)
Cleared(buffer, used, last) == [k \in 1..BlockLen |-> IF k > used /\ k <= last THEN 0 ELSE buffer[k]]

(* Mutant of Padded: the mark takes no room.                               *)
PaddedUnmarked(context, length) ==
  LET short == BlockLen - Len(length)
      used == UsedSpace(context.bitcount)
      marked == Stored(context.buffer, used, <<128>>)
  IN IF used <= short
       THEN context.state \o <<Stored(Cleared(marked, used + 1, short), short, length)>>
       ELSE context.state \o <<Cleared(marked, used + 1, BlockLen),
                               Stored(Cleared(marked, 0, short), short, length)>>

(* A word of the length takes one place of a block here. The mark always   *)
(* fits, the length may need a block of its own.                           *)
Padded(context, length) ==
  LET short == BlockLen - Len(length)
      used == UsedSpace(context.bitcount)
      marked == Stored(context.buffer, used, <<128>>)
  IN IF used + 1 <= short
       THEN context.state \o <<Stored(Cleared(marked, used + 1, short), short, length)>>
       ELSE context.state \o <<Cleared(marked, used + 1, BlockLen),
                               Stored(Cleared(marked, 0, short), short, length)>>

SHA256Pad(context) == Padded(context, <<context.bitcount[1]>>)
SHA512Pad(context) == Padded(context, <<context.bitcount[2], context.bitcount[1]>>)

(* The digest is as many bytes of the last chaining value, word by word.   *)
Digest(bytes, chaining) == [bytes |-> bytes, of |-> chaining]
SHA224Final(context) == Digest(7 * 4, SHA256Pad(context))
SHA256Final(context) == Digest(8 * 4, SHA256Pad(context))
SHA384Final(context) == Digest(6 * 8, SHA512Pad(context))
SHA512Final(context) == Digest(8 * 8, SHA512Pad(context))
SHA512_224Final(context) == Digest(3 * 8 + 4, SHA512Pad(context))
SHA512_256Final(context) == Digest(4 * 8, SHA512Pad(context))

-----------------------------------------------------------------------------
(* The standard's preprocessing (FIPS 180-4, 5.1 and 5.2): the message, a  *)
(* mark, as few zeros as it takes, and the length, cut into blocks.        *)
Preprocessed(message, length) ==
  LET n == Len(message) + 1 + Len(length)
      zeros == (BlockLen - (n % BlockLen)) % BlockLen
      all == message \o <<128>> \o [k \in 1..zeros |-> 0] \o length
  IN [k \in 1..(Len(all) \div BlockLen) |-> SubSeq(all, (k - 1) * BlockLen + 1, k * BlockLen)]

Lengths128(message) == <<(8 * Len(message)) \div Word, (8 * Len(message)) % Word>>

(* The digest of an algorithm of a message, or of one of its truncations.  *)
Standard(algorithm, message) ==
  LET short == Preprocessed(message, <<8 * Len(message)>>)
      long == Preprocessed(message, Lengths128(message))
  IN CASE algorithm = "SHA224" -> Digest(28, <<"sha224">> \o short)
       [] algorithm = "SHA256" -> Digest(32, <<"sha256">> \o short)
       [] algorithm = "SHA384" -> Digest(48, <<"sha384">> \o long)
       [] algorithm = "SHA512" -> Digest(64, <<"sha512">> \o long)
       [] algorithm = "SHA512_224" -> Digest(28, <<"sha512/224">> \o long)
       [] algorithm = "SHA512_256" -> Digest(32, <<"sha512/256">> \o long)
=============================================================================
