------------------------------ MODULE Blowfish ------------------------------
(* blowfish.c and the hash that bcrypt_pbkdf.c makes of it: a Feistel      *)
(* network whose tables are replaced by what it makes of a key and a salt, *)
(* and that encrypts and decrypts a buffer in place. A byte is a digit of  *)
(* the base Digit here, and a word has four of them.                       *)
EXTENDS Integers, Sequences, Powers

CONSTANTS
  DigitBits,  \* 8
  BLF_N,      \* 16 rounds
  Cost,       \* 64: how often bcrypt_hash expands and encrypts
  initstate,  \* the tables to begin with
  BlfKeys, BlfSalts,  \* sequences of bytes
  Plaintexts, \* sequences of words, two for a block
  Ivs         \* pairs of words

Digit == Power[DigitBits]
WordSize == Power[4 * DigitBits]
BlfBytes == 0..(Digit - 1)
BlfWords == 0..(WordSize - 1)

ASSUME BlowfishAssumption ==
  /\ DigitBits \in Nat \ {0} /\ BLF_N \in Nat /\ BLF_N % 2 = 0 /\ Cost \in Nat \ {0}
  /\ BlfKeys \cup BlfSalts \subseteq Seq(BlfBytes) \ {<< >>}
  /\ Plaintexts \subseteq Seq(BlfWords) \ {<< >>} /\ \A x \in Plaintexts : Len(x) % 2 = 0
  /\ Ivs \subseteq BlfWords \X BlfWords
  /\ initstate \in [P : [0..(BLF_N + 1) -> BlfWords], S : [0..3 -> [BlfBytes -> BlfWords]]]

VARIABLES blfmode, blfkey, blfsalt, blfiv, plain, blf, text, block, pass, crypting

fvars == <<blfmode, blfkey, blfsalt, blfiv, plain, blf, text, block, pass, crypting>>

ByteAt(x, k) == (x \div Power[k * DigitBits]) % Digit
Add32(x, y) == (x + y) % WordSize

(* ^, bit by bit; the table is there for TLC.                              *)
Xored[n \in Nat] ==
  [p \in Nat \X Nat |->
     IF n = 0 THEN 0 ELSE 2 * Xored[n - 1][<<p[1] \div 2, p[2] \div 2>>] + ((p[1] + p[2]) % 2)]
XorTable == [p \in BlfWords \X BlfWords |-> Xored[4 * DigitBits][p]]
xor(x, y) == XorTable[<<x, y>>]

-----------------------------------------------------------------------------
(* Blowfish_encipher, Blowfish_decipher: the round n mixes one half into   *)
(* the other, in turns.                                                    *)
F(s, x) ==
  Add32(xor(Add32(s[0][ByteAt(x, 3)], s[1][ByteAt(x, 2)]), s[2][ByteAt(x, 1)]), s[3][ByteAt(x, 0)])

BLFRND(S, P, x, n) ==
  LET mixed(i, j) == xor(i, xor(F(S, j), P[n]))
  IN IF n % 2 = 1 THEN <<x[1], mixed(x[2], x[1])>> ELSE <<mixed(x[1], x[2]), x[2]>>

Feistel(S, P, xl, xr) ==
  LET after[n \in 0..BLF_N] ==
        IF n = 0 THEN <<xor(xl, P[0]), xr>> ELSE BLFRND(S, P, after[n - 1], n)
      x == after[BLF_N]
  IN <<xor(x[2], P[BLF_N + 1]), x[1]>>

Blowfish_encipher(c, xl, xr) == Feistel(c.S, c.P, xl, xr)

Blowfish_decipher(c, xl, xr) == Feistel(c.S, [k \in DOMAIN c.P |-> c.P[BLF_N + 1 - k]], xl, xr)

-----------------------------------------------------------------------------
(* The digits of pi.                                                       *)
Blowfish_initstate == initstate

(* Blowfish_stream2word: four bytes from current on, around the end.       *)
ByteRead(data, x) ==
  LET j == IF x.current >= Len(data) THEN 0 ELSE x.current
  IN [word |-> Add32(x.word * Digit, data[j + 1]), current |-> j + 1]

Blowfish_stream2word(data, current) ==
  ByteRead(data, ByteRead(data, ByteRead(data, ByteRead(data, [word |-> 0, current |-> current]))))

(* A stream's first words.                                                 *)
Stream(data, words) ==
  LET w[k \in 0..words] == IF k = 0 THEN [word |-> 0, current |-> 0]
                           ELSE Blowfish_stream2word(data, w[k - 1].current)
  IN [k \in 1..words |-> w[k].word]

(* Where the n-th pair of words goes: first into P, then into the boxes.   *)
PairStored(c, n, x) ==
  IF 2 * n < BLF_N + 2
    THEN [c EXCEPT !.P[2 * n] = x[1], !.P[2 * n + 1] = x[2]]
    ELSE LET k == 2 * n - (BLF_N + 2)
         IN [c EXCEPT !.S[k \div Digit][k % Digit] = x[1], !.S[k \div Digit][(k % Digit) + 1] = x[2]]

Pairs == (BLF_N + 2 + 4 * Digit) \div 2

(* The key is added to P, and then all words are replaced by what the      *)
(* network makes of the pair before and of two words of the salt.          *)
Keyed(c, keywords) == [c EXCEPT !.P = [k \in 0..(BLF_N + 1) |-> xor(c.P[k], keywords[k + 1])]]

Replaced(before, saltwords, n) ==
  LET x == Blowfish_encipher(before.ctx, xor(before.pair[1], saltwords[2 * n - 1]),
                             xor(before.pair[2], saltwords[2 * n]))
  IN [ctx |-> PairStored(before.ctx, n - 1, x), pair |-> x]

BlfExpanded(c, saltwords, ckey) ==
  LET s[n \in 0..Pairs] ==
        IF n = 0 THEN [ctx |-> Keyed(c, Stream(ckey, BLF_N + 2)), pair |-> <<0, 0>>]
        ELSE Replaced(s[n - 1], saltwords, n)
  IN s[Pairs].ctx

Blowfish_expandstate(c, salt, ckey) == BlfExpanded(c, Stream(salt, 2 * Pairs), ckey)
Blowfish_expand0state(c, ckey) == BlfExpanded(c, [k \in 1..(2 * Pairs) |-> 0], ckey)

blf_key(ckey) == Blowfish_expand0state(Blowfish_initstate, ckey)

(* The first part of bcrypt_hash.                                          *)
BcryptState(ckey, salt) ==
  LET c[n \in 0..Cost] ==
        IF n = 0 THEN Blowfish_expandstate(Blowfish_initstate, salt, ckey)
        ELSE Blowfish_expand0state(Blowfish_expand0state(c[n - 1], salt), ckey)
  IN c[Cost]

-----------------------------------------------------------------------------
(* A caller encrypts its buffer in place and decrypts it again, block by   *)
(* block (ecb; blf_enc and blf_dec do the same to words), with chaining    *)
(* (cbc), or with blf_enc and the tables of bcrypt_hash, Cost times over.  *)
Modes == {"ecb", "cbc", "bcrypt"}
Passes == IF blfmode = "bcrypt" THEN Cost ELSE 1
Blocks == Len(plain) \div 2

BlowfishInit ==
  /\ blfmode \in Modes /\ blfkey \in BlfKeys /\ blfsalt \in BlfSalts /\ blfiv \in Ivs
  /\ plain \in Plaintexts /\ text = plain
  /\ blf = Blowfish_initstate /\ block = 0 /\ pass = 0
  /\ crypting = "key"

KeySchedule ==
  /\ crypting = "key"
  /\ blf' = IF blfmode = "bcrypt" THEN BcryptState(blfkey, blfsalt) ELSE blf_key(blfkey)
  /\ block' = 1 /\ pass' = 1 /\ crypting' = "encrypt"
  /\ UNCHANGED <<blfmode, blfkey, blfsalt, blfiv, plain, text>>

Block(k) == SubSeq(text, 2 * k - 1, 2 * k)
BlockSet(k, x) == [text EXCEPT ![2 * k - 1] = x[1], ![2 * k] = x[2]]

(* With chaining, the block before as the buffer has it, the iv before the *)
(* first, is added.                                                        *)
Chained(k, x) ==
  LET last == IF k = 1 THEN blfiv ELSE Block(k - 1)
  IN IF blfmode = "cbc" THEN <<xor(x[1], last[1]), xor(x[2], last[2])>> ELSE x

Encrypt ==
  /\ crypting = "encrypt" /\ block <= Blocks
  /\ LET x == Chained(block, Block(block))
     IN text' = BlockSet(block, Blowfish_encipher(blf, x[1], x[2]))
  /\ block' = block + 1
  /\ UNCHANGED <<blfmode, blfkey, blfsalt, blfiv, plain, blf, pass, crypting>>

(* Mutant of ToDecrypt: from the first block to the last, as in ecb.       *)
ToDecryptForward(k) == k

(* The k-th block that is decrypted: with chaining from the last to the    *)
(* first, for the block before is needed as it was.                        *)
ToDecrypt(k) == IF blfmode = "cbc" THEN Blocks + 1 - k ELSE k

Decrypt ==
  /\ crypting = "decrypt" /\ block <= Blocks
  /\ LET k == ToDecrypt(block)
         x == Block(k)
     IN text' = BlockSet(k, Chained(k, Blowfish_decipher(blf, x[1], x[2])))
  /\ block' = block + 1
  /\ UNCHANGED <<blfmode, blfkey, blfsalt, blfiv, plain, blf, pass, crypting>>

PassEnd ==
  /\ crypting \in {"encrypt", "decrypt"} /\ block > Blocks
  /\ block' = 1
  /\ IF pass < Passes
       THEN pass' = pass + 1 /\ UNCHANGED crypting
       ELSE pass' = 1 /\ crypting' = IF crypting = "encrypt" THEN "decrypt" ELSE "done"
  /\ UNCHANGED <<blfmode, blfkey, blfsalt, blfiv, plain, blf, text>>

BlowfishStep == KeySchedule \/ Encrypt \/ Decrypt \/ PassEnd

BlowfishSpec == BlowfishInit /\ [][BlowfishStep]_fvars

-----------------------------------------------------------------------------
(* Decryption gives back what was encrypted in place, in every mode and    *)
(* whatever key and salt made of the tables (the test at blowfish.c:654    *)
(* tries two keys, without chaining); and a salt of zeros is no salt.      *)
DecryptsBack ==
  crypting = "done" =>
    /\ text = plain
    /\ (\A k \in 1..Len(blfsalt) : blfsalt[k] = 0) =>
         Blowfish_expandstate(blf, blfsalt, blfkey) = Blowfish_expand0state(blf, blfkey)
=============================================================================
