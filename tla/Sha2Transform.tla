---------------------------- MODULE Sha2Transform ---------------------------
(* SHA256Transform and SHA512Transform of libmd/sha2.c, which differ in the*)
(* words, the functions and the number of rounds: the block is expanded in *)
(* a buffer of sixteen words that is used again and again. The code has the*)
(* rounds in a loop that moves the eight registers, and unrolled, where    *)
(* they stay and change their roles.                                       *)
EXTENDS Integers, Sequences, Powers

CONSTANTS
  WordBits,   \* in a word: 32 or 64
  RoundCounts,     \* how many rounds there may be: 64, 80
  Schedules,  \* blocks: functions from 0..15 to words
  Starts,     \* chaining values: functions from 0..7 to words
  K,          \* K256, K512: a word for each round
  Distances   \* how far Sigma0, Sigma1, sigma0 and sigma1 rotate and shift

Words == 0..(Power[WordBits] - 1)

ASSUME TransformAssumption ==
  /\ WordBits \in Nat \ {0} /\ RoundCounts \subseteq {8 * k : k \in 3..16}
  /\ Schedules \subseteq [0..15 -> Words] /\ Starts \subseteq [0..7 -> Words]
  /\ K \in [DOMAIN K -> Words] /\ \A n \in RoundCounts : 0..(n - 1) \subseteq DOMAIN K
  /\ Distances \in [{"Sigma0", "Sigma1", "sigma0", "sigma1"} -> Nat \X Nat \X Nat]

VARIABLES
  blk, chain, final, unrolled, reg, W, turn, transforming,
  stdwords, stdreg   \* the standard's words of the expanded block, and its registers

wvars == <<blk, chain, final, unrolled, reg, W, turn, transforming, stdwords, stdreg>>

-----------------------------------------------------------------------------
(* Words.                                                                  *)
Plus(x, y) == (x + y) % Power[WordBits]
BitOf(x, b) == (x \div Power[b]) % 2
FromBits(f) ==
  LET from[b \in 0..WordBits] == IF b = WordBits THEN 0 ELSE 2 * from[b + 1] + (f[b] % 2)
  IN from[0]

Rotated(x, n) == [b \in 0..(WordBits - 1) |-> BitOf(x, (b + n) % WordBits)]
Shifted(x, n) == [b \in 0..(WordBits - 1) |-> IF b + n < WordBits THEN BitOf(x, b + n) ELSE 0]
Xor3(f, g, h) == FromBits([b \in 0..(WordBits - 1) |-> f[b] + g[b] + h[b]])
Rotations(d) == [x \in Words |-> Xor3(Rotated(x, d[1]), Rotated(x, d[2]), Rotated(x, d[3]))]
Shifts(d) == [x \in Words |-> Xor3(Rotated(x, d[1]), Rotated(x, d[2]), Shifted(x, d[3]))]

Sigma0 == Rotations(Distances["Sigma0"])
Sigma1 == Rotations(Distances["Sigma1"])
sigma0 == Shifts(Distances["sigma0"])
sigma1 == Shifts(Distances["sigma1"])
Ch == [x, y, z \in Words |->
  FromBits([b \in 0..(WordBits - 1) |-> IF BitOf(x, b) = 1 THEN BitOf(y, b) ELSE BitOf(z, b)])]
Maj == [x, y, z \in Words |->
  FromBits([b \in 0..(WordBits - 1) |-> IF BitOf(x, b) + BitOf(y, b) + BitOf(z, b) >= 2 THEN 1 ELSE 0])]

(* The standard's computation (FIPS 180-4, 6.2.2), with a word of its own  *)
(* for each round; stdwords[j + 1] is its word j.                          *)
StandardWord ==
  IF turn < 16 THEN blk[turn]
  ELSE LET w(j) == stdwords[j + 1]
       IN Plus(Plus(sigma1[w(turn - 2)], w(turn - 7)), Plus(sigma0[w(turn - 15)], w(turn - 16)))

StandardRound ==
  LET T1 == Plus(Plus(Plus(stdreg[7], Sigma1[stdreg[4]]), Plus(Ch[stdreg[4], stdreg[5], stdreg[6]], K[turn])), StandardWord)
      T2 == Plus(Sigma0[stdreg[0]], Maj[stdreg[0], stdreg[1], stdreg[2]])
  IN /\ stdwords' = Append(stdwords, StandardWord)
     /\ stdreg' = [k \in 0..7 |-> CASE k = 0 -> Plus(T1, T2)
                                [] k = 4 -> Plus(stdreg[3], T1)
                                [] OTHER -> stdreg[k - 1]]

-----------------------------------------------------------------------------
TransformInit ==
  /\ blk \in Schedules /\ chain \in Starts /\ final \in RoundCounts /\ unrolled \in BOOLEAN
  /\ reg = chain
  /\ W = [k \in 0..15 |-> 0] /\ turn = 0
  /\ stdwords = << >> /\ stdreg = chain
  /\ transforming = "rounds"

(* The register that has the role of a (0), b (1) ... h (7) in this round. *)
Role(k) == IF unrolled THEN (k - turn) % 8 ELSE k

(* One round with the word w of the expanded block.                        *)
Compress(w) ==
  LET r == [k \in 0..7 |-> reg[Role(k)]]
      T1 == Plus(Plus(Plus(r[7], Sigma1[r[4]]), Plus(Ch[r[4], r[5], r[6]], K[turn])), w)
      T2 == Plus(Sigma0[r[0]], Maj[r[0], r[1], r[2]])
  IN reg' = IF unrolled
              THEN [reg EXCEPT ![Role(3)] = Plus(@, T1), ![Role(7)] = Plus(T1, T2)]
              ELSE [k \in 0..7 |-> CASE k = 0 -> Plus(T1, T2)
                                     [] k = 4 -> Plus(r[3], T1)
                                     [] OTHER -> r[k - 1]]

RoundOfData ==
  /\ transforming = "rounds" /\ turn < 16
  /\ W' = [W EXCEPT ![turn] = blk[turn]]
  /\ Compress(blk[turn])
  /\ StandardRound
  /\ turn' = turn + 1
  /\ UNCHANGED <<blk, chain, final, unrolled, transforming>>

(* Mutant of Expanded: the place of another round is added.                *)
ExpandedOff(j) ==
  Plus(Plus(W[j % 16], sigma1[W[(j + 14) % 16]]), Plus(W[(j + 10) % 16], sigma0[W[(j + 1) % 16]]))

(* Part of the message block expansion.                                    *)
Expanded(j) ==
  Plus(Plus(W[j % 16], sigma1[W[(j + 14) % 16]]), Plus(W[(j + 9) % 16], sigma0[W[(j + 1) % 16]]))

RoundOfSchedule ==
  /\ transforming = "rounds" /\ turn >= 16 /\ turn < final
  /\ W' = [W EXCEPT ![turn % 16] = Expanded(turn)]
  /\ Compress(Expanded(turn))
  /\ StandardRound
  /\ turn' = turn + 1
  /\ UNCHANGED <<blk, chain, final, unrolled, transforming>>

(* The rounds are unrolled by eight, so that the roles have come around.   *)
AddState ==
  /\ transforming = "rounds" /\ turn = final
  /\ reg' = [k \in 0..7 |-> Plus(chain[k], reg[k])]
  /\ transforming' = "done"
  /\ UNCHANGED <<blk, chain, final, unrolled, W, turn, stdwords, stdreg>>

TransformStep == RoundOfData \/ RoundOfSchedule \/ AddState

TransformSpec == TransformInit /\ [][TransformStep]_wvars

-----------------------------------------------------------------------------
(* The sixteen words that are used again and again and the registers that  *)
(* change their roles give what the standard gives with all its words and  *)
(* registers that move, for both numbers of rounds and both forms of the   *)
(* code, in every round and at the end.                                    *)
TransformIsStandard ==
  /\ transforming = "rounds" => \A k \in 0..7 : reg[Role(k)] = stdreg[k]
  /\ transforming = "done" => reg = [k \in 0..7 |-> Plus(chain[k], stdreg[k])]
=============================================================================
