--------------------------- MODULE ChecksumsProofs --------------------------
(* Proofs about Checksums and HashFile, for every list, command line and   *)
(* disk, and any number of edits: the exit status and the files printed as *)
(* "FAIL" are those that the manual promises, and the digest that is       *)
(* compared is the standard's digest of what was read.                     *)
EXTENDS Checksums, HashFile, SequenceTheorems, WellFoundedInduction, TLAPS

ListType ==
  /\ msg \in Seq(LineType \cup {BadLine}) /\ argv \in Seq(Files)
  /\ edits \in Nat /\ i \in Nat
  /\ cpc \in {"start", "args", "lines", "fail"} \cup Ends

(* While the arguments are put into the table it holds those gone through. *)
ArgsInTable ==
  /\ cpc = "start" => set = {} /\ ok = {} /\ i = 1 /\ answer = "none"
  /\ cpc = "args" =>
       /\ argv # << >> /\ ok = {} /\ i \in 1..(Len(argv) + 1)
       /\ set = {argv[k] : k \in 1..(i - 1)}

(* What is looked up is the file of the argument, or of the line, at hand. *)
AskedIsAtHand ==
  /\ answer \in {"none", "asked", "found", "absent"}
  /\ answer = "found" => key \in set
  /\ answer = "absent" => key \notin set
  /\ cpc \in {"exit0", "failed"} => answer = "none"
  /\ cpc = "args" /\ answer # "none" => i <= Len(argv) /\ key = argv[i]
  /\ cpc = "lines" /\ answer # "none" => argv # << >>
  /\ cpc = "fail" => argv = << >> /\ answer # "none" /\ (edits = 0 => ~ Matches(msg[i]))
  /\ cpc \in {"lines", "fail"} /\ answer # "none" =>
       i <= Len(msg) /\ msg[i] # BadLine /\ key = msg[i].file

(* The lines gone through: which files the table holds, and what that says *)
(* of lines that were not printed as "OK".                                 *)
LinesInTable ==
  cpc \in {"lines", "fail", "exit0", "failed"} =>
    /\ i \in 1..(Len(msg) + 1) /\ ok \subseteq 1..(i - 1)
    /\ \A k \in 1..(i - 1) : msg[k] # BadLine
    /\ set = IF argv = << >> THEN {msg[k].file : k \in (1..(i - 1)) \ ok} ELSE Named \ Shown
    /\ edits = 0 =>
         /\ \A k \in ok : Matches(msg[k])
         /\ \A k \in (1..(i - 1)) \ ok : msg[k].file \in set => ~ Matches(msg[k])
    /\ cpc \in {"exit0", "failed"} => i = Len(msg) + 1 /\ (cpc = "exit0" <=> set = {})

ChecksumsInv == ListType /\ ArgsInTable /\ AskedIsAtHand /\ LinesInTable

LEMMA ChecksumsInit == CheckInit => ChecksumsInv
  BY ChecksumsAssumption DEF CheckInit, Myh!Init, ChecksumsInv, ListType, ArgsInTable, AskedIsAtHand, LinesInTable, Ends

LEMMA ChecksumsNext == ChecksumsInv /\ [CheckNext]_cvars => ChecksumsInv'
  <1> SUFFICES ASSUME ChecksumsInv, [CheckNext]_cvars PROVE ChecksumsInv'
    OBVIOUS
  <1> USE DEF ChecksumsInv, ListType, ArgsInTable, AskedIsAtHand, Ends, hashtable
  <1>0. Len(msg) \in Nat /\ Len(argv) \in Nat
    OBVIOUS
  <1>1. CASE Begin
    <2>1. CASE cpc' \in {"args", "exit1"}
      BY <1>0, <1>1, <2>1 DEF Begin, LinesInTable
    <2>2. CASE cpc' = "lines"
      <3>1. argv = << >>
        BY <1>1, <2>2 DEF Begin
      <3>2. LinesInTable'
        BY <1>0, <1>1, <2>2, <3>1 DEF Begin, LinesInTable
      <3> QED BY <1>1, <2>2, <3>2 DEF Begin
    <2> QED BY <1>1, <2>1, <2>2 DEF Begin
  <1>2. CASE AskArg
    BY <1>2 DEF AskArg, Myh!Ask, LinesInTable
  <1>3. CASE PutArg
    <2>1. /\ cpc = "args" /\ answer \in {"found", "absent"} /\ answer' = "none" /\ i' = i + 1
          /\ UNCHANGED <<msg, argv, disk, cpc, ok, edits>>
      BY <1>3 DEF PutArg, Known, New, Myh!Forget, Myh!Insert
    <2>2. set' = set \cup {argv[i]} /\ i \in 1..Len(argv)
      BY <1>0, <1>3, <2>1 DEF PutArg, Known, New, Myh!Forget, Myh!Insert
    <2>3. set' = {argv[k] : k \in 1..i}
      BY <2>1, <2>2
    <2> QED BY <1>0, <2>1, <2>2, <2>3 DEF LinesInTable
  <1>4. CASE ArgsEnd
    <2>1. set = Named
      BY <1>0, <1>4 DEF ArgsEnd, Named
    <2>2. Shown = {}
      BY <1>4 DEF ArgsEnd, Shown
    <2>3. Named' = Named /\ Shown' = Shown
      BY <1>4 DEF ArgsEnd, Named, Shown
    <2> QED BY <1>0, <1>4, <2>1, <2>2, <2>3 DEF ArgsEnd, LinesInTable
  <1>5. CASE Lookup
    <2>1. Named' = Named /\ Shown' = Shown
      BY <1>5 DEF Lookup, Named, Shown
    <2> QED BY <1>5, <2>1 DEF Lookup, Myh!Answer, LinesInTable, Matches
  <1>6. CASE Unparsable
    BY <1>6 DEF Unparsable, Leave, LinesInTable
  <1>7. CASE AskLine
    <2>1. Named' = Named /\ Shown' = Shown
      BY <1>7 DEF AskLine, Named, Shown
    <2> QED BY <1>0, <1>7, <2>1 DEF AskLine, AtLine, Myh!Ask, LinesInTable, Matches
  <1>8. CASE NotAsked
    <2>1. Named' = Named /\ Shown' = Shown
      BY <1>8 DEF NotAsked, NextLine, Named, Shown
    <2>2. LinesInTable'
      BY <1>0, <1>8, <2>1 DEF NotAsked, NextLine, Myh!Forget, LinesInTable, Matches
    <2> QED BY <1>8, <2>2 DEF NotAsked, NextLine, Myh!Forget
  <1>9. CASE CheckAsked
    <2> USE DEF CheckAsked
    <2>1. CASE Leave("exit1")
      BY <1>9, <2>1 DEF Leave, LinesInTable
    <2>2. CASE Matches(msg[i]) /\ Myh!Remove /\ ok' = ok \cup {i} /\ NextLine /\ UNCHANGED cpc
      <3>1. Named' = Named /\ Shown' = Shown \cup {msg[i].file}
        BY <2>2 DEF NextLine, Named, Shown
      <3>2. LinesInTable'
        BY <1>0, <1>9, <2>2, <3>1 DEF NextLine, Myh!Remove, LinesInTable, Matches
      <3> QED BY <1>9, <2>2, <3>2 DEF NextLine, Myh!Remove
    <2>3. CASE ~ Matches(msg[i]) /\ Myh!Forget /\ NextLine /\ UNCHANGED <<cpc, ok>>
      <3>1. Named' = Named /\ Shown' = Shown
        BY <2>3 DEF NextLine, Named, Shown
      <3>2. LinesInTable'
        BY <1>0, <1>9, <2>3, <3>1 DEF NextLine, Myh!Forget, LinesInTable, Matches
      <3> QED BY <1>9, <2>3, <3>2 DEF NextLine, Myh!Forget
    <2> QED BY <1>9, <2>1, <2>2, <2>3
  <1>10. CASE CheckLine
    <2> USE DEF CheckLine, AtLine
    <2>1. CASE Leave("exit1")
      BY <1>10, <2>1 DEF Leave, LinesInTable
    <2>2. CASE Matches(msg[i]) /\ ok' = ok \cup {i} /\ NextLine /\ UNCHANGED <<cpc, hashtable>>
      <3>1. LinesInTable'
        BY <1>0, <1>10, <2>2 DEF NextLine, LinesInTable, Matches
      <3> QED BY <1>10, <2>2, <3>1 DEF NextLine
    <2>3. CASE /\ ~ Matches(msg[i]) /\ Myh!Ask(msg[i].file) /\ cpc' = "fail"
               /\ UNCHANGED <<msg, argv, disk, i, ok, edits>>
      BY <1>0, <1>10, <2>3 DEF Myh!Ask, LinesInTable, Matches
    <2> QED BY <1>10, <2>1, <2>2, <2>3
  <1>11. CASE PutFailed
    <2>1. /\ cpc = "fail" /\ argv = << >> /\ answer' = "none" /\ i' = i + 1 /\ cpc' = "lines"
          /\ i <= Len(msg) /\ msg[i] # BadLine
          /\ UNCHANGED <<msg, argv, disk, ok, edits>>
      BY <1>11 DEF PutFailed, NextLine, Known, New, Myh!Forget, Myh!Insert
    <2>2. set' = set \cup {msg[i].file}
      BY <1>11 DEF PutFailed, Known, New, Myh!Forget, Myh!Insert
    <2>3. LinesInTable'
      BY <1>0, <2>1, <2>2 DEF LinesInTable, Matches
    <2> QED BY <2>1, <2>3
  <1>12. CASE LinesEnd
    <2>1. Named' = Named /\ Shown' = Shown
      BY <1>12 DEF LinesEnd, Leave, Named, Shown
    <2> QED BY <1>0, <1>12, <2>1 DEF LinesEnd, Leave, LinesInTable, Matches
  <1>13. CASE Edit
    <2>1. Named' = Named /\ Shown' = Shown
      BY <1>13 DEF Edit, Named, Shown
    <2>2. edits' # 0 /\ edits' \in Nat
      BY <1>13 DEF Edit
    <2> QED BY <1>13, <2>1, <2>2 DEF Edit, LinesInTable
  <1>14. CASE UNCHANGED cvars
    BY <1>14, SMTT(30) DEF cvars, LinesInTable, Matches, Named, Shown
  <1> QED
    BY <1>1, <1>2, <1>3, <1>4, <1>5, <1>6, <1>7, <1>8, <1>9, <1>10, <1>11, <1>12, <1>13, <1>14
    DEF CheckNext, CheckStep, CheckDone

(* The exit status and the files printed as "FAIL" are right, whatever the *)
(* list, the arguments and the disk (signify.1, -C; verifychecksums).      *)
THEOREM VerdictAlwaysRight == CheckSpec => []VerdictIsRight
  <1>1. ChecksumsInv => VerdictIsRight
    <2> SUFFICES ASSUME ChecksumsInv, cpc \in {"exit0", "failed"} PROVE VerdictIsRight
      BY DEF VerdictIsRight
    <2> USE DEF ChecksumsInv, ListType, LinesInTable
    <2> DEFINE lines == {msg[k] : k \in 1..Len(msg)}
    <2>0. Len(msg) \in Nat /\ i - 1 = Len(msg)
      OBVIOUS
    <2>1. CASE argv = << >>
      <3>1. cpc = "exit0" => ok = 1..Len(msg)
        BY <2>0, <2>1
      <3>2. set = {msg[k].file : k \in 1..Len(msg) \ ok}
        BY <2>0, <2>1
      <3>3. edits = 0 => ((cpc = "exit0") <=> \A l \in lines : Matches(l))
        BY <2>0, <2>1
      <3> QED BY <2>1, <3>1, <3>2, <3>3 DEF VerdictIsRight
    <2>2. CASE argv # << >>
      <3>1. cpc = "exit0" => Named \subseteq Shown
        BY <2>0, <2>2
      <3>2. set = Named \ Shown
        BY <2>2
      <3>3. edits = 0 /\ cpc = "exit0" =>
              \A f \in Named : \E l \in lines : l # BadLine /\ l.file = f /\ Matches(l)
        BY <2>0, <3>1 DEF Shown
      <3>4. edits = 0 /\ cpc = "failed" =>
              \E f \in Named : \A l \in lines : l # BadLine /\ l.file = f => ~ Matches(l)
        BY <2>0, <3>2 DEF Shown
      <3> QED BY <2>2, <3>1, <3>2, <3>3, <3>4 DEF VerdictIsRight
    <2> QED BY <2>1, <2>2
  <1> QED BY <1>1, ChecksumsInit, ChecksumsNext, PTL DEF CheckSpec

-----------------------------------------------------------------------------
(* Quotients and remainders *)

LEMMA NextMultiple ==
  ASSUME NEW b \in Nat, NEW p \in Nat, NEW q \in Nat, p < q
  PROVE  b * p + b <= b * q
  <1>1. PICK d \in Nat : q = p + 1 + d
    <2>1. q - p - 1 \in Nat /\ q = p + 1 + (q - p - 1)
      OBVIOUS
    <2> QED BY <2>1
  <1>2. b * q = b * p + b + b * d /\ b * d \in Nat /\ b * p \in Nat
    BY <1>1
  <1> QED BY <1>2

LEMMA DivMod ==
  ASSUME NEW n \in Nat, NEW b \in Nat \ {0}
  PROVE  n = b * (n \div b) + (n % b) /\ n % b \in 0..(b - 1) /\ n \div b \in Nat
  <1> DEFINE x == n \div b
             y == n % b
  <1>1. y \in 0..(b - 1) /\ n = b * x + y /\ x \in Int
    OBVIOUS
  <1> HIDE DEF x, y
  <1>2. ~ (x < 0)
    <2> SUFFICES ASSUME x < 0 PROVE FALSE
      OBVIOUS
    <2>1. -x - 1 \in Nat /\ x = -1 - (-x - 1)
      BY <1>1
    <2>2. b * (-x - 1) \in Nat /\ b * x = -b - b * (-x - 1)
      BY <2>1
    <2> QED BY <1>1, <2>2
  <1>3. x \in Nat
    BY <1>1, <1>2
  <1> QED BY <1>1, <1>3 DEF x, y

LEMMA DivModIs ==
  ASSUME NEW n \in Nat, NEW b \in Nat \ {0}, NEW q \in Nat, NEW r \in 0..(b - 1), n = b * q + r
  PROVE  n \div b = q /\ n % b = r
  <1> DEFINE x == n \div b
             y == n % b
  <1>1. n = b * x + y /\ y \in 0..(b - 1) /\ x \in Nat
    BY DivMod
  <1> HIDE DEF x, y
  <1>2. b * x \in Nat /\ b * q \in Nat
    BY <1>1
  <1>3. ~ (x < q)
    <2> SUFFICES ASSUME x < q PROVE FALSE
      OBVIOUS
    <2>1. b * x + b <= b * q
      BY <1>1, NextMultiple
    <2> QED BY <1>1, <1>2, <2>1
  <1>4. ~ (q < x)
    <2> SUFFICES ASSUME q < x PROVE FALSE
      OBVIOUS
    <2>1. b * q + b <= b * x
      BY <1>1, NextMultiple
    <2> QED BY <1>1, <1>2, <2>1
  <1>5. q = x
    BY <1>1, <1>3, <1>4
  <1>6. r = y
    BY <1>1, <1>2, <1>5
  <1> QED BY <1>5, <1>6 DEF x, y

(* What is left over of n, and n more: whether a block was filled or not.  *)
LEMMA DivModSum ==
  ASSUME NEW l \in Nat, NEW n \in Nat, NEW b \in Nat \ {0}
  PROVE  /\ (l % b) + n < b => (l + n) \div b = l \div b /\ (l + n) % b = (l % b) + n
         /\ (l % b) + n >= b =>
              /\ n - (b - (l % b)) \in Nat
              /\ (l + n) \div b = l \div b + 1 + (n - (b - (l % b))) \div b
              /\ (l + n) % b = (n - (b - (l % b))) % b
  <1> DEFINE q == l \div b
             r == l % b
  <1>0. l = b * q + r /\ r \in 0..(b - 1) /\ q \in Nat
    BY DivMod
  <1> HIDE DEF q, r
  <1>1. l = b * q + r /\ r \in 0..(b - 1) /\ q \in Nat /\ b * q \in Nat
    BY <1>0
  <1>2. ASSUME r + n < b PROVE (l + n) \div b = q /\ (l + n) % b = r + n
    <2>1. l + n = b * q + (r + n) /\ r + n \in 0..(b - 1) /\ l + n \in Nat
      BY <1>1, <1>2
    <2> QED BY <1>1, <2>1, DivModIs
  <1>3. ASSUME r + n >= b
        PROVE  /\ n - (b - r) \in Nat /\ (l + n) \div b = q + 1 + (n - (b - r)) \div b
               /\ (l + n) % b = (n - (b - r)) % b
    <2> DEFINE m == n - (b - r)
               x == m \div b
               y == m % b
    <2>1. m \in Nat
      BY <1>1, <1>3
    <2>0. m = b * x + y /\ y \in 0..(b - 1) /\ x \in Nat
      BY <2>1, DivMod
    <2>3. l + n = b * q + b + m
      BY <1>1
    <2> HIDE DEF m, x, y
    <2>2. m = b * x + y /\ y \in 0..(b - 1) /\ x \in Nat /\ b * x \in Nat
      BY <2>0
    <2>4. b * (q + 1 + x) = b * q + b + b * x /\ q + 1 + x \in Nat
      BY <1>1, <2>2
    <2>5. l + n = b * (q + 1 + x) + y /\ l + n \in Nat
      BY <1>1, <2>2, <2>3, <2>4
    <2>6. (l + n) \div b = q + 1 + x /\ (l + n) % b = y
      BY <2>2, <2>4, <2>5, DivModIs
    <2> QED BY <2>1, <2>6 DEF m, x, y
  <1> QED BY <1>2, <1>3 DEF q, r

LEMMA BlockIs == BlockLen \in Nat \ {0} /\ BlockLen > 2 /\ Word \in Nat \ {0} /\ 8 * BlockLen \in Nat \ {0} /\ 8 * BlockLen <= Word
  <1>1. BlockLen \in Nat \ {0} /\ BlockLen > 2 /\ Word \in Nat \ {0} /\ Word % (8 * BlockLen) = 0
    BY Sha2Assumption
  <1> DEFINE c == 8 * BlockLen
  <1>2. c \in Nat \ {0}
    BY <1>1
  <1>3. c <= Word
    <2> HIDE DEF c
    <2> SUFFICES ASSUME Word < c PROVE FALSE
      BY <1>1, <1>2
    <2>1. Word = c * 0 + Word /\ Word \in 0..(c - 1)
      BY <1>1, <1>2
    <2>2. Word % c = Word
      BY <1>1, <1>2, <2>1, DivModIs
    <2> QED BY <1>1, <2>2 DEF c
  <1> QED BY <1>1, <1>2, <1>3

(* A word of the count of the bits tells how full the block is.            *)
LEMMA UsedIs ==
  ASSUME NEW l \in Nat
  PROVE  (((8 * l) % Word) \div 8) % BlockLen = l % BlockLen
  <1> DEFINE q == (8 * l) \div Word
             r == (8 * l) % Word
             m == Word \div (8 * BlockLen)
             x == l \div BlockLen
             y == l % BlockLen
  <1>1. 8 * l \in Nat
    OBVIOUS
  <1>2. 8 * l = Word * q + r /\ r \in 0..(Word - 1) /\ q \in Nat
    BY <1>1, BlockIs, DivMod
  <1>3. Word = (8 * BlockLen) * m /\ m \in Nat
    <2>1. Word = (8 * BlockLen) * m + (Word % (8 * BlockLen)) /\ m \in Nat
      BY BlockIs, DivMod
    <2>2. (8 * BlockLen) * m \in Nat
      BY <2>1, BlockIs
    <2> QED BY <2>1, <2>2, BlockIs, Sha2Assumption
  <1>4. l = BlockLen * x + y /\ y \in 0..(BlockLen - 1) /\ x \in Nat
    BY BlockIs, DivMod
  <1> HIDE DEF q, r, m, x, y
  <1> DEFINE d == BlockLen * (m * q)
  <1>5. Word * q = 8 * d /\ d \in Nat
    BY <1>2, <1>3, BlockIs, SMTT(30)
  <1> HIDE DEF d
  <1>6. r = 8 * (l - d) + 0 /\ l - d \in Nat
    BY <1>2, <1>5
  <1>7. r \div 8 = l - d
    BY <1>2, <1>6, DivModIs
  <1>8. m * q \in Nat /\ m * q <= x /\ l - d = BlockLen * (x - m * q) + y
    <2> DEFINE e == m * q
    <2>1. e \in Nat
      BY <1>2, <1>3
    <2>2. d = BlockLen * e
      BY DEF d
    <2> HIDE DEF e
    <2>3. ~ (x < e)
      <3> SUFFICES ASSUME x < e PROVE FALSE
        OBVIOUS
      <3>1. BlockLen * x + BlockLen <= BlockLen * e /\ BlockLen * x \in Nat
        BY <1>4, <2>1, BlockIs, NextMultiple
      <3> QED BY <1>4, <1>6, <2>2, <3>1, BlockIs
    <2>4. BlockLen * (x - e) = BlockLen * x - BlockLen * e
      BY <1>4, <2>1, BlockIs
    <2>5. l - d = BlockLen * (x - e) + y
      BY <1>4, <1>5, <2>2, <2>4, BlockIs
    <2> QED BY <1>4, <2>1, <2>3, <2>5 DEF e
  <1>9. (l - d) % BlockLen = y
    <2>1. x - m * q \in Nat
      BY <1>4, <1>8
    <2> QED BY <1>4, <1>6, <1>8, <2>1, BlockIs, DivModIs
  <1> QED BY <1>7, <1>9 DEF r, y

LEMMA ModSum ==
  ASSUME NEW l \in Nat, NEW n \in Nat, NEW b \in Nat \ {0}
  PROVE  /\ (l + n) % b = ((l % b) + n) % b
         /\ (l + n) \div b = l \div b + ((l % b) + n) \div b
  <1> DEFINE q == l \div b
             r == l % b
             x == (r + n) \div b
             y == (r + n) % b
  <1>1. l = b * q + r /\ r \in 0..(b - 1) /\ q \in Nat
    BY DivMod
  <1>2. r + n \in Nat
    BY <1>1
  <1>3. r + n = b * x + y /\ y \in 0..(b - 1) /\ x \in Nat
    <2> HIDE DEF r
    <2> QED BY <1>2, DivMod
  <1> HIDE DEF q, r, x, y
  <1>4. b * (q + x) = b * q + b * x /\ b * q \in Nat /\ b * x \in Nat /\ q + x \in Nat
    BY <1>1, <1>3
  <1>5. l + n = b * (q + x) + y /\ l + n \in Nat
    BY <1>1, <1>3, <1>4
  <1>6. (l + n) \div b = q + x /\ (l + n) % b = y
    BY <1>3, <1>4, <1>5, DivModIs
  <1> QED BY <1>6 DEF q, r, x, y

LEMMA DivWhole ==
  ASSUME NEW l \in Nat, NEW n \in Nat, NEW b \in Nat \ {0}, l % b = 0
  PROVE  (l + n) \div b = l \div b + n \div b
  <1>1. (l + n) \div b = l \div b + ((l % b) + n) \div b
    BY ModSum
  <1>2. (l % b) + n = n
    OBVIOUS
  <1> QED BY <1>1, <1>2

-----------------------------------------------------------------------------
(* The count of the bits, in one word or in two *)

CountOf(words, n) == <<n % Word, IF words = 1 THEN 0 ELSE (n \div Word) % Word>>

LEMMA CountedIs ==
  ASSUME NEW words \in {1, 2}, NEW x \in Nat, NEW n \in 0..Word
  PROVE  Counted(words, CountOf(words, x), n) = CountOf(words, x + n)
  <1> DEFINE q == x \div Word
             r == x % Word
  <1>0. Word \in Nat \ {0} /\ n \in Nat
    BY BlockIs
  <1>1. r \in 0..(Word - 1) /\ q \in Nat
    BY <1>0, DivMod
  <1>2. (x + n) % Word = (r + n) % Word /\ (x + n) \div Word = q + (r + n) \div Word
    BY <1>0, ModSum
  <1>3. CountOf(words, x) = <<r, IF words = 1 THEN 0 ELSE q % Word>>
    BY DEF CountOf
  <1> HIDE DEF q, r
  <1>4. CASE words = 1
    BY <1>2, <1>3, <1>4 DEF Counted, ADDINC64, CountOf
  <1>5. CASE words = 2
    <2>1. Counted(words, CountOf(words, x), n) =
            <<(r + n) % Word, IF (r + n) % Word < n THEN ((q % Word) + 1) % Word ELSE q % Word>>
      BY <1>3, <1>5 DEF Counted, ADDINC128
    <2>2. CASE r + n < Word
      <3>1. r + n = Word * 0 + (r + n) /\ r + n \in 0..(Word - 1) /\ r + n \in Nat
        BY <1>0, <1>1, <2>2
      <3>2. (r + n) % Word = r + n /\ (r + n) \div Word = 0
        BY <1>0, <3>1, DivModIs
      <3>3. ~ (r + n < n) /\ q + 0 = q
        BY <1>0, <1>1
      <3> QED BY <1>2, <1>5, <2>1, <3>2, <3>3 DEF CountOf
    <2>3. CASE r + n >= Word
      <3>1. r + n = Word * 1 + (r + n - Word) /\ r + n - Word \in 0..(Word - 1) /\ r + n \in Nat
        BY <1>0, <1>1, <2>3
      <3>2. (r + n) % Word = r + n - Word /\ (r + n) \div Word = 1
        BY <1>0, <3>1, DivModIs
      <3>3. r + n - Word < n
        BY <1>0, <1>1
      <3>4. ((q % Word) + 1) % Word = (q + 1) % Word
        <4>1. \A y \in Nat : (q + y) % Word = ((q % Word) + y) % Word
          BY <1>0, <1>1, ModSum
        <4> QED BY <4>1
      <3> QED BY <1>2, <1>5, <2>1, <3>2, <3>3, <3>4 DEF CountOf
    <2> QED BY <1>0, <1>1, <2>2, <2>3
  <1> QED BY <1>4, <1>5

-----------------------------------------------------------------------------
(* Blocks *)

Piece == [1..BlockLen -> Int]
BlocksOf(s) == [k \in 1..(Len(s) \div BlockLen) |-> SubSeq(s, (k - 1) * BlockLen + 1, k * BlockLen)]

LEMMA PlaceInBlock ==
  ASSUME NEW q \in Nat, NEW k \in 1..q, NEW j \in 1..BlockLen
  PROVE  (k - 1) * BlockLen + j \in 1..(q * BlockLen)
  <1>1. k - 1 \in Nat /\ k - 1 < q
    OBVIOUS
  <1>2. BlockLen * (k - 1) + BlockLen <= BlockLen * q
    BY <1>1, BlockIs, NextMultiple
  <1>3. BlockLen * (k - 1) = (k - 1) * BlockLen /\ BlockLen * q = q * BlockLen /\ (k - 1) * BlockLen \in Nat /\ q * BlockLen \in Nat
    BY <1>1, BlockIs
  <1> QED BY <1>2, <1>3, BlockIs


(* A sequence s cut into n blocks.                                         *)
Cut(blocks, s, n) ==
  /\ blocks \in Seq(Piece) /\ Len(blocks) = n
  /\ \A k \in 1..n : \A j \in 1..BlockLen :
       (k - 1) * BlockLen + j \in 1..Len(s) /\ blocks[k][j] = s[(k - 1) * BlockLen + j]

LEMMA CutAt ==
  ASSUME NEW s, NEW b, NEW n \in Nat, Cut(b, s, n), NEW k \in 1..n, NEW j \in 1..BlockLen
  PROVE  (k - 1) * BlockLen + j \in 1..Len(s) /\ b[k][j] = s[(k - 1) * BlockLen + j]
  BY DEF Cut

LEMMA CutOnce ==
  ASSUME NEW s, NEW b, NEW c, NEW n \in Nat, Cut(b, s, n), Cut(c, s, n)
  PROVE  b = c
  <1>1. /\ b \in Seq(Piece) /\ Len(b) = n /\ \A k \in 1..n : b[k] \in Piece
        /\ c \in Seq(Piece) /\ Len(c) = n /\ \A k \in 1..n : c[k] \in Piece
    <2>1. b \in Seq(Piece) /\ Len(b) = n /\ c \in Seq(Piece) /\ Len(c) = n
      BY DEF Cut
    <2> QED BY <2>1, ElementOfSeq
  <1>2. ASSUME NEW k \in 1..n PROVE b[k] = c[k]
    <2>1. \A j \in 1..BlockLen : b[k][j] = c[k][j]
      BY CutAt
    <2> DEFINE f == b[k]
               g == c[k]
    <2>2. f \in [1..BlockLen -> Int] /\ g \in [1..BlockLen -> Int] /\ \A j \in 1..BlockLen : f[j] = g[j]
      BY <1>1, <2>1 DEF Piece
    <2> HIDE DEF f, g
    <2>3. f = [j \in 1..BlockLen |-> f[j]] /\ g = [j \in 1..BlockLen |-> g[j]]
      BY ONLY <2>2
    <2>4. [j \in 1..BlockLen |-> f[j]] = [j \in 1..BlockLen |-> g[j]]
      BY ONLY <2>2
    <2> QED BY <2>3, <2>4 DEF f, g
  <1> QED BY <1>1, <1>2, SeqEqual

LEMMA BlocksAre ==
  ASSUME NEW s \in Seq(Int), NEW q, q = Len(s) \div BlockLen
  PROVE  q \in Nat /\ Cut(BlocksOf(s), s, q)
  <1>1. Len(s) \in Nat
    OBVIOUS
  <1>2. q \in Nat /\ q * BlockLen <= Len(s) /\ q * BlockLen \in Nat
    <2>1. Len(s) = BlockLen * q + (Len(s) % BlockLen) /\ Len(s) % BlockLen \in 0..(BlockLen - 1) /\ q \in Nat
      BY <1>1, BlockIs, DivMod
    <2>2. BlockLen * q \in Nat /\ BlockLen * q = q * BlockLen
      BY <2>1, BlockIs
    <2> QED BY <1>1, <2>1, <2>2, BlockIs
  <1>3. BlocksOf(s) = [k \in 1..q |-> SubSeq(s, (k - 1) * BlockLen + 1, k * BlockLen)]
    BY DEF BlocksOf
  <1>4. ASSUME NEW k \in 1..q
        PROVE  /\ BlocksOf(s)[k] \in Piece
               /\ \A j \in 1..BlockLen :
                    (k - 1) * BlockLen + j \in 1..Len(s) /\ BlocksOf(s)[k][j] = s[(k - 1) * BlockLen + j]
    <2> DEFINE a == (k - 1) * BlockLen
    <2>1. a \in Nat /\ k * BlockLen = a + BlockLen
      BY <1>2, BlockIs
    <2>2. \A j \in 1..BlockLen : a + j \in 1..Len(s)
      BY <1>1, <1>2, PlaceInBlock
    <2>3. BlocksOf(s)[k] = SubSeq(s, a + 1, a + BlockLen)
      BY <1>3, <2>1
    <2> HIDE DEF a
    <2>4. a + BlockLen <= Len(s)
      <3>1. BlockLen \in 1..BlockLen
        BY BlockIs
      <3>2. a + BlockLen \in 1..Len(s)
        BY <2>2, <3>1
      <3> QED BY <3>2
    <2>5. SubSeq(s, a + 1, a + BlockLen) \in Piece /\ \A j \in 1..BlockLen : SubSeq(s, a + 1, a + BlockLen)[j] = s[a + j]
      <3>1. a + 1 \in Int /\ a + BlockLen \in Int /\ \A v \in (a + 1)..(a + BlockLen) : s[v] \in Int
        <4>1. Len(s) \in Nat /\ \A v \in 1..Len(s) : s[v] \in Int
          BY <1>1, ElementOfSeq
        <4>2. \A v \in (a + 1)..(a + BlockLen) : v \in 1..Len(s)
          BY ONLY <2>1, <2>4, <4>1, BlockIs
        <4>3. a + 1 \in Int /\ a + BlockLen \in Int
          BY ONLY <2>1, BlockIs
        <4> QED BY ONLY <4>1, <4>2, <4>3
      <3>2. /\ SubSeq(s, a + 1, a + BlockLen) \in Seq(Int) /\ Len(SubSeq(s, a + 1, a + BlockLen)) = BlockLen
            /\ \A v \in 1..BlockLen : SubSeq(s, a + 1, a + BlockLen)[v] = s[(a + 1) + v - 1]
        BY <2>1, <3>1, BlockIs, SubSeqProperties
      <3>3. \A v \in 1..BlockLen : (a + 1) + v - 1 = a + v
        BY <2>1, BlockIs
      <3> QED BY <3>2, <3>3, LenProperties DEF Piece
    <2> QED BY <2>2, <2>3, <2>5 DEF a
  <1>5. BlocksOf(s) \in [1..q -> Piece]
    BY <1>3, <1>4
  <1>6. BlocksOf(s) \in Seq(Piece) /\ Len(BlocksOf(s)) = q
    BY <1>2, <1>5
  <1> QED BY <1>2, <1>4, <1>6 DEF Cut

LEMMA JoinIs ==
  ASSUME NEW s \in Seq(Int), NEW d \in Seq(Int)
  PROVE  /\ s \o d \in Seq(Int) /\ Len(s \o d) = Len(s) + Len(d) /\ Len(s) \in Nat /\ Len(d) \in Nat
         /\ \A v \in 1..Len(s) : v \in 1..Len(s \o d) /\ (s \o d)[v] = s[v]
         /\ \A v \in 1..Len(d) : Len(s) + v \in 1..Len(s \o d) /\ (s \o d)[Len(s) + v] = d[v]
  <1>1. Len(s) \in Nat /\ Len(d) \in Nat
    BY LenProperties
  <1>2. /\ s \o d \in Seq(Int) /\ Len(s \o d) = Len(s) + Len(d)
        /\ \A v \in 1..(Len(s) + Len(d)) : (s \o d)[v] = IF v <= Len(s) THEN s[v] ELSE d[v - Len(s)]
    BY ConcatProperties
  <1>3. \A v \in 1..Len(d) : Len(s) + v - Len(s) = v /\ ~ (Len(s) + v <= Len(s)) /\ Len(s) + v \in 1..(Len(s) + Len(d))
    BY <1>1
  <1>4. \A v \in 1..Len(s) : v <= Len(s) /\ v \in 1..(Len(s) + Len(d))
    BY <1>1
  <1> QED BY <1>1, <1>2, <1>3, <1>4

(* Joining associates. (As an operator, for citing the fact by itself.)    *)
Associates(x, y, z) == x \o (y \o z) = (x \o y) \o z

LEMMA JoinAssociates ==
  ASSUME NEW S, NEW x \in Seq(S), NEW y \in Seq(S), NEW z \in Seq(S)
  PROVE  Associates(x, y, z)
  BY ConcatAssociative DEF Associates

(* What is appended to blocks that are full.                               *)
LEMMA BlocksWhole ==
  ASSUME NEW s \in Seq(Int), NEW d \in Seq(Int), Len(s) % BlockLen = 0
  PROVE  BlocksOf(s \o d) = BlocksOf(s) \o BlocksOf(d)
  <1> DEFINE a == s \o d
             q == Len(s) \div BlockLen
             m == Len(d) \div BlockLen
             r == BlocksOf(s) \o BlocksOf(d)
  <1>1. /\ a \in Seq(Int) /\ Len(a) = Len(s) + Len(d) /\ Len(s) \in Nat /\ Len(d) \in Nat
        /\ \A v \in 1..Len(s) : v \in 1..Len(a) /\ a[v] = s[v]
        /\ \A v \in 1..Len(d) : Len(s) + v \in 1..Len(a) /\ a[Len(s) + v] = d[v]
    BY JoinIs
  <1>2. /\ q \in Nat /\ Cut(BlocksOf(s), s, q)
        /\ m \in Nat /\ Cut(BlocksOf(d), d, m)
    BY BlocksAre
  <1>3. Len(a) \div BlockLen = q + m
    <2>1. Len(s) \in Nat /\ Len(d) \in Nat /\ BlockLen \in Nat \ {0} /\ Len(s) % BlockLen = 0
      BY <1>1, BlockIs
    <2>2. (Len(s) + Len(d)) \div BlockLen = Len(s) \div BlockLen + Len(d) \div BlockLen
      BY ONLY <2>1, DivWhole
    <2> QED BY <1>1, <2>2
  <1>4. Len(s) = q * BlockLen
    <2>1. Len(s) = BlockLen * q + 0
      BY <1>1, BlockIs, DivMod
    <2> HIDE DEF q
    <2> QED BY <1>2, <2>1, BlockIs
  <1> HIDE DEF a, q, m
  <1>5. Cut(BlocksOf(a), a, q + m)
    BY <1>1, <1>3, BlocksAre
  <1>6. /\ r \in Seq(Piece) /\ Len(r) = q + m
        /\ \A k \in 1..(q + m) : r[k] = IF k <= q THEN BlocksOf(s)[k] ELSE BlocksOf(d)[k - q]
    <2>1. BlocksOf(s) \in Seq(Piece) /\ Len(BlocksOf(s)) = q /\ BlocksOf(d) \in Seq(Piece) /\ Len(BlocksOf(d)) = m
      BY <1>2 DEF Cut
    <2> QED BY <2>1, ConcatProperties
  <1> HIDE DEF r
  <1>7. ASSUME NEW k \in 1..(q + m), NEW j \in 1..BlockLen
        PROVE  (k - 1) * BlockLen + j \in 1..Len(a) /\ r[k][j] = a[(k - 1) * BlockLen + j]
    <2>1. CASE k <= q
      <3>1. k \in 1..q /\ r[k] = BlocksOf(s)[k]
        BY <1>2, <1>6, <2>1
      <3>2. (k - 1) * BlockLen + j \in 1..Len(s) /\ BlocksOf(s)[k][j] = s[(k - 1) * BlockLen + j]
        BY <1>2, <3>1, CutAt
      <3> QED BY <1>1, <3>1, <3>2
    <2>2. CASE k > q
      <3> DEFINE v == (k - q - 1) * BlockLen + j
      <3>1. k - q \in 1..m /\ r[k] = BlocksOf(d)[k - q]
        BY <1>2, <1>6, <2>2
      <3>2. v \in 1..Len(d) /\ BlocksOf(d)[k - q][j] = d[v]
        BY <1>2, <3>1, CutAt
      <3>3. (k - 1) * BlockLen + j = Len(s) + v
        <4>1. (k - 1) * BlockLen = q * BlockLen + (k - q - 1) * BlockLen
          BY <1>2, BlockIs
        <4>2. q * BlockLen \in Nat /\ (k - q - 1) * BlockLen \in Int /\ j \in Int
          BY <1>2, BlockIs
        <4> QED BY <1>4, <4>1, <4>2
      <3> HIDE DEF v
      <3> QED BY <1>1, <3>1, <3>2, <3>3
    <2> QED BY <1>2, <2>1, <2>2
  <1>8. Cut(r, a, q + m) /\ q + m \in Nat
    BY <1>2, <1>6, <1>7 DEF Cut
  <1>9. BlocksOf(a) = r
    BY <1>5, <1>8, CutOnce
  <1> QED BY <1>9 DEF a, r

LEMMA Remainder ==
  ASSUME NEW s \in Seq(Int)
  PROVE  /\ Len(s) = BlockLen * (Len(s) \div BlockLen) + (Len(s) % BlockLen)
         /\ Len(s) % BlockLen \in 0..(BlockLen - 1) /\ Len(s) \div BlockLen \in Nat
         /\ BlockLen * (Len(s) \div BlockLen) \in Nat /\ Len(s) \in Nat
  <1>1. Len(s) \in Nat /\ BlockLen \in Nat \ {0}
    BY BlockIs
  <1>2. /\ Len(s) = BlockLen * (Len(s) \div BlockLen) + (Len(s) % BlockLen)
        /\ Len(s) % BlockLen \in 0..(BlockLen - 1) /\ Len(s) \div BlockLen \in Nat
    BY ONLY <1>1, DivMod
  <1>3. \A x \in Nat : BlockLen * x \in Nat
    BY ONLY <1>1
  <1> QED BY ONLY <1>1, <1>2, <1>3

(* What is in the block at the end of s, and what fills it.              *)
Pending(s, j) == s[BlockLen * (Len(s) \div BlockLen) + j]

LEMMA BlocksFill ==
  ASSUME NEW s \in Seq(Int), NEW d \in Seq(Int), NEW p \in Piece,
         (Len(s) % BlockLen) + Len(d) = BlockLen,
         \A j \in 1..(Len(s) % BlockLen) : p[j] = Pending(s, j),
         \A j \in 1..Len(d) : p[(Len(s) % BlockLen) + j] = d[j]
  PROVE  BlocksOf(s \o d) = BlocksOf(s) \o <<p>> /\ Len(s \o d) % BlockLen = 0
  <1> DEFINE a == s \o d
             r == BlocksOf(s) \o <<p>>
             q == Len(s) \div BlockLen
             u == Len(s) % BlockLen
             e == BlockLen * q
  <1>1. /\ a \in Seq(Int) /\ Len(a) = Len(s) + Len(d) /\ Len(s) \in Nat /\ Len(d) \in Nat
        /\ \A v \in 1..Len(s) : v \in 1..Len(a) /\ a[v] = s[v]
        /\ \A v \in 1..Len(d) : Len(s) + v \in 1..Len(a) /\ a[Len(s) + v] = d[v]
    BY JoinIs
  <1>3. Len(s) \div BlockLen = q
    OBVIOUS
  <1>0. /\ Len(s) = e + u /\ u \in 0..(BlockLen - 1) /\ q \in Nat /\ e \in Nat /\ u + Len(d) = BlockLen
        /\ \A j \in 1..u : p[j] = s[e + j]
        /\ \A j \in 1..Len(d) : p[u + j] = d[j]
    BY Remainder DEF Pending
  <1> HIDE DEF u
  <1>2. BlockLen * q = e /\ BlockLen * (q + 1) = e + BlockLen /\ BlockLen \in Nat \ {0}
    BY <1>0, BlockIs
  <1> HIDE DEF q, e
  <1> HIDE DEF a
  <1>4. Len(a) \div BlockLen = q + 1 /\ Len(a) % BlockLen = 0
    <2>0. u \in Int /\ Len(d) \in Int /\ (e + u) + Len(d) = e + (u + Len(d))
      BY ONLY <1>0, <1>1, <1>2
    <2>1. Len(a) = e + BlockLen
      BY <1>0, <1>1, <2>0
    <2>2. Len(a) \in Nat /\ q + 1 \in Nat /\ 0 \in 0..(BlockLen - 1) /\ BlockLen \in Nat \ {0}
      BY ONLY <1>0, <1>2, <2>1
    <2>3. Len(a) = BlockLen * (q + 1) + 0
      BY ONLY <1>2, <2>1, <2>2
    <2> QED BY ONLY <2>2, <2>3, DivModIs
  <1>5. Cut(BlocksOf(s), s, q) /\ Cut(BlocksOf(a), a, q + 1)
    BY <1>1, <1>3, <1>4, BlocksAre
  <1>6. /\ r \in Seq(Piece) /\ Len(r) = q + 1
        /\ \A k \in 1..(q + 1) : r[k] = IF k <= q THEN BlocksOf(s)[k] ELSE p
    <2>1. BlocksOf(s) \in Seq(Piece) /\ Len(BlocksOf(s)) = q
      BY <1>5 DEF Cut
    <2> QED BY <2>1
  <1> HIDE DEF r
  <1>7. ASSUME NEW k \in 1..(q + 1), NEW j \in 1..BlockLen
        PROVE  (k - 1) * BlockLen + j \in 1..Len(a) /\ r[k][j] = a[(k - 1) * BlockLen + j]
    <2>1. CASE k <= q
      <3>1. k \in 1..q /\ r[k] = BlocksOf(s)[k]
        BY <1>6, <2>1
      <3>2. (k - 1) * BlockLen + j \in 1..Len(s) /\ BlocksOf(s)[k][j] = s[(k - 1) * BlockLen + j]
        <4>1. q \in Nat /\ j \in 1..BlockLen
          BY <1>0
        <4> QED BY ONLY <1>5, <3>1, <4>1, CutAt
      <3> QED BY <1>1, <3>1, <3>2
    <2>2. CASE k = q + 1
      <3>1. r[k] = p /\ (k - 1) * BlockLen = e
        <4>1. (q + 1) - 1 = q /\ q * BlockLen = BlockLen * q
          BY ONLY <1>0, <1>2
        <4> QED BY <1>2, <1>6, <2>2, <4>1
      <3>2. e + j \in 1..Len(a) /\ p[j] = a[e + j]
        <4>1. CASE j <= u
          <5>0. j \in 1..BlockLen
            OBVIOUS
          <5>1. j \in 1..u /\ p[j] = s[e + j]
            BY ONLY <1>0, <1>2, <4>1, <5>0
          <5>2. e + j \in 1..Len(s)
            BY ONLY <1>0, <1>2, <5>1
          <5> QED BY ONLY <1>1, <5>1, <5>2
        <4>2. CASE j > u
          <5>0. j \in 1..BlockLen
            OBVIOUS
          <5>1. j - u \in 1..Len(d) /\ u + (j - u) = j /\ Len(s) + (j - u) = e + j
            BY ONLY <1>0, <1>1, <1>2, <4>2, <5>0
          <5>2. p[u + (j - u)] = d[j - u] /\ Len(s) + (j - u) \in 1..Len(a) /\ a[Len(s) + (j - u)] = d[j - u]
            BY ONLY <1>0, <1>1, <5>1
          <5> QED BY ONLY <5>1, <5>2
        <4>3. j \in Int /\ u \in Int
          BY <1>0, <1>2
        <4> QED BY <4>1, <4>2, <4>3
      <3> QED BY <3>1, <3>2
    <2>3. k <= q \/ k = q + 1
      BY <1>0
    <2> QED BY <2>1, <2>2, <2>3
  <1>8. Cut(r, a, q + 1) /\ q + 1 \in Nat
    BY <1>0, <1>6, <1>7 DEF Cut
  <1>9. BlocksOf(a) = r
    BY <1>5, <1>8, CutOnce
  <1> QED BY <1>4, <1>9 DEF a, r

(* What leaves the block unfilled.                                         *)
LEMMA BlocksSame ==
  ASSUME NEW s \in Seq(Int), NEW d \in Seq(Int), (Len(s) % BlockLen) + Len(d) < BlockLen
  PROVE  BlocksOf(s \o d) = BlocksOf(s)
  <1> DEFINE a == s \o d
             q == Len(s) \div BlockLen
  <1>1. /\ a \in Seq(Int) /\ Len(a) = Len(s) + Len(d) /\ Len(s) \in Nat /\ Len(d) \in Nat
        /\ \A v \in 1..Len(s) : v \in 1..Len(a) /\ a[v] = s[v]
    BY JoinIs
  <1>2. q \in Nat /\ Cut(BlocksOf(s), s, q)
    BY BlocksAre
  <1>3. Len(a) \div BlockLen = q
    <2>1. \A n \in Nat : (Len(s) % BlockLen) + n < BlockLen => (Len(s) + n) \div BlockLen = q
      BY <1>1, BlockIs, DivModSum
    <2> QED BY <1>1, <2>1
  <1> HIDE DEF a, q
  <1>4. Cut(BlocksOf(a), a, q)
    BY <1>1, <1>3, BlocksAre
  <1>5. ASSUME NEW k \in 1..q, NEW j \in 1..BlockLen
        PROVE  (k - 1) * BlockLen + j \in 1..Len(a) /\ BlocksOf(s)[k][j] = a[(k - 1) * BlockLen + j]
    <2>1. (k - 1) * BlockLen + j \in 1..Len(s) /\ BlocksOf(s)[k][j] = s[(k - 1) * BlockLen + j]
      BY <1>2, CutAt
    <2> QED BY <1>1, <2>1
  <1>6. Cut(BlocksOf(s), a, q)
    BY <1>2, <1>5 DEF Cut
  <1>7. BlocksOf(a) = BlocksOf(s)
    BY <1>2, <1>4, <1>6, CutOnce
  <1> QED BY <1>7 DEF a
(* Joining blocks.                                                         *)

(* Induction over the numbers, for a set of them.                          *)
LEMMA NatLeast ==
  ASSUME NEW T \in SUBSET Nat, T # {}
  PROVE  \E m \in T : \A n \in T : m <= n
  <1> DEFINE R == OpToRel(<, Nat)
  <1>1. IsWellFoundedOn(R, Nat)
    BY NatLessThanWellFounded
  <1>2. \A x, y \in Nat : <<y, x>> \in R <=> y < x
    BY DEF R, OpToRel
  <1> HIDE DEF R
  <1>3. PICK m \in T : \A n \in T : ~ (<<n, m>> \in R)
    BY <1>1, WFMin
  <1>4. \A n \in T : m \in Nat /\ n \in Nat /\ ~ (n < m)
    BY <1>2, <1>3
  <1> QED BY <1>4

LEMMA NatInSet ==
  ASSUME NEW S, 0 \in S, \A n \in Nat : n \in S => n + 1 \in S
  PROVE  Nat \subseteq S
  <1> SUFFICES ASSUME Nat \ S # {} PROVE FALSE
    OBVIOUS
  <1>1. PICK m \in Nat \ S : \A n \in Nat \ S : m <= n
    BY NatLeast
  <1>2. m # 0 /\ m - 1 \in Nat /\ m - 1 \in S
    BY <1>1
  <1>3. (m - 1) + 1 \in S
    BY <1>2
  <1> QED BY <1>1, <1>3

-----------------------------------------------------------------------------
(* SHA*_Update *)

(* The counts after whole blocks, as Update counts them.                   *)
Counts(f, words, c, m) ==
  f = [k \in 0..m |-> IF k = 0 THEN c ELSE Counted(words, f[k - 1], 8 * BlockLen)]

LEMMA NextCount ==
  ASSUME NEW words \in {1, 2}, NEW x \in Nat, NEW k \in Nat
  PROVE  Counted(words, CountOf(words, x + 8 * BlockLen * k), 8 * BlockLen) = CountOf(words, x + 8 * BlockLen * (k + 1))
  <1> DEFINE y == x + 8 * BlockLen * k
  <1>1. 8 * BlockLen \in 0..Word
    BY BlockIs
  <1>2. y \in Nat
    BY BlockIs
  <1>3. y + 8 * BlockLen = x + 8 * BlockLen * (k + 1)
    BY BlockIs
  <1> HIDE DEF y
  <1>4. Counted(words, CountOf(words, y), 8 * BlockLen) = CountOf(words, y + 8 * BlockLen)
    BY <1>1, <1>2, CountedIs
  <1> QED BY <1>3, <1>4 DEF y

LEMMA CountsExist ==
  ASSUME NEW words \in {1, 2}, NEW x \in Nat, NEW m \in Nat
  PROVE  \E f : Counts(f, words, CountOf(words, x), m)
  <1> DEFINE f == [k \in 0..m |-> CountOf(words, x + 8 * BlockLen * k)]
  <1>1. ASSUME NEW k \in 0..m
        PROVE  CountOf(words, x + 8 * BlockLen * k) =
                 IF k = 0 THEN CountOf(words, x) ELSE Counted(words, f[k - 1], 8 * BlockLen)
    <2>1. CASE k = 0
      <3>1. x + 8 * BlockLen * k = x
        BY <2>1, BlockIs
      <3> QED BY <2>1, <3>1
    <2>2. CASE k # 0
      <3>1. k - 1 \in 0..m /\ k - 1 \in Nat /\ (k - 1) + 1 = k
        BY <2>2
      <3>2. f[k - 1] = CountOf(words, x + 8 * BlockLen * (k - 1))
        BY <3>1
      <3> QED BY <2>2, <3>1, <3>2, NextCount
    <2> QED BY <2>1, <2>2
  <1> DEFINE g == [k \in 0..m |-> IF k = 0 THEN CountOf(words, x) ELSE Counted(words, f[k - 1], 8 * BlockLen)]
  <1>2. f = g
    BY <1>1
  <1>3. Counts(f, words, CountOf(words, x), m)
    BY <1>2 DEF Counts
  <1> QED BY <1>3

LEMMA CountsAre ==
  ASSUME NEW words \in {1, 2}, NEW x \in Nat, NEW m \in Nat, NEW f, Counts(f, words, CountOf(words, x), m)
  PROVE  f[m] = CountOf(words, x + 8 * BlockLen * m)
  <1> DEFINE S == {k \in Nat : k <= m => f[k] = CountOf(words, x + 8 * BlockLen * k)}
  <1>1. \A k \in 0..m : f[k] = IF k = 0 THEN CountOf(words, x) ELSE Counted(words, f[k - 1], 8 * BlockLen)
    BY DEF Counts
  <1>2. 0 \in S
    <2>1. x + 8 * BlockLen * 0 = x /\ 0 \in 0..m
      BY BlockIs
    <2> QED BY <1>1, <2>1
  <1>3. ASSUME NEW k \in Nat, k \in S PROVE k + 1 \in S
    <2> SUFFICES ASSUME k + 1 <= m PROVE f[k + 1] = CountOf(words, x + 8 * BlockLen * (k + 1))
      OBVIOUS
    <2>1. k + 1 \in 0..m /\ k + 1 # 0 /\ (k + 1) - 1 = k /\ k <= m
      OBVIOUS
    <2>2. f[k + 1] = Counted(words, f[k], 8 * BlockLen) /\ f[k] = CountOf(words, x + 8 * BlockLen * k)
      BY <1>1, <1>3, <2>1
    <2> QED BY <2>2, NextCount
  <1> HIDE DEF S
  <1>4. m \in S
    BY <1>2, <1>3, NatInSet
  <1> QED BY <1>4 DEF S

LEMMA StoredAt ==
  ASSUME NEW buffer \in Piece, NEW u \in 0..(BlockLen - 1), NEW d \in Seq(Int)
  PROVE  /\ Stored(buffer, u, d) \in Piece
         /\ \A k \in 1..u : k \in 1..BlockLen => Stored(buffer, u, d)[k] = buffer[k]
         /\ \A j \in 1..Len(d) : u + j \in 1..BlockLen => Stored(buffer, u, d)[u + j] = d[j]
  <1> DEFINE r == Stored(buffer, u, d)
  <1>1. r = [k \in 1..BlockLen |-> IF k - u \in 1..Len(d) THEN d[k - u] ELSE buffer[k]]
    BY DEF Stored
  <1>2. BlockLen \in Nat /\ u \in Nat /\ Len(d) \in Nat
    BY BlockIs
  <1>3. ASSUME NEW k \in 1..BlockLen PROVE (IF k - u \in 1..Len(d) THEN d[k - u] ELSE buffer[k]) \in Int
    BY ElementOfSeq DEF Piece
  <1>4. r \in Piece
    BY <1>1, <1>3 DEF Piece
  <1>5. ASSUME NEW k \in 1..u, k \in 1..BlockLen PROVE r[k] = buffer[k]
    <2>1. ~ (k - u \in 1..Len(d))
      BY <1>2
    <2> QED BY <1>1, <1>5, <2>1
  <1>6. ASSUME NEW j \in 1..Len(d), u + j \in 1..BlockLen PROVE r[u + j] = d[j]
    <2>1. (u + j) - u = j
      BY <1>2
    <2> QED BY <1>1, <1>6, <2>1
  <1> HIDE DEF r
  <1> QED BY <1>4, <1>5, <1>6 DEF r

LEMMA StoredFirst ==
  ASSUME NEW buffer \in Piece, NEW d \in Seq(Int)
  PROVE  /\ Stored(buffer, 0, d) \in Piece
         /\ \A j \in 1..Len(d) : j \in 1..BlockLen => Stored(buffer, 0, d)[j] = d[j]
  <1>1. 0 \in 0..(BlockLen - 1)
    BY BlockIs
  <1>2. Stored(buffer, 0, d) \in Piece
    BY <1>1, StoredAt
  <1>3. ASSUME NEW j \in 1..Len(d), j \in 1..BlockLen PROVE Stored(buffer, 0, d)[j] = d[j]
    <2>1. j - 0 = j
      OBVIOUS
    <2> QED BY <1>3, <2>1 DEF Stored
  <1> QED BY <1>2, <1>3

(* The context of a message of which s was given.                          *)
Holds(buffer, s) == buffer \in Piece /\ \A j \in 1..(Len(s) % BlockLen) : buffer[j] = Pending(s, j)
ContextOf(words, iv, s, buffer) ==
  [state |-> <<iv>> \o BlocksOf(s), buffer |-> buffer, bitcount |-> CountOf(words, 8 * Len(s))]

LEMMA UsedSpaceIs ==
  ASSUME NEW words, NEW n \in Nat
  PROVE  UsedSpace(CountOf(words, 8 * n)) = n % BlockLen
  BY UsedIs DEF UsedSpace, CountOf

(* Data that leave the block unfilled.                                     *)
LEMMA UpdateSmall ==
  ASSUME NEW words \in {1, 2}, NEW iv, NEW s \in Seq(Int), NEW d \in Seq(Int), NEW buffer, Holds(buffer, s),
         (Len(s) % BlockLen) + Len(d) < BlockLen
  PROVE  /\ Holds(Stored(buffer, Len(s) % BlockLen, d), s \o d)
         /\ BlocksOf(s \o d) = BlocksOf(s)
         /\ Counted(words, CountOf(words, 8 * Len(s)), 8 * Len(d)) = CountOf(words, 8 * Len(s \o d))
  <1> DEFINE a == s \o d
             u == Len(s) % BlockLen
             e == BlockLen * (Len(s) \div BlockLen)
             b == Stored(buffer, u, d)
  <1>1. /\ a \in Seq(Int) /\ Len(a) = Len(s) + Len(d) /\ Len(s) \in Nat /\ Len(d) \in Nat
        /\ \A v \in 1..Len(s) : v \in 1..Len(a) /\ a[v] = s[v]
        /\ \A v \in 1..Len(d) : Len(s) + v \in 1..Len(a) /\ a[Len(s) + v] = d[v]
    BY JoinIs
  <1>2. Len(s) = e + u /\ u \in 0..(BlockLen - 1) /\ e \in Nat
    <2>1. Len(s) \in Nat /\ BlockLen \in Nat \ {0}
      BY <1>1, BlockIs
    <2>2. /\ Len(s) = BlockLen * (Len(s) \div BlockLen) + (Len(s) % BlockLen)
          /\ Len(s) % BlockLen \in 0..(BlockLen - 1) /\ Len(s) \div BlockLen \in Nat
      BY ONLY <2>1, DivMod
    <2>3. \A x \in Nat : BlockLen * x \in Nat
      BY ONLY <2>1
    <2> QED BY ONLY <2>2, <2>3
  <1>3. BlocksOf(a) = BlocksOf(s)
    BY BlocksSame
  <1>4. Len(a) % BlockLen = u + Len(d) /\ Len(a) \div BlockLen = Len(s) \div BlockLen
    <2>1. Len(s) \in Nat /\ Len(d) \in Nat /\ BlockLen \in Nat \ {0} /\ (Len(s) % BlockLen) + Len(d) < BlockLen
      BY <1>1, BlockIs
    <2>2. /\ (Len(s) + Len(d)) \div BlockLen = Len(s) \div BlockLen
          /\ (Len(s) + Len(d)) % BlockLen = (Len(s) % BlockLen) + Len(d)
      BY ONLY <2>1, DivModSum
    <2> QED BY ONLY <1>1, <2>2
  <1>5. BlockLen \in Nat /\ u + Len(d) < BlockLen
    BY BlockIs
  <1>6. buffer \in Piece /\ \A j \in 1..u : buffer[j] = s[e + j]
    BY DEF Holds, Pending
  <1>7. \A j : Pending(a, j) = a[e + j]
    BY <1>4 DEF Pending
  <1> HIDE DEF a, u, e
  <1>8. /\ b \in Piece
        /\ \A k \in 1..u : k \in 1..BlockLen => b[k] = buffer[k]
        /\ \A j \in 1..Len(d) : u + j \in 1..BlockLen => b[u + j] = d[j]
    BY <1>2, <1>6, StoredAt
  <1> HIDE DEF b
  <1>9. ASSUME NEW j \in 1..(u + Len(d)) PROVE b[j] = a[e + j]
    <2>1. CASE j <= u
      <3>1. j \in 1..u /\ j \in 1..BlockLen /\ e + j \in 1..Len(s)
        BY ONLY <1>1, <1>2, <1>5, <2>1, j \in 1..(u + Len(d))
      <3> QED BY ONLY <1>1, <1>6, <1>8, <3>1
    <2>2. CASE j > u
      <3>1. j - u \in 1..Len(d) /\ u + (j - u) = j /\ j \in 1..BlockLen /\ Len(s) + (j - u) = e + j
        BY ONLY <1>1, <1>2, <1>5, <2>2, j \in 1..(u + Len(d))
      <3>2. b[u + (j - u)] = d[j - u] /\ a[Len(s) + (j - u)] = d[j - u]
        BY ONLY <1>1, <1>8, <3>1
      <3> QED BY ONLY <3>1, <3>2
    <2> QED BY <1>2, <2>1, <2>2
  <1>10. Holds(b, a)
    BY <1>4, <1>7, <1>8, <1>9 DEF Holds
  <1>11. Counted(words, CountOf(words, 8 * Len(s)), 8 * Len(d)) = CountOf(words, 8 * Len(a))
    <2>1. 8 * Len(d) \in 0..Word /\ 8 * Len(s) \in Nat /\ 8 * Len(s) + 8 * Len(d) = 8 * Len(a)
      BY ONLY <1>1, <1>2, <1>5, BlockIs
    <2>2. Counted(words, CountOf(words, 8 * Len(s)), 8 * Len(d)) = CountOf(words, 8 * Len(s) + 8 * Len(d))
      BY <2>1, CountedIs
    <2> QED BY <2>1, <2>2
  <1> QED BY <1>3, <1>10, <1>11 DEF a, b, u

LEMMA PartIs ==
  ASSUME NEW d \in Seq(Int), NEW m \in Nat, NEW n \in Nat, m <= n, n <= Len(d)
  PROVE  /\ SubSeq(d, m + 1, n) \in Seq(Int) /\ Len(SubSeq(d, m + 1, n)) = n - m
         /\ \A v \in 1..(n - m) : m + v \in 1..Len(d) /\ SubSeq(d, m + 1, n)[v] = d[m + v]
  <1>1. Len(d) \in Nat
    OBVIOUS
  <1> DEFINE k == m + 1
             p == SubSeq(d, k, n)
  <1>2. k \in Int /\ n \in Int /\ \A v \in k..n : d[v] \in Int
    BY <1>1
  <1> HIDE DEF k
  <1>3. /\ p \in Seq(Int) /\ Len(p) = (IF k <= n THEN n - k + 1 ELSE 0)
        /\ \A v \in 1..(n - k + 1) : p[v] = d[k + v - 1]
    BY ONLY <1>2, SubSeqProperties
  <1>4. (IF k <= n THEN n - k + 1 ELSE 0) = n - m /\ n - k + 1 = n - m
    BY DEF k
  <1>5. \A v \in 1..(n - m) : k + v - 1 = m + v /\ m + v \in 1..Len(d)
    BY <1>1 DEF k
  <1> HIDE DEF p
  <1>6. /\ p \in Seq(Int) /\ Len(p) = n - m
        /\ \A v \in 1..(n - m) : m + v \in 1..Len(d) /\ p[v] = d[m + v]
    BY ONLY <1>3, <1>4, <1>5
  <1> QED BY <1>6 DEF p, k

(* A message cut in two.                                                   *)
LEMMA TwoParts ==
  ASSUME NEW s \in Seq(Int), NEW d \in Seq(Int), NEW m \in Nat, m <= Len(d)
  PROVE  s \o d = (s \o SubSeq(d, 1, m)) \o SubSeq(d, m + 1, Len(d))
  <1> DEFINE h == SubSeq(d, 1, m)
             t == SubSeq(d, m + 1, Len(d))
  <1>1. Len(s) \in Nat /\ Len(d) \in Nat
    OBVIOUS
  <1>2. h \in Seq(Int) /\ Len(h) = m /\ \A v \in 1..m : h[v] = d[v]
    <2>1. 0 <= m /\ 0 + 1 = 1 /\ m - 0 = m /\ \A v \in 1..m : 0 + v = v
      OBVIOUS
    <2> QED BY <2>1, PartIs
  <1>3. t \in Seq(Int) /\ Len(t) = Len(d) - m /\ \A v \in 1..(Len(d) - m) : t[v] = d[m + v]
    BY <1>1, PartIs
  <1> HIDE DEF h, t
  <1> DEFINE x == s \o d
             z == s \o h
             y == z \o t
  <1>4. /\ x \in Seq(Int) /\ Len(x) = Len(s) + Len(d)
        /\ \A v \in 1..(Len(s) + Len(d)) : x[v] = IF v <= Len(s) THEN s[v] ELSE d[v - Len(s)]
    BY ConcatProperties
  <1>5. /\ z \in Seq(Int) /\ Len(z) = Len(s) + m
        /\ \A v \in 1..(Len(s) + m) : z[v] = IF v <= Len(s) THEN s[v] ELSE h[v - Len(s)]
    BY <1>2, ConcatProperties
  <1> HIDE DEF z
  <1>6. /\ y \in Seq(Int) /\ Len(y) = Len(s) + Len(d)
        /\ \A v \in 1..(Len(s) + Len(d)) : y[v] = IF v <= Len(s) + m THEN z[v] ELSE t[v - (Len(s) + m)]
    <2>1. (Len(s) + m) + (Len(d) - m) = Len(s) + Len(d)
      BY <1>1
    <2>2. /\ y \in Seq(Int) /\ Len(y) = Len(z) + Len(t)
          /\ \A v \in 1..(Len(z) + Len(t)) : y[v] = IF v <= Len(z) THEN z[v] ELSE t[v - Len(z)]
      BY <1>3, <1>5, ConcatProperties
    <2> HIDE DEF y
    <2> QED BY ONLY <1>3, <1>5, <2>1, <2>2
  <1> HIDE DEF x, y
  <1>7. ASSUME NEW v \in 1..(Len(s) + Len(d)) PROVE x[v] = y[v]
    <2>1. CASE v <= Len(s)
      <3>1. v \in 1..(Len(s) + m) /\ v <= Len(s) + m /\ v \in 1..(Len(s) + Len(d))
        BY <1>1, <2>1
      <3> QED BY ONLY <1>4, <1>5, <1>6, <2>1, <3>1
    <2>2. CASE v > Len(s) /\ v <= Len(s) + m
      <3>1. v - Len(s) \in 1..m /\ v \in 1..(Len(s) + m) /\ ~ (v <= Len(s))
        BY <1>1, <2>2
      <3> QED BY <1>2, <1>4, <1>5, <1>6, <2>2, <3>1
    <2>3. CASE v > Len(s) + m
      <3>1. v - (Len(s) + m) \in 1..(Len(d) - m) /\ m + (v - (Len(s) + m)) = v - Len(s) /\ ~ (v <= Len(s)) /\ ~ (v <= Len(s) + m)
        BY <1>1, <2>3
      <3> QED BY <1>3, <1>4, <1>6, <3>1
    <2> QED BY <1>1, <2>1, <2>2, <2>3
  <1>8. x = y
    BY <1>4, <1>6, <1>7, SeqEqual
  <1> QED BY <1>8 DEF x, y, z, h, t

(* The bytes that fill the block, if it was begun.                         *)
LEMMA FillBlock ==
  ASSUME NEW s \in Seq(Int), NEW h \in Seq(Int), NEW buffer, Holds(buffer, s),
         Len(h) = IF Len(s) % BlockLen = 0 THEN 0 ELSE BlockLen - (Len(s) % BlockLen)
  PROVE  /\ Len(s \o h) % BlockLen = 0
         /\ Stored(buffer, Len(s) % BlockLen, h) \in Piece
         /\ BlocksOf(s \o h) =
              BlocksOf(s) \o (IF Len(s) % BlockLen > 0 THEN <<Stored(buffer, Len(s) % BlockLen, h)>> ELSE << >>)
  <1> DEFINE u == Len(s) % BlockLen
             q == Len(s) \div BlockLen
             p == Stored(buffer, u, h)
  <1>1. /\ Len(s) = BlockLen * q + u /\ u \in 0..(BlockLen - 1) /\ q \in Nat
        /\ BlockLen * q \in Nat /\ Len(s) \in Nat
    BY Remainder
  <1>2. buffer \in Piece /\ \A j \in 1..u : buffer[j] = Pending(s, j)
    BY DEF Holds
  <1>3. Len(h) = (IF u = 0 THEN 0 ELSE BlockLen - u) /\ BlocksOf(s) \in Seq(Piece)
    <2>1. Cut(BlocksOf(s), s, q)
      BY BlocksAre
    <2> QED BY <2>1 DEF Cut
  <1> HIDE DEF u, q
  <1>4. /\ p \in Piece
        /\ \A k \in 1..u : k \in 1..BlockLen => p[k] = buffer[k]
        /\ \A j \in 1..Len(h) : u + j \in 1..BlockLen => p[u + j] = h[j]
    BY <1>1, <1>2, StoredAt
  <1> HIDE DEF p
  <1>5. CASE u = 0
    <2>1. h = << >> /\ ~ (u > 0)
      BY <1>3, <1>5, EmptySeq
    <2>2. s \o h = s /\ BlocksOf(s) \o << >> = BlocksOf(s)
      BY <1>3, <2>1, ConcatEmptySeq
    <2>3. Len(s \o h) % BlockLen = 0
      BY <1>5, <2>2 DEF u
    <2> QED BY <1>4, <2>1, <2>2, <2>3 DEF u, p
  <1>6. CASE u # 0
    <2>1. u > 0 /\ u + Len(h) = BlockLen
      BY <1>1, <1>3, <1>6, BlockIs
    <2>3. \A j \in 1..u : p[j] = Pending(s, j)
      <3>1. \A j \in 1..u : j \in 1..BlockLen
        BY <1>1, BlockIs
      <3> QED BY ONLY <1>2, <1>4, <3>1
    <2>4. \A j \in 1..Len(h) : p[u + j] = h[j]
      <3>1. \A j \in 1..Len(h) : u + j \in 1..BlockLen
        BY <1>1, <2>1, BlockIs
      <3> QED BY <1>4, <3>1
    <2>5. BlocksOf(s \o h) = BlocksOf(s) \o <<p>> /\ Len(s \o h) % BlockLen = 0
      BY <1>4, <2>1, <2>3, <2>4, BlocksFill DEF u
    <2> QED BY <1>4, <2>1, <2>5 DEF u, p
  <1> QED BY <1>5, <1>6

(* What comes after that: whole blocks, and the rest.                      *)
LEMMA WholeBlocks ==
  ASSUME NEW s \in Seq(Int), Len(s) % BlockLen = 0, NEW d \in Seq(Int), NEW m \in 0..Len(d),
         NEW full \in Piece, NEW w, w = (Len(d) - m) \div BlockLen
  PROVE  LET t == SubSeq(d, m + 1, Len(d))
             rest == SubSeq(d, m + w * BlockLen + 1, Len(d)) IN
         /\ t \in Seq(Int) /\ w \in Nat
         /\ BlocksOf(s \o t) =
              BlocksOf(s) \o [k \in 1..w |-> SubSeq(d, m + (k - 1) * BlockLen + 1, m + k * BlockLen)]
         /\ rest \in Seq(Int) /\ Len(rest) < BlockLen /\ Len(s \o t) = Len(s) + BlockLen * w + Len(rest)
         /\ Holds(Stored(full, 0, rest), s \o t)
  <1> DEFINE t == SubSeq(d, m + 1, Len(d))
             e == BlockLen * w
             n == m + e
             rest == SubSeq(d, n + 1, Len(d))
             blocks == [k \in 1..w |-> SubSeq(d, m + (k - 1) * BlockLen + 1, m + k * BlockLen)]
  <1>1. Len(d) \in Nat /\ m \in Nat /\ m <= Len(d) /\ BlockLen \in Nat \ {0}
    BY BlockIs
  <1>2. t \in Seq(Int) /\ Len(t) = Len(d) - m /\ \A v \in 1..(Len(d) - m) : t[v] = d[m + v]
    BY <1>1, PartIs
  <1>3. Len(t) \div BlockLen = w
    BY <1>2
  <1> HIDE DEF t
  <1> DEFINE r == Len(t) % BlockLen
  <1>4. Len(t) = e + r /\ r \in 0..(BlockLen - 1) /\ w \in Nat /\ e \in Nat
    BY <1>2, <1>3, Remainder
  <1> HIDE DEF r
  <1>5. w * BlockLen = e /\ m + w * BlockLen = n
    BY <1>1, <1>4
  <1>6. n \in Nat /\ n <= Len(d)
    BY <1>1, <1>2, <1>4
  <1> HIDE DEF e, n
  <1>7. rest \in Seq(Int) /\ Len(rest) = Len(d) - n /\ \A v \in 1..(Len(d) - n) : rest[v] = d[n + v]
    BY <1>1, <1>6, PartIs
  <1> HIDE DEF rest
  <1>8. Len(rest) = r
    <2>1. n = m + e
      BY DEF n
    <2> DEFINE ld == Len(d)
               lt == Len(t)
               lr == Len(rest)
    <2>2. lr = ld - n
      BY ONLY <1>7
    <2>3. lt = ld - m
      BY ONLY <1>2
    <2>4. lt = e + r
      BY ONLY <1>4
    <2>5. ld \in Int /\ m \in Int
      BY ONLY <1>1
    <2>6. r \in Int /\ e \in Int
      BY ONLY <1>1, <1>4
    <2> HIDE DEF ld, lt, lr
    <2>7. lr = r
      BY ONLY <2>1, <2>2, <2>3, <2>4, <2>5, <2>6
    <2> QED BY <2>7 DEF lr
  <1>9. BlocksOf(t) = blocks
    <2>1. Cut(BlocksOf(t), t, w)
      BY <1>2, <1>3, BlocksAre
    <2>2. ASSUME NEW k \in 1..w
          PROVE  /\ blocks[k] \in Piece
                 /\ \A j \in 1..BlockLen : (k - 1) * BlockLen + j \in 1..Len(t) /\ blocks[k][j] = t[(k - 1) * BlockLen + j]
      <3> DEFINE c == (k - 1) * BlockLen
      <3>1. c \in Nat /\ k * BlockLen = c + BlockLen
        BY <1>1, <1>4
      <3>2. \A j \in 1..BlockLen : c + j \in 1..(w * BlockLen)
        BY <1>4, PlaceInBlock
      <3>3. blocks[k] = SubSeq(d, m + c + 1, m + (c + BlockLen))
        BY <3>1
      <3> HIDE DEF c, blocks
      <3>4. \A j \in 1..BlockLen : c + j \in 1..e
        BY <1>5, <3>2
      <3>5. c + BlockLen <= e
        <4>1. BlockLen \in 1..BlockLen
          BY <1>1
        <4> QED BY <3>4, <4>1
      <3>6. m + c \in Nat /\ m + c + BlockLen \in Nat /\ m + c <= m + c + BlockLen /\ m + c + BlockLen <= Len(d)
            /\ m + (c + BlockLen) = m + c + BlockLen /\ (m + c + BlockLen) - (m + c) = BlockLen
        BY ONLY <1>1, <1>2, <1>4, <3>1, <3>5
      <3> DEFINE x == m + c
                 y == m + c + BlockLen
      <3>7. x \in Nat /\ y \in Nat /\ x <= y /\ y <= Len(d) /\ y - x = BlockLen /\ blocks[k] = SubSeq(d, x + 1, y)
        BY <3>3, <3>6
      <3>8. x = m + c
        OBVIOUS
      <3> HIDE DEF x, y
      <3>9. /\ blocks[k] \in Seq(Int) /\ Len(blocks[k]) = BlockLen
            /\ \A j \in 1..BlockLen : blocks[k][j] = d[x + j]
        <4>1. d \in Seq(Int)
          OBVIOUS
        <4>2. /\ SubSeq(d, x + 1, y) \in Seq(Int) /\ Len(SubSeq(d, x + 1, y)) = y - x
              /\ \A j \in 1..(y - x) : x + j \in 1..Len(d) /\ SubSeq(d, x + 1, y)[j] = d[x + j]
          BY ONLY <3>7, <4>1, PartIs
        <4> QED BY ONLY <3>7, <4>2
      <3>10. blocks[k] \in Piece
        BY <3>9, LenProperties DEF Piece
      <3>11. ASSUME NEW j \in 1..BlockLen PROVE c + j \in 1..Len(t) /\ blocks[k][j] = t[c + j]
        <4>1. c + j \in 1..(Len(d) - m) /\ m + (c + j) = x + j
          <5>1. c + j \in 1..e /\ j \in Int
            BY <1>1, <3>4
          <5> QED BY ONLY <1>1, <1>2, <1>4, <3>1, <3>8, <5>1
        <4>2. t[c + j] = d[m + (c + j)] /\ c + j \in 1..Len(t)
          BY <1>2, <4>1
        <4> QED BY <3>9, <4>1, <4>2
      <3> QED BY <3>10, <3>11 DEF c
    <2>3. blocks \in [1..w -> Piece]
      BY <2>2
    <2> HIDE DEF blocks
    <2>4. blocks \in Seq(Piece) /\ Len(blocks) = w
      <3>1. w \in Nat
        BY <1>4
      <3> QED BY ONLY <2>3, <3>1
    <2>5. Cut(blocks, t, w)
      BY <2>2, <2>4 DEF Cut
    <2> QED BY <1>4, <2>1, <2>5, CutOnce
  <1>10. BlocksOf(s \o t) = BlocksOf(s) \o blocks
    <2>1. BlocksOf(s \o t) = BlocksOf(s) \o BlocksOf(t)
      BY <1>2, BlocksWhole
    <2> QED BY <1>9, <2>1
  <1>11. Len(s \o t) = Len(s) + e + Len(rest)
    <2>1. Len(s \o t) = Len(s) + Len(t) /\ Len(s) \in Nat
      BY <1>2, JoinIs
    <2>2. Len(t) = e + Len(rest) /\ e \in Int /\ Len(rest) \in Int
      BY ONLY <1>1, <1>4, <1>8
    <2> QED BY ONLY <2>1, <2>2
  <1>12. Holds(Stored(full, 0, rest), s \o t)
    <2> DEFINE a == s \o t
               b == Stored(full, 0, rest)
    <2>1. /\ Len(a) = Len(s) + Len(t) /\ Len(s) \in Nat
          /\ \A v \in 1..Len(t) : a[Len(s) + v] = t[v]
      BY <1>2, JoinIs
    <2>2. /\ b \in Piece
          /\ \A j \in 1..Len(rest) : j \in 1..BlockLen => b[j] = rest[j]
      BY <1>7, StoredFirst
    <2>3. Len(a) % BlockLen = Len(rest) /\ BlockLen * (Len(a) \div BlockLen) = Len(s) + e
      <3>0. Len(s) \in Nat /\ Len(t) \in Nat /\ BlockLen \in Nat \ {0} /\ Len(s) % BlockLen = 0
        BY <1>1, <1>2, <2>1
      <3>1. (Len(s) + Len(t)) % BlockLen = ((Len(s) % BlockLen) + Len(t)) % BlockLen
        BY ONLY <3>0, ModSum
      <3>2. (Len(s) % BlockLen) + Len(t) = Len(t)
        BY ONLY <3>0
      <3>3. Len(a) % BlockLen = Len(rest)
        BY <1>8, <2>1, <3>1, <3>2 DEF r
      <3>4. a \in Seq(Int)
        BY <1>2, JoinIs
      <3>5. Len(a) = BlockLen * (Len(a) \div BlockLen) + (Len(a) % BlockLen) /\ BlockLen * (Len(a) \div BlockLen) \in Nat
        BY <3>4, Remainder
      <3>6. Len(a) = Len(s) + e + Len(rest)
        BY <1>11
      <3> DEFINE z == BlockLen * (Len(a) \div BlockLen)
      <3> HIDE DEF a
      <3>7. Len(rest) \in Nat /\ e \in Nat /\ Len(s) \in Nat /\ Len(a) = Len(s) + e + Len(rest)
        BY <1>4, <1>8, <2>1, <3>6
      <3>8. Len(a) = z + Len(rest) /\ z \in Nat
        BY <3>3, <3>5
      <3> HIDE DEF z
      <3>9. z = Len(s) + e
        <4> DEFINE la == Len(a)
                   ls == Len(s)
                   lr == Len(rest)
        <4>1. la = ls + e + lr
          BY ONLY <3>7
        <4>2. la = z + lr
          BY ONLY <3>8
        <4>3. ls \in Nat /\ lr \in Nat /\ e \in Nat
          BY ONLY <3>7
        <4>4. z \in Nat
          BY ONLY <3>8
        <4> HIDE DEF la, ls, lr
        <4>5. z = ls + e
          BY ONLY <4>1, <4>2, <4>3, <4>4
        <4> QED BY ONLY <4>5 DEF ls
      <3> QED BY <3>3, <3>9 DEF z
    <2> HIDE DEF a, b
    <2>4. ASSUME NEW j \in 1..Len(rest) PROVE b[j] = a[(Len(s) + e) + j]
      <3>1. j \in 1..BlockLen /\ 0 + j = j /\ e + j \in 1..Len(t) /\ (Len(s) + e) + j = Len(s) + (e + j)
        <4>1. j \in 1..Len(rest)
          OBVIOUS
        <4>2. Len(t) = e + Len(rest) /\ Len(rest) \in 0..(BlockLen - 1) /\ e \in Nat /\ Len(s) \in Nat
          BY <1>4, <1>8, <2>1
        <4> QED BY ONLY <1>1, <4>1, <4>2
      <3>2. b[j] = rest[j] /\ a[Len(s) + (e + j)] = t[e + j]
        BY <2>1, <2>2, <3>1
      <3>3. rest[j] = d[n + j] /\ t[e + j] = d[m + (e + j)] /\ m + (e + j) = n + j
        <4>1. j \in 1..(Len(d) - n) /\ e + j \in 1..(Len(d) - m) /\ j \in Int
          BY <1>2, <1>7, <3>1
        <4>2. m + (e + j) = n + j
          BY <1>1, <1>4, <4>1 DEF n
        <4> QED BY <1>2, <1>7, <4>1, <4>2
      <3> QED BY <3>1, <3>2, <3>3
    <2>5. \A j \in 1..(Len(a) % BlockLen) : b[j] = Pending(a, j)
      BY <2>3, <2>4 DEF Pending
    <2> QED BY <2>2, <2>5 DEF Holds, a, b
  <1>13. Len(rest) < BlockLen
    BY ONLY <1>1, <1>4, <1>8
  <1> HIDE DEF blocks
  <1>14. SubSeq(d, m + w * BlockLen + 1, Len(d)) = rest
    BY <1>5 DEF rest
  <1> QED BY <1>2, <1>4, <1>7, <1>10, <1>11, <1>12, <1>13, <1>14 DEF t, blocks, e

(* Every piece of data, whatever its length, leads from the context of a   *)
(* message to that of the longer one.                                      *)
IsContext(context, words, iv, s) == \E buffer : Holds(buffer, s) /\ context = ContextOf(words, iv, s, buffer)

LEMMA UpdateIs ==
  ASSUME NEW words \in {1, 2}, NEW iv, NEW s \in Seq(Int), NEW d \in Seq(Int),
         NEW context, IsContext(context, words, iv, s)
  PROVE  IsContext(Update(words, context, d), words, iv, s \o d)
  <1>0. PICK buffer : Holds(buffer, s) /\ context = ContextOf(words, iv, s, buffer)
    BY DEF IsContext
  <1> DEFINE used == UsedSpace(context.bitcount)
             m == IF used = 0 THEN 0 ELSE BlockLen - used
             w == (Len(d) - m) \div BlockLen
             blocks == [k \in 1..w |-> SubSeq(d, m + (k - 1) * BlockLen + 1, m + k * BlockLen)]
             c == Counted(words, context.bitcount, 8 * m)
             f == CHOOSE g : g = [k \in 0..w |-> IF k = 0 THEN c ELSE Counted(words, g[k - 1], 8 * BlockLen)]
             rest == SubSeq(d, m + w * BlockLen + 1, Len(d))
             full == Stored(context.buffer, used, SubSeq(d, 1, m))
             small == [context EXCEPT !.buffer = Stored(@, used, d), !.bitcount = Counted(words, @, 8 * Len(d))]
             large == [state |-> context.state \o (IF used > 0 THEN <<full>> ELSE << >>) \o blocks,
                       buffer |-> Stored(full, 0, rest),
                       bitcount |-> Counted(words, f[w], 8 * Len(rest))]
             u == Len(s) % BlockLen
  <1>1. Update(words, context, d) = IF used > 0 /\ Len(d) < m THEN small ELSE large
    BY Zenon DEF Update
  <1> HIDE DEF small, large
  <1>2. /\ context.state = <<iv>> \o BlocksOf(s) /\ context.buffer = buffer
        /\ context.bitcount = CountOf(words, 8 * Len(s))
    BY <1>0 DEF ContextOf
  <1>3. Len(s) \in Nat /\ u \in 0..(BlockLen - 1) /\ BlockLen \in Nat \ {0} /\ Len(d) \in Nat
    BY Remainder, BlockIs, LenProperties
  <1>4. used = u
    BY <1>2, <1>3, UsedSpaceIs
  <1> HIDE DEF used, u
  <1>5. CASE used > 0 /\ Len(d) < m
    <2>1. u + Len(d) < BlockLen
      BY ONLY <1>3, <1>4, <1>5
    <2>2. /\ Holds(Stored(buffer, u, d), s \o d) /\ BlocksOf(s \o d) = BlocksOf(s)
          /\ Counted(words, CountOf(words, 8 * Len(s)), 8 * Len(d)) = CountOf(words, 8 * Len(s \o d))
      BY <1>0, <2>1, UpdateSmall DEF u
    <2>3. small = ContextOf(words, iv, s \o d, Stored(buffer, u, d))
      <3> DEFINE n == CountOf(words, 8 * Len(s))
                 b == Stored(buffer, u, d)
      <3> DEFINE st == context.state
      <3>1. context = [state |-> st, buffer |-> buffer, bitcount |-> n]
        BY <1>0 DEF ContextOf
      <3>0. st = context.state
        OBVIOUS
      <3> HIDE DEF st
      <3>2. small = [context EXCEPT !.buffer = Stored(@, u, d), !.bitcount = Counted(words, @, 8 * Len(d))]
        BY <1>4 DEF small
      <3> HIDE DEF n, b
      <3>3. small = [state |-> st, buffer |-> Stored(buffer, u, d), bitcount |-> Counted(words, n, 8 * Len(d))]
        BY ONLY <3>1, <3>2
      <3> QED BY <1>2, <2>2, <3>0, <3>3 DEF ContextOf, n, b
    <2> QED BY <1>1, <1>5, <2>2, <2>3 DEF IsContext
  <1>6. CASE ~ (used > 0 /\ Len(d) < m)
    <2> DEFINE h == SubSeq(d, 1, m)
               t == SubSeq(d, m + 1, Len(d))
               s1 == s \o h
    <2>1. m \in 0..Len(d) /\ m \in Nat /\ m <= Len(d) /\ m = (IF u = 0 THEN 0 ELSE BlockLen - u) /\ m \in 0..BlockLen
      BY ONLY <1>3, <1>4, <1>6
    <2> HIDE DEF m
    <2>2. h \in Seq(Int) /\ Len(h) = m
      <3>1. 0 <= m /\ 0 + 1 = 1 /\ m - 0 = m
        BY <2>1
      <3> QED BY <2>1, <3>1, PartIs
    <2>3. s \o d = s1 \o t
      BY <2>1, TwoParts
    <2> HIDE DEF h
    <2>4. /\ Len(s1) % BlockLen = 0 /\ Stored(buffer, u, h) \in Piece
          /\ BlocksOf(s1) = BlocksOf(s) \o (IF u > 0 THEN <<Stored(buffer, u, h)>> ELSE << >>)
      BY <1>0, <2>1, <2>2, FillBlock DEF u
    <2>5. full = Stored(buffer, u, h)
      BY <1>2, <1>4 DEF h
    <2>6. s1 \in Seq(Int) /\ Len(s1) = Len(s) + m
      BY <2>2, JoinIs
    <2> HIDE DEF full, s1
    <2>7. /\ t \in Seq(Int) /\ w \in Nat
          /\ BlocksOf(s1 \o t) = BlocksOf(s1) \o blocks
          /\ rest \in Seq(Int) /\ Len(rest) < BlockLen /\ Len(s1 \o t) = Len(s1) + BlockLen * w + Len(rest)
          /\ Holds(Stored(full, 0, rest), s1 \o t)
      <3>1. s1 \in Seq(Int) /\ Len(s1) % BlockLen = 0 /\ d \in Seq(Int) /\ m \in 0..Len(d) /\ full \in Piece
        BY <2>1, <2>4, <2>5, <2>6
      <3>2. w = (Len(d) - m) \div BlockLen
        OBVIOUS
      <3> QED BY ONLY <3>1, <3>2, WholeBlocks
    <2> HIDE DEF t, w, blocks, rest
    <2>8. c = CountOf(words, 8 * Len(s) + 8 * m)
      <3>1. 8 * Len(s) \in Nat /\ 8 * m \in 0..Word
        BY ONLY <1>3, <2>1, BlockIs
      <3> QED BY <1>2, <3>1, CountedIs
    <2> HIDE DEF c
    <2> DEFINE x == 8 * Len(s) + 8 * m
    <2>9. f[w] = CountOf(words, x + 8 * BlockLen * w)
      <3>1. x \in Nat
        BY <1>3, <2>1
      <3> HIDE DEF x
      <3>2. \E g : Counts(g, words, c, w)
        BY <2>7, <2>8, <3>1, CountsExist DEF x
      <3>3. Counts(f, words, c, w)
        BY <3>2 DEF Counts
      <3> HIDE DEF f
      <3> QED BY <2>7, <2>8, <3>1, <3>3, CountsAre DEF x
    <2> HIDE DEF f
    <2>10. Counted(words, f[w], 8 * Len(rest)) = CountOf(words, 8 * Len(s1 \o t))
      <3> DEFINE y == x + 8 * BlockLen * w
                 z == BlockLen * w
      <3>1. Len(rest) \in Nat
        BY <2>7, LenProperties
      <3>2. z \in Nat /\ 8 * BlockLen * w = 8 * z
        BY ONLY <1>3, <2>7
      <3>3. y = 8 * Len(s) + 8 * m + 8 * z
        BY <3>2
      <3>4. Len(s1 \o t) = Len(s) + m + z + Len(rest)
        BY <2>6, <2>7
      <3> HIDE DEF y, z
      <3>6. y \in Nat /\ 8 * Len(rest) \in 0..Word
        <4> DEFINE ls == Len(s)
                   lr == Len(rest)
        <4>1. ls \in Nat /\ lr \in Nat /\ m \in Nat /\ z \in Nat /\ y = 8 * ls + 8 * m + 8 * z /\ lr <= BlockLen
          BY ONLY <1>3, <2>1, <2>7, <3>1, <3>2, <3>3, BlockIs
        <4> HIDE DEF ls, lr
        <4>2. y \in Nat /\ 8 * lr \in 0..Word
          BY ONLY <4>1, BlockIs
        <4> QED BY ONLY <4>2 DEF lr
      <3>7. y + 8 * Len(rest) = 8 * Len(s1 \o t)
        <4> DEFINE ls == Len(s)
                   lr == Len(rest)
                   lt == Len(s1 \o t)
        <4>1. ls \in Int /\ lr \in Int /\ m \in Int
          BY ONLY <1>3, <2>1, <3>1
        <4>2. y = 8 * ls + 8 * m + 8 * z
          BY ONLY <3>3
        <4>3. lt = ls + m + z + lr
          BY ONLY <3>4
        <4> HIDE DEF ls, lr, lt
        <4>4. y + 8 * lr = 8 * lt
          BY ONLY <3>2, <4>1, <4>2, <4>3
        <4> QED BY ONLY <4>4 DEF lr, lt
      <3> HIDE DEF y
      <3>5. Counted(words, CountOf(words, y), 8 * Len(rest)) = CountOf(words, y + 8 * Len(rest))
        BY <3>6, CountedIs
      <3> QED BY <2>9, <3>5, <3>7 DEF y
    <2>11. <<iv>> \o BlocksOf(s1 \o t) = context.state \o (IF used > 0 THEN <<full>> ELSE << >>) \o blocks
      <3> DEFINE more == IF used > 0 THEN <<full>> ELSE << >>
      <3>1. BlocksOf(s1 \o t) = (BlocksOf(s) \o more) \o blocks
        BY <1>4, <2>4, <2>5, <2>7
      <3>2. context.state = <<iv>> \o BlocksOf(s)
        BY <1>2
      <3>3. \E S : <<iv>> \in Seq(S) /\ BlocksOf(s) \in Seq(S) /\ more \in Seq(S) /\ blocks \in Seq(S)
        <4> DEFINE S == Piece \cup {iv, full} \cup {blocks[k] : k \in 1..w}
        <4>1. BlocksOf(s) \in Seq(Piece)
          BY BlocksAre DEF Cut
        <4>2. BlocksOf(s) \in Seq(S)
          BY <4>1
        <4>3. blocks \in Seq(S)
          <5>1. blocks = [k \in 1..w |-> blocks[k]]
            BY DEF blocks
          <5>2. \A k \in 1..w : blocks[k] \in S
            OBVIOUS
          <5> HIDE DEF S
          <5>3. blocks \in [1..w -> S]
            BY <5>1, <5>2
          <5>4. w \in Nat
            BY <2>7
          <5> HIDE DEF blocks
          <5> QED BY ONLY <5>3, <5>4
        <4>4. iv \in S /\ full \in S
          OBVIOUS
        <4> HIDE DEF S, blocks, full
        <4>5. <<iv>> \in Seq(S) /\ more \in Seq(S)
          BY ONLY <4>4
        <4> QED BY ONLY <4>2, <4>3, <4>5
      <3> HIDE DEF more
      <3>4. PICK S : <<iv>> \in Seq(S) /\ BlocksOf(s) \in Seq(S) /\ more \in Seq(S) /\ blocks \in Seq(S)
        BY <3>3
      <3>5. <<iv>> \o ((BlocksOf(s) \o more) \o blocks) = ((<<iv>> \o BlocksOf(s)) \o more) \o blocks
        <4>1. BlocksOf(s) \o more \in Seq(S) /\ <<iv>> \o BlocksOf(s) \in Seq(S)
          BY <3>4, ConcatProperties
        <4>2. <<iv>> \o ((BlocksOf(s) \o more) \o blocks) = (<<iv>> \o (BlocksOf(s) \o more)) \o blocks
          <5> DEFINE vs == <<iv>>
                     bs == BlocksOf(s) \o more
          <5>1. vs \in Seq(S) /\ bs \in Seq(S) /\ blocks \in Seq(S)
            BY <3>4, <4>1
          <5> HIDE DEF vs, bs, blocks
          <5>2. Associates(vs, bs, blocks)
            BY ONLY <5>1, JoinAssociates
          <5> QED BY ONLY <5>2 DEF Associates, vs, bs
        <4>3. <<iv>> \o (BlocksOf(s) \o more) = (<<iv>> \o BlocksOf(s)) \o more
          <5> DEFINE vs == <<iv>>
                     bs == BlocksOf(s)
          <5>1. vs \in Seq(S) /\ bs \in Seq(S) /\ more \in Seq(S)
            BY <3>4
          <5> HIDE DEF vs, bs
          <5>2. Associates(vs, bs, more)
            BY ONLY <5>1, JoinAssociates
          <5> QED BY ONLY <5>2 DEF Associates, vs, bs
        <4> QED BY ONLY <4>2, <4>3
      <3> QED BY <3>1, <3>2, <3>5 DEF more
    <2>12. large = ContextOf(words, iv, s1 \o t, Stored(full, 0, rest))
      BY <2>10, <2>11 DEF large, ContextOf
    <2>13. Holds(Stored(full, 0, rest), s \o d) /\ large = ContextOf(words, iv, s \o d, Stored(full, 0, rest))
      BY <2>3, <2>7, <2>12
    <2> QED BY <1>1, <1>6, <2>13 DEF IsContext
  <1> QED BY <1>5, <1>6

-----------------------------------------------------------------------------
(* SHA*_Pad and SHA*_Final *)

(* A sequence that goes on as far as the end of the block.                 *)
Extends(a, s, p) ==
  /\ Len(a) = BlockLen * (Len(s) \div BlockLen) + BlockLen
  /\ \A v \in 1..Len(s) : a[v] = s[v]
  /\ \A j \in 1..BlockLen : p[j] = a[BlockLen * (Len(s) \div BlockLen) + j]

LEMMA BlocksExtend ==
  ASSUME NEW s \in Seq(Int), NEW a \in Seq(Int), NEW p \in Piece, Extends(a, s, p)
  PROVE  BlocksOf(a) = BlocksOf(s) \o <<p>> /\ Len(a) % BlockLen = 0
  <1> DEFINE u == Len(s) % BlockLen
             e == BlockLen * (Len(s) \div BlockLen)
             ls == Len(s)
             la == Len(a)
             d == SubSeq(a, Len(s) + 1, Len(a))
  <1>1. ls = e + u /\ u \in 0..(BlockLen - 1) /\ e \in Nat /\ ls \in Nat /\ BlockLen \in Nat \ {0}
    BY Remainder, BlockIs
  <1>2. la = e + BlockLen /\ \A v \in 1..ls : a[v] = s[v]
    BY DEF Extends
  <1>10. \A j \in 1..BlockLen : p[j] = a[e + j]
    BY DEF Extends
  <1>11. e = BlockLen * (Len(s) \div BlockLen)
    OBVIOUS
  <1> HIDE DEF u, ls, e
  <1> HIDE DEF la
  <1>3. la \in Nat /\ ls <= la /\ la - ls = BlockLen - u
    BY ONLY <1>1, <1>2
  <1>4. d \in Seq(Int) /\ Len(d) = BlockLen - u /\ \A v \in 1..(BlockLen - u) : d[v] = a[ls + v]
    <2> DEFINE x == SubSeq(a, ls + 1, la)
    <2>1. la <= Len(a)
      BY <1>3 DEF la
    <2>2. /\ x \in Seq(Int) /\ Len(x) = la - ls
          /\ \A v \in 1..(la - ls) : ls + v \in 1..Len(a) /\ x[v] = a[ls + v]
      <3>1. a \in Seq(Int)
        OBVIOUS
      <3> QED BY ONLY <1>1, <1>3, <2>1, <3>1, PartIs
    <2>3. d = x
      BY DEF ls, la
    <2> HIDE DEF d, x
    <2> QED BY ONLY <1>3, <2>2, <2>3
  <1> HIDE DEF d
  <1>5. s \o d = a
    <2> DEFINE b == s \o d
               lb == Len(b)
    <2>1. /\ b \in Seq(Int) /\ lb = ls + Len(d)
          /\ \A v \in 1..ls : b[v] = s[v]
          /\ \A v \in 1..Len(d) : b[ls + v] = d[v]
      BY <1>4, JoinIs DEF ls
    <2> HIDE DEF b
    <2>2. lb = la
      <3> DEFINE ld == Len(d)
      <3>1. lb = ls + ld
        BY ONLY <2>1
      <3>2. ld = BlockLen - u
        BY ONLY <1>4
      <3> HIDE DEF lb, ld
      <3> QED BY ONLY <1>1, <1>3, <3>1, <3>2
    <2>3. ASSUME NEW v \in 1..la PROVE b[v] = a[v]
      <3>1. CASE v <= ls
        <4>1. v \in 1..ls
          BY <1>3, <3>1
        <4> QED BY ONLY <1>2, <2>1, <4>1
      <3>2. CASE v > ls
        <4>0. v \in Int /\ v <= la
          BY <1>3
        <4>1. v - ls \in 1..(BlockLen - u) /\ ls + (v - ls) = v
          BY ONLY <1>1, <1>3, <3>2, <4>0
        <4>2. b[ls + (v - ls)] = d[v - ls] /\ d[v - ls] = a[ls + (v - ls)]
          <5>1. v - ls \in 1..Len(d)
            BY <1>4, <4>1
          <5> QED BY ONLY <1>4, <2>1, <4>1, <5>1
        <4> QED BY ONLY <4>1, <4>2
      <3> QED BY <1>1, <1>3, <3>1, <3>2
    <2>4. Len(b) = Len(a) /\ \A v \in 1..Len(a) : b[v] = a[v]
      BY <2>2, <2>3 DEF la, lb
    <2>5. b = a
      BY <2>1, <2>4, SeqEqual
    <2> QED BY <2>5 DEF b
  <1>6. u + Len(d) = BlockLen
    <2> DEFINE ld == Len(d)
    <2>1. ld = BlockLen - u
      BY ONLY <1>4
    <2> HIDE DEF ld
    <2>2. u + ld = BlockLen
      BY ONLY <1>1, <2>1
    <2> QED BY <2>2 DEF ld
  <1>7. ASSUME NEW j \in 1..u PROVE p[j] = Pending(s, j)
    <2>1. j \in 1..BlockLen /\ e + j \in 1..ls
      BY ONLY <1>1, j \in 1..u
    <2>2. p[j] = a[e + j] /\ a[e + j] = s[e + j]
      BY <1>2, <1>10, <2>1
    <2> QED BY <1>11, <2>2 DEF Pending
  <1>8. ASSUME NEW j \in 1..Len(d) PROVE p[u + j] = d[j]
    <2>1. j \in 1..(BlockLen - u)
      BY <1>4
    <2>2. u + j \in 1..BlockLen /\ e + (u + j) = ls + j
      BY ONLY <1>1, <2>1
    <2>3. p[u + j] = a[e + (u + j)] /\ d[j] = a[ls + j]
      BY <1>4, <1>10, <2>1, <2>2
    <2> QED BY <2>2, <2>3
  <1>9. BlocksOf(s \o d) = BlocksOf(s) \o <<p>> /\ Len(s \o d) % BlockLen = 0
    BY <1>4, <1>6, <1>7, <1>8, BlocksFill DEF u
  <1> QED BY <1>5, <1>9

(* The remainder of a sum that ends within a block, or at its end.         *)
LEMMA ZerosAre ==
  ASSUME NEW l \in Nat, NEW w \in 0..(BlockLen - 1)
  PROVE  LET u == l % BlockLen
             z == (BlockLen - ((l + 1 + w) % BlockLen)) % BlockLen IN
         /\ u + 1 + w <= BlockLen => z = BlockLen - (u + 1 + w)
         /\ u + 1 + w > BlockLen => z = 2 * BlockLen - (u + 1 + w)
  <1> DEFINE B == BlockLen
             u == l % B
             v == u + (1 + w)
  <1>0. B \in Nat \ {0} /\ B > 2
    BY BlockIs
  <1>1. u \in 0..(B - 1)
    BY <1>0, DivMod
  <1>2. l + 1 + w = l + (1 + w) /\ 1 + w \in Nat /\ u + 1 + w = v
    BY <1>0, <1>1
  <1>3. (l + (1 + w)) % B = v % B
    BY <1>0, <1>2, ModSum
  <1> DEFINE z == (B - (v % B)) % B
  <1>8. z = (B - ((l + 1 + w) % B)) % B
    BY <1>2, <1>3
  <1> HIDE DEF u
  <1>4. v \in 1..(2 * B - 1)
    BY <1>0, <1>1
  <1> HIDE DEF v
  <1>5. ASSUME v < B PROVE z = B - v
    <2>1. v = B * 0 + v /\ v \in 0..(B - 1) /\ v \in Nat
      BY <1>0, <1>4, <1>5
    <2>2. v % B = v
      BY <1>0, <2>1, DivModIs
    <2>3. B - v = B * 0 + (B - v) /\ B - v \in 0..(B - 1) /\ B - v \in Nat
      BY <1>0, <1>4, <1>5
    <2>4. (B - v) % B = B - v
      BY <1>0, <2>3, DivModIs
    <2> QED BY <2>2, <2>4
  <1>6. ASSUME v = B PROVE z = B - v
    <2>1. v = B * 1 + 0 /\ 0 \in 0..(B - 1) /\ v \in Nat
      BY <1>0, <1>4, <1>6
    <2>2. v % B = 0
      BY <1>0, <2>1, DivModIs
    <2>3. B - 0 = v /\ B - v = 0
      BY <1>0, <1>6
    <2> QED BY <2>2, <2>3
  <1>7. ASSUME v > B PROVE z = 2 * B - v
    <2>1. v = B * 1 + (v - B) /\ v - B \in 0..(B - 1) /\ v \in Nat
      BY <1>0, <1>4, <1>7
    <2>2. v % B = v - B
      BY <1>0, <2>1, DivModIs
    <2>3. 2 * B - v = B * 0 + (2 * B - v) /\ 2 * B - v \in 0..(B - 1) /\ 2 * B - v \in Nat
      BY <1>0, <1>4, <1>7
    <2>4. (2 * B - v) % B = 2 * B - v /\ B - (v - B) = 2 * B - v
      BY <1>0, <1>4, <2>3, DivModIs
    <2> QED BY <2>2, <2>4
  <1> HIDE DEF z
  <1>9. (v <= B => z = B - v) /\ (v > B => z = 2 * B - v)
    BY ONLY <1>0, <1>4, <1>5, <1>6, <1>7
  <1> QED BY <1>2, <1>8, <1>9 DEF u

(* The message, the mark, the zeros and the length, byte by byte.          *)
Followed(s, z, length) == s \o <<128>> \o [k \in 1..z |-> 0] \o length

IsFollowed(a, s, z, length) ==
  LET l == Len(s)
      w == Len(length) IN
  /\ a \in Seq(Int) /\ Len(a) = l + 1 + z + w
  /\ \A v \in 1..l : a[v] = s[v]
  /\ a[l + 1] = 128
  /\ \A v \in 1..z : a[l + 1 + v] = 0
  /\ \A v \in 1..w : a[l + 1 + z + v] = length[v]

LEMMA FollowedIs ==
  ASSUME NEW s \in Seq(Int), NEW z \in Nat, NEW length \in Seq(Int)
  PROVE  IsFollowed(Followed(s, z, length), s, z, length)
  <1> DEFINE l == Len(s)
             w == Len(length)
             zs == [k \in 1..z |-> 0]
             one == <<128>>
             x == s \o one
             y == x \o zs
             a == y \o length
  <1>1. zs \in Seq(Int) /\ Len(zs) = z /\ \A v \in 1..z : zs[v] = 0
    OBVIOUS
  <1>2. one \in Seq(Int) /\ Len(one) = 1 /\ one[1] = 128
    OBVIOUS
  <1>3. l \in Nat /\ w \in Nat /\ l = Len(s) /\ w = Len(length)
    OBVIOUS
  <1> HIDE DEF zs, one, l, w
  <1>4. /\ x \in Seq(Int) /\ Len(x) = l + 1
        /\ \A v \in 1..(l) : x[v] = s[v]
        /\ \A v \in 1..1 : x[l + v] = one[v]
    <2> DEFINE m == Len(s)
               n == Len(one)
    <2>1. /\ x \in Seq(Int) /\ Len(x) = m + n
          /\ \A v \in 1..m : x[v] = s[v]
          /\ \A v \in 1..n : x[m + v] = one[v]
      <3>1. s \in Seq(Int) /\ one \in Seq(Int)
        BY <1>2
      <3> QED BY ONLY <3>1, JoinIs
    <2> HIDE DEF x
    <2>2. m = l /\ n = 1
      BY <1>2, <1>3
    <2> HIDE DEF m, n
    <2> QED BY ONLY <2>1, <2>2
  <1> HIDE DEF x
  <1>5. /\ y \in Seq(Int) /\ Len(y) = l + 1 + z
        /\ \A v \in 1..(l + 1) : y[v] = x[v]
        /\ \A v \in 1..z : y[l + 1 + v] = zs[v]
    <2> DEFINE m == Len(x)
               n == Len(zs)
    <2>1. /\ y \in Seq(Int) /\ Len(y) = m + n
          /\ \A v \in 1..m : y[v] = x[v]
          /\ \A v \in 1..n : y[m + v] = zs[v]
      <3>1. x \in Seq(Int) /\ zs \in Seq(Int)
        BY <1>1, <1>4
      <3> QED BY ONLY <3>1, JoinIs
    <2> HIDE DEF y
    <2>2. m = l + 1 /\ n = z
      BY <1>1, <1>4
    <2> HIDE DEF m, n
    <2> QED BY ONLY <2>1, <2>2
  <1> HIDE DEF y
  <1>6. /\ a \in Seq(Int) /\ Len(a) = l + 1 + z + w
        /\ \A v \in 1..(l + 1 + z) : a[v] = y[v]
        /\ \A v \in 1..w : a[l + 1 + z + v] = length[v]
    <2> DEFINE m == Len(y)
               n == Len(length)
    <2>1. /\ a \in Seq(Int) /\ Len(a) = m + n
          /\ \A v \in 1..m : a[v] = y[v]
          /\ \A v \in 1..n : a[m + v] = length[v]
      BY <1>5, JoinIs
    <2> HIDE DEF a
    <2>2. m = l + 1 + z /\ n = w
      BY <1>3, <1>5
    <2> HIDE DEF m, n
    <2> QED BY ONLY <2>1, <2>2
  <1> HIDE DEF a
  <1>7. ASSUME NEW v \in 1..l PROVE a[v] = s[v]
    <2>1. v \in 1..(l + 1) /\ v \in 1..(l + 1 + z)
      BY <1>3
    <2> QED BY ONLY <1>4, <1>5, <1>6, <2>1, v \in 1..l
  <1>8. a[l + 1] = 128
    <2>1. l + 1 \in 1..(l + 1) /\ l + 1 \in 1..(l + 1 + z) /\ 1 \in 1..1
      BY <1>3
    <2> QED BY ONLY <1>2, <1>4, <1>5, <1>6, <2>1
  <1>9. ASSUME NEW v \in 1..z PROVE a[l + 1 + v] = 0
    <2>1. l + 1 + v \in 1..(l + 1 + z)
      BY <1>3
    <2> QED BY ONLY <1>1, <1>5, <1>6, <2>1, v \in 1..z
  <1>10. Followed(s, z, length) = a
    BY DEF Followed, a, y, x, one, zs
  <1>11. IsFollowed(a, s, z, length)
    BY ONLY <1>3, <1>6, <1>7, <1>8, <1>9 DEF IsFollowed
  <1> QED BY ONLY <1>10, <1>11

(* What Padded makes of the block in the buffer, byte by byte.             *)
LEMMA MarkedAt ==
  ASSUME NEW buffer \in Piece, NEW u \in 0..(BlockLen - 1), NEW last \in Nat, NEW k \in 1..BlockLen
  PROVE  LET c == Cleared(Stored(buffer, u, <<128>>), u + 1, last) IN
         /\ c \in Piece
         /\ k <= u => c[k] = buffer[k]
         /\ k = u + 1 => c[k] = 128
         /\ k > u + 1 /\ k <= last => c[k] = 0
  <1> DEFINE one == <<128>>
             m == Stored(buffer, u, one)
             c == Cleared(m, u + 1, last)
  <1>1. BlockLen \in Nat \ {0} /\ u \in Nat
    BY BlockIs
  <1>2. one \in Seq(Int) /\ Len(one) = 1 /\ one[1] = 128
    OBVIOUS
  <1>3. m = [v \in 1..BlockLen |-> IF v - u \in 1..1 THEN one[v - u] ELSE buffer[v]]
    BY <1>2 DEF Stored
  <1>4. m \in Piece
    BY <1>1, <1>2, StoredAt
  <1> HIDE DEF m
  <1>5. c = [v \in 1..BlockLen |-> IF v > u + 1 /\ v <= last THEN 0 ELSE m[v]]
    BY DEF Cleared
  <1>6. c \in Piece
    BY <1>4, <1>5 DEF Piece
  <1>7. k <= u => c[k] = buffer[k]
    <2> SUFFICES ASSUME k <= u PROVE c[k] = buffer[k]
      OBVIOUS
    <2>1. ~ (k - u \in 1..1) /\ ~ (k > u + 1)
      BY <1>1
    <2> QED BY <1>3, <1>5, <2>1
  <1>8. k = u + 1 => c[k] = 128
    <2> SUFFICES ASSUME k = u + 1 PROVE c[k] = 128
      OBVIOUS
    <2>1. k - u = 1 /\ 1 \in 1..1 /\ ~ (k > u + 1)
      BY <1>1
    <2> HIDE DEF one, c
    <2>2. m[k] = one[k - u]
      BY <1>3, <2>1
    <2>3. c[k] = m[k]
      BY <1>5, <2>1
    <2> QED BY <1>2, <2>1, <2>2, <2>3
  <1>9. k > u + 1 /\ k <= last => c[k] = 0
    BY <1>5
  <1> HIDE DEF c
  <1> QED BY <1>6, <1>7, <1>8, <1>9 DEF c, m, one

LEMMA LengthAt ==
  ASSUME NEW block \in Piece, NEW length \in Seq(Int), NEW w, w = Len(length), w < BlockLen, w >= 1,
         NEW k \in 1..BlockLen
  PROVE  LET c == Stored(block, BlockLen - w, length) IN
         /\ c \in Piece
         /\ k <= BlockLen - w => c[k] = block[k]
         /\ k > BlockLen - w => c[k] = length[k - (BlockLen - w)]
  <1> DEFINE short == BlockLen - w
             c == Stored(block, short, length)
  <1>1. BlockLen \in Nat \ {0} /\ w \in Nat /\ short \in 0..(BlockLen - 1)
    BY BlockIs
  <1> HIDE DEF short
  <1>2. c = [v \in 1..BlockLen |-> IF v - short \in 1..w THEN length[v - short] ELSE block[v]]
    BY DEF Stored
  <1>3. c \in Piece
    BY <1>1, StoredAt
  <1>4. k <= short => c[k] = block[k]
    BY <1>1, <1>2
  <1>5. k > short => c[k] = length[k - short]
    <2>1. k > short => k - short \in 1..w
      BY <1>1 DEF short
    <2> QED BY <1>2, <2>1
  <1> QED BY <1>3, <1>4, <1>5 DEF short

JoinTwo(iv, blocks, p, q) == (<<iv>> \o blocks) \o <<p, q>> = <<iv>> \o ((blocks \o <<p>>) \o <<q>>)

LEMMA StateJoin ==
  ASSUME NEW iv, NEW blocks \in Seq(Piece), NEW p \in Piece, NEW q \in Piece
  PROVE  /\ (<<iv>> \o blocks) \o <<p>> = <<iv>> \o (blocks \o <<p>>)
         /\ JoinTwo(iv, blocks, p, q)
  <1> DEFINE S == Piece \cup {iv}
             vs == <<iv>>
             ps == <<p>>
             qs == <<q>>
  <1>1. vs \in Seq(S) /\ blocks \in Seq(S) /\ ps \in Seq(S) /\ qs \in Seq(S)
    OBVIOUS
  <1>2. <<p, q>> = ps \o qs
    <2> DEFINE b == <<p, q>>
               c == ps \o qs
    <2>1. b \in Seq(S) /\ Len(b) = 2 /\ b[1] = p /\ b[2] = q
      OBVIOUS
    <2>2. Len(ps) = 1 /\ Len(qs) = 1 /\ ps[1] = p /\ qs[1] = q
      OBVIOUS
    <2> HIDE DEF ps, qs
    <2>3. /\ c \in Seq(S) /\ Len(c) = Len(ps) + Len(qs)
          /\ \A v \in 1..(Len(ps) + Len(qs)) : c[v] = IF v <= Len(ps) THEN ps[v] ELSE qs[v - Len(ps)]
      BY <1>1, ConcatProperties
    <2> HIDE DEF b, c, S
    <2>4. Len(c) = 2 /\ c[1] = p /\ c[2] = q
      BY ONLY <2>2, <2>3
    <2>5. \A v \in 1..2 : v = 1 \/ v = 2
      OBVIOUS
    <2>6. b = c
      BY ONLY <2>1, <2>3, <2>4, <2>5, SeqEqual
    <2> QED BY <2>6 DEF b, c
  <1> HIDE DEF S, vs, ps, qs
  <1>3. blocks \o ps \in Seq(S) /\ vs \o blocks \in Seq(S)
    BY <1>1, ConcatProperties
  <1>4. (vs \o blocks) \o ps = vs \o (blocks \o ps)
    <2>1. Associates(vs, blocks, ps)
      BY ONLY <1>1, JoinAssociates
    <2> QED BY ONLY <2>1 DEF Associates
  <1>5. (vs \o blocks) \o (ps \o qs) = ((vs \o blocks) \o ps) \o qs
    <2>1. vs \o blocks \in Seq(S) /\ ps \in Seq(S) /\ qs \in Seq(S)
      BY <1>1, <1>3
    <2> DEFINE x == vs \o blocks
    <2>3. x \in Seq(S)
      BY <2>1
    <2> HIDE DEF x
    <2>2. Associates(x, ps, qs)
      BY ONLY <2>1, <2>3, JoinAssociates
    <2> QED BY ONLY <2>2 DEF x, Associates
  <1>6. vs \o ((blocks \o ps) \o qs) = (vs \o (blocks \o ps)) \o qs
    <2>1. vs \in Seq(S) /\ blocks \o ps \in Seq(S) /\ qs \in Seq(S)
      BY <1>1, <1>3
    <2> DEFINE x == blocks \o ps
    <2>3. x \in Seq(S)
      BY <2>1
    <2> HIDE DEF x
    <2>4. vs \in Seq(S) /\ x \in Seq(S) /\ qs \in Seq(S)
      BY <2>1, <2>3
    <2>2. Associates(vs, x, qs)
      BY ONLY <2>4, JoinAssociates
    <2> QED BY ONLY <2>2 DEF x, Associates
  <1>7. (vs \o blocks) \o <<p, q>> = vs \o ((blocks \o ps) \o qs)
    BY <1>2, <1>4, <1>5, <1>6
  <1> QED BY <1>4, <1>7 DEF vs, ps, qs, JoinTwo

(* The padding is that of the standard.                                    *)
IsPadded(context, iv, s, length) == Padded(context, length) = <<iv>> \o Preprocessed(s, length)
Fits(context, s, length) == Len(length) \in {1, 2} /\ UsedSpace(context.bitcount) = Len(s) % BlockLen

LEMMA PaddedIs ==
  ASSUME NEW words, NEW iv, NEW s \in Seq(Int), NEW context, IsContext(context, words, iv, s),
         NEW length \in Seq(Int), Fits(context, s, length)
  PROVE  IsPadded(context, iv, s, length)
  <1>f. Len(length) \in {1, 2} /\ UsedSpace(context.bitcount) = Len(s) % BlockLen
    BY DEF Fits
  <1> SUFFICES Padded(context, length) = <<iv>> \o Preprocessed(s, length)
    BY DEF IsPadded
  <1>0. PICK buffer : Holds(buffer, s) /\ context = ContextOf(words, iv, s, buffer)
    BY DEF IsContext
  <1> DEFINE B == BlockLen
             l == Len(s)
             w == Len(length)
             u == l % B
             e == B * (l \div B)
             z == (B - ((l + 1 + w) % B)) % B
             short == B - w
             marked == Stored(buffer, u, <<128>>)
             all == Followed(s, z, length)
  <1>1. Preprocessed(s, length) = BlocksOf(all)
    BY Zenon DEF Preprocessed, BlocksOf, Followed
  <1>2. /\ context.state = <<iv>> \o BlocksOf(s) /\ context.buffer = buffer
        /\ UsedSpace(context.bitcount) = u
    BY <1>0, <1>f DEF ContextOf
  <1>3. Padded(context, length) =
          IF u + 1 <= short
            THEN (<<iv>> \o BlocksOf(s)) \o <<Stored(Cleared(marked, u + 1, short), short, length)>>
            ELSE (<<iv>> \o BlocksOf(s)) \o <<Cleared(marked, u + 1, B), Stored(Cleared(marked, 0, short), short, length)>>
    <2> HIDE DEF u
    <2> QED BY Zenon, <1>2 DEF Padded
  <1>4. l = e + u /\ u \in 0..(B - 1) /\ e \in Nat /\ l \in Nat /\ B \in Nat \ {0} /\ B > 2
    BY Remainder, BlockIs
  <1>5. w \in 1..2 /\ w \in 0..(B - 1)
    <2>1. w = 1 \/ w = 2
      BY <1>f
    <2>2. B \in Nat /\ B > 2
      BY <1>4
    <2> HIDE DEF w, B
    <2> QED BY ONLY <2>1, <2>2
  <1>6. (u + 1 + w <= B => z = B - (u + 1 + w)) /\ (u + 1 + w > B => z = 2 * B - (u + 1 + w))
    <2> HIDE DEF l, w, B
    <2> QED BY <1>4, <1>5, ZerosAre DEF B
  <1>7. buffer \in Piece /\ \A j \in 1..u : buffer[j] = s[e + j]
    BY <1>0 DEF Holds, Pending
  <1>8. e = B * (l \div B) /\ BlocksOf(s) \in Seq(Piece)
    BY BlocksAre DEF Cut
  <1>9. short \in Nat /\ short = B - w
    BY <1>4, <1>5
  <1>10. l = Len(s) /\ w = Len(length)
    OBVIOUS
  <1> HIDE DEF u, z, e, short, l, w, B, all
  <1>11. z \in Nat
    BY ONLY <1>4, <1>5, <1>6
  <1>12. /\ all \in Seq(Int) /\ Len(all) = l + 1 + z + w
         /\ \A v \in 1..l : all[v] = s[v]
         /\ all[l + 1] = 128
         /\ \A v \in 1..z : all[l + 1 + v] = 0
         /\ \A v \in 1..w : all[l + 1 + z + v] = length[v]
    <2>1. s \in Seq(Int) /\ length \in Seq(Int)
      OBVIOUS
    <2>2. IsFollowed(all, s, z, length)
      BY ONLY <1>11, <2>1, FollowedIs DEF all
    <2> QED BY ONLY <1>10, <2>2 DEF IsFollowed
  <1>13. marked \in Piece
    <2>1. <<128>> \in Seq(Int)
      OBVIOUS
    <2> QED BY <1>4, <1>7, <2>1, StoredAt DEF B
  <1>14. CASE u + 1 <= short
    <2> DEFINE c == Cleared(marked, u + 1, short)
               p == Stored(c, short, length)
    <2>1. z = B - (u + 1 + w) /\ l + 1 + z + w = e + B
      BY ONLY <1>4, <1>5, <1>6, <1>9, <1>14
    <2>2. \A j \in 1..B : /\ c \in Piece
                          /\ j <= u => c[j] = buffer[j]
                          /\ j = u + 1 => c[j] = 128
                          /\ j > u + 1 /\ j <= short => c[j] = 0
      <3>1. \A j \in 1..BlockLen :
              LET x == Cleared(Stored(buffer, u, <<128>>), u + 1, short) IN
              /\ x \in Piece
              /\ j <= u => x[j] = buffer[j]
              /\ j = u + 1 => x[j] = 128
              /\ j > u + 1 /\ j <= short => x[j] = 0
        <4>1. buffer \in Piece /\ u \in 0..(BlockLen - 1) /\ short \in Nat
          BY <1>4, <1>7, <1>9 DEF B
        <4> QED BY ONLY <4>1, MarkedAt
      <3> QED BY <3>1 DEF B
    <2>3. c \in Piece
      <3>1. 1 \in 1..B
        BY <1>4
      <3> HIDE DEF c
      <3> QED BY <2>2, <3>1
    <2> HIDE DEF c, marked
    <2>4. \A j \in 1..B : /\ p \in Piece
                          /\ j <= short => p[j] = c[j]
                          /\ j > short => p[j] = length[j - short]
      <3>1. w < B /\ w >= 1
        BY ONLY <1>4, <1>5
      <3> QED BY <1>10, <2>3, <3>1, LengthAt DEF B, short
    <2>5. p \in Piece
      <3>1. 1 \in 1..B
        BY <1>4
      <3> HIDE DEF p
      <3> QED BY <2>4, <3>1
    <2> HIDE DEF p
    <2>6. ASSUME NEW j \in 1..B PROVE p[j] = all[e + j]
      <3>0. j \in 1..B
        OBVIOUS
      <3>1. CASE j <= u
        <4>1. j \in 1..u /\ e + j \in 1..l /\ j <= short
          BY ONLY <1>4, <1>5, <1>9, <1>14, <3>0, <3>1
        <4>2. p[j] = c[j] /\ c[j] = buffer[j]
          BY ONLY <2>2, <2>4, <3>0, <3>1, <4>1
        <4>3. buffer[j] = s[e + j]
          BY ONLY <1>7, <4>1
        <4>4. all[e + j] = s[e + j]
          BY ONLY <1>12, <4>1
        <4> QED BY ONLY <4>2, <4>3, <4>4
      <3>2. CASE j = u + 1
        <4>1. e + j = l + 1 /\ j <= short
          BY ONLY <1>4, <1>5, <1>9, <1>14, <3>0, <3>2
        <4> QED BY ONLY <1>12, <2>2, <2>4, <3>0, <3>2, <4>1
      <3>3. CASE j > u + 1 /\ j <= short
        <4>1. j - (u + 1) \in 1..z /\ l + 1 + (j - (u + 1)) = e + j
          BY ONLY <1>4, <1>5, <1>9, <1>14, <2>1, <3>0, <3>3
        <4>2. all[l + 1 + (j - (u + 1))] = 0
          BY ONLY <1>12, <4>1
        <4> QED BY ONLY <2>2, <2>4, <3>0, <3>3, <4>1, <4>2
      <3>4. CASE j > short
        <4>1. j - short \in 1..w /\ l + 1 + z + (j - short) = e + j
          BY ONLY <1>4, <1>5, <1>9, <1>14, <2>1, <3>0, <3>4
        <4>2. all[l + 1 + z + (j - short)] = length[j - short]
          BY ONLY <1>12, <4>1
        <4> QED BY ONLY <2>4, <3>0, <3>4, <4>1, <4>2
      <3>5. j <= u \/ j = u + 1 \/ (j > u + 1 /\ j <= short) \/ j > short
        BY ONLY <1>4, <1>9, <3>0
      <3> QED BY ONLY <3>1, <3>2, <3>3, <3>4, <3>5
    <2>7. BlocksOf(all) = BlocksOf(s) \o <<p>>
      <3>1. Len(all) = e + BlockLen /\ e = BlockLen * (Len(s) \div BlockLen) /\ \A v \in 1..Len(s) : all[v] = s[v]
        BY <1>8, <1>10, <1>12, <2>1 DEF B
      <3>2. \A j \in 1..BlockLen : p[j] = all[e + j]
        BY <2>6 DEF B
      <3>3. s \in Seq(Int) /\ all \in Seq(Int)
        BY <1>12
      <3>4. Extends(all, s, p)
        BY ONLY <3>1, <3>2 DEF Extends
      <3> QED BY ONLY <2>5, <3>3, <3>4, BlocksExtend
    <2>8. Padded(context, length) = (<<iv>> \o BlocksOf(s)) \o <<p>>
      BY <1>3, <1>14 DEF p, c
    <2>9. (<<iv>> \o BlocksOf(s)) \o <<p>> = <<iv>> \o (BlocksOf(s) \o <<p>>)
      BY ONLY <1>8, <2>5, StateJoin
    <2> QED BY ONLY <1>1, <2>7, <2>8, <2>9
  <1>15. CASE ~ (u + 1 <= short)
    <2> DEFINE p == Cleared(marked, u + 1, B)
               c == Cleared(marked, 0, short)
               q == Stored(c, short, length)
               a == SubSeq(all, 1, e + B)
    <2>1. /\ z = 2 * B - (u + 1 + w) /\ l + 1 + z + w = e + B + B /\ B - (u + 1) <= z
          /\ e + B \in Nat /\ l <= e + B
      BY ONLY <1>4, <1>5, <1>6, <1>9, <1>15
    <2>2. \A j \in 1..B : /\ p \in Piece
                          /\ j <= u => p[j] = buffer[j]
                          /\ j = u + 1 => p[j] = 128
                          /\ j > u + 1 /\ j <= B => p[j] = 0
      <3>1. \A j \in 1..BlockLen :
              LET x == Cleared(Stored(buffer, u, <<128>>), u + 1, B) IN
              /\ x \in Piece
              /\ j <= u => x[j] = buffer[j]
              /\ j = u + 1 => x[j] = 128
              /\ j > u + 1 /\ j <= B => x[j] = 0
        <4>1. buffer \in Piece /\ u \in 0..(BlockLen - 1) /\ B \in Nat
          BY <1>4, <1>7 DEF B
        <4> QED BY ONLY <4>1, MarkedAt
      <3> QED BY <3>1 DEF B
    <2>3. p \in Piece
      <3>1. 1 \in 1..B
        BY <1>4
      <3> HIDE DEF p
      <3> QED BY <2>2, <3>1
    <2> HIDE DEF p, marked
    <2>4. c \in Piece /\ \A j \in 1..B : j <= short => c[j] = 0
      <3>1. c = [k \in 1..B |-> IF k > 0 /\ k <= short THEN 0 ELSE marked[k]]
        BY DEF Cleared, B
      <3> HIDE DEF c
      <3>2. \A k \in 1..B : (IF k > 0 /\ k <= short THEN 0 ELSE marked[k]) \in Int
        BY <1>13 DEF Piece, B
      <3>3. c \in Piece
        BY ONLY <3>1, <3>2 DEF Piece, B
      <3>4. \A j \in 1..B : j <= short => c[j] = 0
        BY ONLY <3>1, <1>4
      <3> QED BY ONLY <3>3, <3>4
    <2> HIDE DEF c
    <2>5. \A j \in 1..B : /\ q \in Piece
                          /\ j <= short => q[j] = c[j]
                          /\ j > short => q[j] = length[j - short]
      <3>1. w < B /\ w >= 1
        BY ONLY <1>4, <1>5
      <3> QED BY <1>10, <2>4, <3>1, LengthAt DEF B, short
    <2>6. q \in Piece
      <3>1. 1 \in 1..B
        BY <1>4
      <3> HIDE DEF q
      <3> QED BY <2>5, <3>1
    <2> HIDE DEF q
    <2>7. ASSUME NEW j \in 1..B PROVE p[j] = all[e + j]
      <3>0. j \in 1..B
        OBVIOUS
      <3>1. CASE j <= u
        <4>1. j \in 1..u /\ e + j \in 1..l
          BY ONLY <1>4, <3>0, <3>1
        <4> QED BY ONLY <1>7, <1>12, <2>2, <3>0, <4>1
      <3>2. CASE j = u + 1
        <4>1. e + j = l + 1
          BY ONLY <1>4, <3>0, <3>2
        <4> QED BY ONLY <1>12, <2>2, <3>0, <3>2, <4>1
      <3>3. CASE j > u + 1
        <4>1. j - (u + 1) \in 1..z /\ l + 1 + (j - (u + 1)) = e + j /\ j <= B
          BY ONLY <1>4, <1>11, <2>1, <3>0, <3>3
        <4>2. all[l + 1 + (j - (u + 1))] = 0
          BY ONLY <1>12, <4>1
        <4> QED BY ONLY <2>2, <3>0, <3>3, <4>1, <4>2
      <3>4. j <= u \/ j = u + 1 \/ j > u + 1
        BY ONLY <1>4, <3>0
      <3> QED BY ONLY <3>1, <3>2, <3>3, <3>4
    <2>8. ASSUME NEW j \in 1..B PROVE q[j] = all[(e + B) + j]
      <3>0. j \in 1..B
        OBVIOUS
      <3>1. CASE j <= short
        <4>1. B + j - (u + 1) \in 1..z /\ l + 1 + (B + j - (u + 1)) = (e + B) + j
          BY ONLY <1>4, <1>5, <1>9, <2>1, <3>0, <3>1
        <4>2. all[l + 1 + (B + j - (u + 1))] = 0
          BY ONLY <1>12, <4>1
        <4> QED BY ONLY <2>4, <2>5, <3>0, <3>1, <4>1, <4>2
      <3>2. CASE j > short
        <4>1. j - short \in 1..w /\ l + 1 + z + (j - short) = (e + B) + j
          BY ONLY <1>4, <1>5, <1>9, <2>1, <3>0, <3>2
        <4>2. all[l + 1 + z + (j - short)] = length[j - short]
          BY ONLY <1>12, <4>1
        <4> QED BY ONLY <2>5, <3>0, <3>2, <4>1, <4>2
      <3> QED BY <1>9, <3>1, <3>2
    <2>9. a \in Seq(Int) /\ Len(a) = e + B /\ \A v \in 1..(e + B) : a[v] = all[v]
      <3> DEFINE n == e + B
      <3>1. n \in Nat /\ 0 <= n /\ 0 + 1 = 1 /\ n - 0 = n /\ \A v \in 1..n : 0 + v = v
        BY <2>1
      <3>2. n <= Len(all)
        <4>1. e + B <= e + B + B
          BY ONLY <1>4, <2>1
        <4> QED BY <1>12, <2>1, <4>1
      <3> HIDE DEF n
      <3>3. SubSeq(all, 1, n) \in Seq(Int) /\ Len(SubSeq(all, 1, n)) = n /\ \A v \in 1..n : SubSeq(all, 1, n)[v] = all[v]
        BY <1>12, <3>1, <3>2, PartIs
      <3> QED BY <3>3 DEF n
    <2> HIDE DEF a
    <2>10. BlocksOf(a) = BlocksOf(s) \o <<p>> /\ Len(a) % BlockLen = 0
      <3>1. Len(a) = e + BlockLen /\ e = BlockLen * (Len(s) \div BlockLen)
        BY <1>8, <1>10, <2>9 DEF B
      <3>2. \A v \in 1..Len(s) : a[v] = s[v]
        <4>1. \A v \in 1..l : v \in 1..(e + B)
          BY ONLY <1>4, <2>1
        <4>2. \A v \in 1..l : a[v] = s[v]
          BY <1>12, <2>9, <4>1
        <4> QED BY <1>10, <4>2
      <3>3. \A j \in 1..BlockLen : p[j] = a[e + j]
        <4>1. \A j \in 1..B : e + j \in 1..(e + B)
          BY ONLY <1>4, <2>1
        <4> QED BY <2>7, <2>9, <4>1 DEF B
      <3>4. s \in Seq(Int) /\ a \in Seq(Int)
        BY <2>9
      <3>5. Extends(a, s, p)
        BY ONLY <3>1, <3>2, <3>3 DEF Extends
      <3> QED BY ONLY <2>3, <3>4, <3>5, BlocksExtend
    <2>11. BlocksOf(all) = BlocksOf(a) \o <<q>>
      <3> DEFINE n == e + B
                 x == BlockLen * (Len(a) \div BlockLen)
      <3>1. n = x
        <4>1. Len(a) = x + (Len(a) % BlockLen) /\ x \in Nat
          BY <2>9, Remainder
        <4>2. n = Len(a)
          BY <2>9
        <4> HIDE DEF x
        <4>3. Len(a) = x
          BY ONLY <2>10, <4>1
        <4> QED BY ONLY <4>2, <4>3
      <3>2. Len(all) = n + BlockLen
        BY <1>12, <2>1 DEF B
      <3>3. \A v \in 1..Len(a) : all[v] = a[v]
        BY <2>9
      <3>4. \A j \in 1..BlockLen : q[j] = all[n + j]
        BY <2>8 DEF B
      <3>5. n = BlockLen * (Len(a) \div BlockLen)
        BY <3>1
      <3> HIDE DEF n, x
      <3>6. a \in Seq(Int) /\ all \in Seq(Int)
        BY <1>12, <2>9
      <3>7. Extends(all, a, q)
        BY ONLY <3>2, <3>3, <3>4, <3>5 DEF Extends
      <3> QED BY ONLY <2>6, <3>6, <3>7, BlocksExtend
    <2>12. Padded(context, length) = (<<iv>> \o BlocksOf(s)) \o <<p, q>>
      BY <1>3, <1>15 DEF p, q, c
    <2>13. (<<iv>> \o BlocksOf(s)) \o <<p, q>> = <<iv>> \o ((BlocksOf(s) \o <<p>>) \o <<q>>)
      <3> DEFINE b == BlocksOf(s)
      <3>1. b \in Seq(Piece)
        BY <1>8
      <3> HIDE DEF b
      <3>3. (<<iv>> \o b) \o <<p, q>> = <<iv>> \o ((b \o <<p>>) \o <<q>>)
        <4>1. JoinTwo(iv, b, p, q)
          BY ONLY <2>3, <2>6, <3>1, StateJoin
        <4> QED BY ONLY <4>1 DEF JoinTwo
      <3> QED BY <3>3 DEF b
    <2>14. BlocksOf(a) = BlocksOf(s) \o <<p>>
      BY <2>10
    <2> QED BY ONLY <1>1, <2>11, <2>12, <2>13, <2>14
  <1> QED BY <1>14, <1>15

LEMMA InitIs ==
  ASSUME NEW words \in {1, 2}, NEW iv
  PROVE  IsContext(Initialised(iv), words, iv, << >>)
  <1> DEFINE empty == << >>
             buffer == [k \in 1..BlockLen |-> 0]
  <1>1. BlockLen \in Nat \ {0} /\ Word \in Nat \ {0}
    BY BlockIs
  <1>2. empty \in Seq(Int) /\ Len(empty) = 0
    OBVIOUS
  <1>3. 0 \div BlockLen = 0 /\ 0 % BlockLen = 0 /\ 0 \div Word = 0 /\ 0 % Word = 0
    BY <1>1
  <1>4. Holds(buffer, empty)
    BY <1>1, <1>2, <1>3 DEF Holds, Piece
  <1>5. BlocksOf(empty) = << >>
    <2>1. Cut(BlocksOf(empty), empty, 0)
      BY <1>2, <1>3, BlocksAre
    <2> QED BY <2>1, EmptySeq DEF Cut
  <1>6. <<iv>> \o BlocksOf(empty) = <<iv>>
    <2>1. <<iv>> \in Seq({iv})
      OBVIOUS
    <2> QED BY <1>5, <2>1, ConcatEmptySeq
  <1>7. CountOf(words, 8 * Len(empty)) = <<0, 0>>
    BY <1>2, <1>3 DEF CountOf
  <1> HIDE DEF empty, buffer
  <1>8. Initialised(iv) = ContextOf(words, iv, empty, buffer)
    BY <1>6, <1>7 DEF Initialised, ContextOf, buffer
  <1> QED BY <1>4, <1>8 DEF IsContext, empty

(* The padding with the length, which fits in the words of the count.      *)
LEMMA PaddedOneIs ==
  ASSUME NEW iv, NEW s \in Seq(Int), NEW context, IsContext(context, 1, iv, s), 8 * Len(s) < Word
  PROVE  SHA256Pad(context) = <<iv>> \o Preprocessed(s, <<8 * Len(s)>>)
  <1>1. context.bitcount = CountOf(1, 8 * Len(s))
    BY DEF IsContext, ContextOf
  <1>2. Len(s) \in Nat /\ Word \in Nat \ {0}
    BY BlockIs
  <1> DEFINE n == 8 * Len(s)
  <1>3. n \in 0..(Word - 1) /\ n = Word * 0 + n /\ n \in Nat
    BY <1>2
  <1>4. n % Word = n
    <2> HIDE DEF n
    <2> QED BY ONLY <1>2, <1>3, DivModIs
  <1>5. context.bitcount[1] = n
    BY <1>1, <1>4 DEF CountOf
  <1>6. UsedSpace(context.bitcount) = Len(s) % BlockLen
    BY <1>1, <1>2, UsedSpaceIs
  <1>7. <<n>> \in Seq(Int) /\ Len(<<n>>) \in {1, 2}
    BY <1>3
  <1> HIDE DEF n
  <1>8. Padded(context, <<n>>) = <<iv>> \o Preprocessed(s, <<n>>)
    <2> DEFINE length == <<n>>
    <2>1. length \in Seq(Int) /\ Len(length) \in {1, 2}
      BY <1>7
    <2>2. s \in Seq(Int) /\ IsContext(context, 1, iv, s)
      OBVIOUS
    <2> HIDE DEF length
    <2>3. Fits(context, s, length)
      BY <1>6, <2>1 DEF Fits
    <2>4. IsPadded(context, iv, s, length)
      BY ONLY <2>1, <2>2, <2>3, PaddedIs
    <2> QED BY <2>4 DEF length, IsPadded
  <1> QED BY <1>5, <1>8 DEF SHA256Pad, n

LEMMA PaddedTwoIs ==
  ASSUME NEW iv, NEW s \in Seq(Int), NEW context, IsContext(context, 2, iv, s), 8 * Len(s) < Word * Word
  PROVE  SHA512Pad(context) = <<iv>> \o Preprocessed(s, Lengths128(s))
  <1>1. context.bitcount = CountOf(2, 8 * Len(s))
    BY DEF IsContext, ContextOf
  <1>2. Len(s) \in Nat /\ Word \in Nat \ {0}
    BY BlockIs
  <1> DEFINE n == 8 * Len(s)
             q == n \div Word
             r == n % Word
  <1>3. n \in Nat /\ n < Word * Word
    BY <1>2
  <1> HIDE DEF n
  <1>4. n = Word * q + r /\ r \in 0..(Word - 1) /\ q \in Nat
    BY <1>2, <1>3, DivMod
  <1> HIDE DEF q, r
  <1>5. q < Word
    <2> SUFFICES ASSUME Word <= q PROVE FALSE
      BY <1>2, <1>4
    <2>1. Word * Word <= Word * q
      <3>1. PICK d \in Nat : q = Word + d
        <4>1. q - Word \in Nat /\ q = Word + (q - Word)
          BY ONLY <1>2, <1>4, Word <= q
        <4> QED BY <4>1
      <3>2. Word * q = Word * Word + Word * d /\ Word * d \in Nat /\ Word * Word \in Nat
        BY ONLY <1>2, <3>1
      <3> QED BY ONLY <3>2
    <2>2. Word * Word \in Nat /\ Word * q \in Nat
      BY ONLY <1>2, <1>4
    <2> QED BY ONLY <1>2, <1>3, <1>4, <2>1, <2>2
  <1>6. q % Word = q
    <2>1. q = Word * 0 + q /\ q \in 0..(Word - 1)
      BY ONLY <1>2, <1>4, <1>5
    <2> QED BY ONLY <1>2, <1>4, <2>1, DivModIs
  <1>7. context.bitcount[1] = r /\ context.bitcount[2] = q
    BY <1>1, <1>6 DEF CountOf, n, q, r
  <1>8. UsedSpace(context.bitcount) = Len(s) % BlockLen
    BY <1>1, <1>2, UsedSpaceIs
  <1>9. <<q, r>> \in Seq(Int) /\ Len(<<q, r>>) \in {1, 2}
    BY <1>4
  <1>10. Padded(context, <<q, r>>) = <<iv>> \o Preprocessed(s, <<q, r>>)
    <2> DEFINE length == <<q, r>>
    <2>1. length \in Seq(Int) /\ Len(length) \in {1, 2}
      BY <1>9
    <2>2. s \in Seq(Int) /\ IsContext(context, 2, iv, s)
      OBVIOUS
    <2> HIDE DEF length
    <2>3. Fits(context, s, length)
      BY <1>8, <2>1 DEF Fits
    <2>4. IsPadded(context, iv, s, length)
      BY ONLY <2>1, <2>2, <2>3, PaddedIs
    <2> QED BY <2>4 DEF length, IsPadded
  <1>11. Lengths128(s) = <<q, r>>
    BY DEF Lengths128, n, q, r
  <1> QED BY <1>7, <1>10, <1>11 DEF SHA512Pad

-----------------------------------------------------------------------------
(* The six algorithms *)

Algorithms == FileAlgorithms \cup DataAlgorithms
WordsOf(a) == IF a \in OneWord THEN 1 ELSE 2
IvOf(a) ==
  CASE a = "SHA224" -> "sha224" [] a = "SHA256" -> "sha256" [] a = "SHA384" -> "sha384"
    [] a = "SHA512" -> "sha512" [] a = "SHA512_224" -> "sha512/224" [] a = "SHA512_256" -> "sha512/256"
Digests(a, context, s) == IsContext(context, WordsOf(a), IvOf(a), s)

LEMMA AlgorithmInit ==
  ASSUME NEW a \in Algorithms
  PROVE  Digests(a, InitOf(a), << >>)
  <1>1. WordsOf(a) \in {1, 2}
    BY DEF WordsOf
  <1>2. InitOf(a) = Initialised(IvOf(a))
    BY DEF InitOf, IvOf, Algorithms, FileAlgorithms, DataAlgorithms, SHA224Init, SHA256Init, SHA384Init,
           SHA512Init, SHA512_224Init, SHA512_256Init
  <1> QED BY <1>1, <1>2, InitIs DEF Digests

LEMMA AlgorithmUpdate ==
  ASSUME NEW a \in Algorithms, NEW s \in Seq(Int), NEW data \in Seq(Int), NEW context, Digests(a, context, s)
  PROVE  Digests(a, UpdateOf(a, context, data), s \o data)
  <1>1. WordsOf(a) \in {1, 2}
    BY DEF WordsOf
  <1>2. UpdateOf(a, context, data) = Update(WordsOf(a), context, data)
    BY DEF UpdateOf, WordsOf, SHA256Update, SHA512Update
  <1> QED BY <1>1, <1>2, UpdateIs DEF Digests

LEMMA AlgorithmFinal ==
  ASSUME NEW a \in Algorithms, NEW s \in Seq(Int), NEW context, Digests(a, context, s),
         8 * Len(s) < Word * Word, a \in OneWord => 8 * Len(s) < Word
  PROVE  FinalOf(a, context) = Standard(a, s)
  <1> DEFINE iv == IvOf(a)
             short == Preprocessed(s, <<8 * Len(s)>>)
             long == Preprocessed(s, Lengths128(s))
  <1>1. a \in OneWord => SHA256Pad(context) = <<iv>> \o short
    <2> SUFFICES ASSUME a \in OneWord PROVE SHA256Pad(context) = <<iv>> \o short
      OBVIOUS
    <2>1. IsContext(context, 1, iv, s) /\ 8 * Len(s) < Word
      BY DEF Digests, WordsOf
    <2> HIDE DEF iv
    <2> QED BY <2>1, PaddedOneIs
  <1>2. a \notin OneWord => SHA512Pad(context) = <<iv>> \o long
    <2> SUFFICES ASSUME a \notin OneWord PROVE SHA512Pad(context) = <<iv>> \o long
      OBVIOUS
    <2>1. IsContext(context, 2, iv, s)
      BY DEF Digests, WordsOf
    <2> HIDE DEF iv
    <2> QED BY <2>1, PaddedTwoIs
  <1>3. a \in {"SHA224", "SHA256", "SHA384", "SHA512", "SHA512_224", "SHA512_256"}
    BY DEF Algorithms, FileAlgorithms, DataAlgorithms
  <1> HIDE DEF short, long
  <1>4. CASE a = "SHA224"
    <2>1. FinalOf(a, context) = Digest(28, SHA256Pad(context))
      BY <1>4 DEF FinalOf, SHA224Final
    <2>2. Standard(a, s) = Digest(28, <<"sha224">> \o short)
      BY Zenon, <1>4 DEF Standard, short
    <2>3. SHA256Pad(context) = <<"sha224">> \o short
      BY <1>1, <1>4 DEF OneWord, IvOf
    <2> QED BY ONLY <2>1, <2>2, <2>3
  <1>5. CASE a = "SHA256"
    <2>1. FinalOf(a, context) = Digest(32, SHA256Pad(context))
      BY <1>5 DEF FinalOf, SHA256Final
    <2>2. Standard(a, s) = Digest(32, <<"sha256">> \o short)
      BY Zenon, <1>5 DEF Standard, short
    <2>3. SHA256Pad(context) = <<"sha256">> \o short
      BY <1>1, <1>5 DEF OneWord, IvOf
    <2> QED BY ONLY <2>1, <2>2, <2>3
  <1>6. CASE a = "SHA384"
    <2>1. FinalOf(a, context) = Digest(48, SHA512Pad(context))
      BY <1>6 DEF FinalOf, SHA384Final
    <2>2. Standard(a, s) = Digest(48, <<"sha384">> \o long)
      BY Zenon, <1>6 DEF Standard, long
    <2>3. SHA512Pad(context) = <<"sha384">> \o long
      BY <1>2, <1>6 DEF OneWord, IvOf
    <2> QED BY ONLY <2>1, <2>2, <2>3
  <1>7. CASE a = "SHA512"
    <2>1. FinalOf(a, context) = Digest(64, SHA512Pad(context))
      BY <1>7 DEF FinalOf, SHA512Final
    <2>2. Standard(a, s) = Digest(64, <<"sha512">> \o long)
      BY Zenon, <1>7 DEF Standard, long
    <2>3. SHA512Pad(context) = <<"sha512">> \o long
      BY <1>2, <1>7 DEF OneWord, IvOf
    <2> QED BY ONLY <2>1, <2>2, <2>3
  <1>8. CASE a = "SHA512_224"
    <2>1. FinalOf(a, context) = Digest(28, SHA512Pad(context))
      BY <1>8 DEF FinalOf, SHA512_224Final
    <2>2. Standard(a, s) = Digest(28, <<"sha512/224">> \o long)
      BY Zenon, <1>8 DEF Standard, long
    <2>3. SHA512Pad(context) = <<"sha512/224">> \o long
      BY <1>2, <1>8 DEF OneWord, IvOf
    <2> QED BY ONLY <2>1, <2>2, <2>3
  <1>9. CASE a = "SHA512_256"
    <2>1. FinalOf(a, context) = Digest(32, SHA512Pad(context))
      BY <1>9 DEF FinalOf, SHA512_256Final
    <2>2. Standard(a, s) = Digest(32, <<"sha512/256">> \o long)
      BY Zenon, <1>9 DEF Standard, long
    <2>3. SHA512Pad(context) = <<"sha512/256">> \o long
      BY <1>2, <1>9 DEF OneWord, IvOf
    <2> QED BY ONLY <2>1, <2>2, <2>3
  <1> QED BY <1>3, <1>4, <1>5, <1>6, <1>7, <1>8, <1>9

-----------------------------------------------------------------------------
(* A file that is read while others may write to it *)

HashType ==
  /\ algo \in Algorithms /\ file \in Contents
  /\ len \in Nat /\ foff \in Nat /\ rewrites \in Nat
  /\ seen \in Seq(Int) /\ 8 * Len(seen) < Word * Word
  /\ hashing \in {"open", "read", "final", "done"}

(* What was read is what the context was given; what is left of the size   *)
(* that was taken is not more than the count has room for.                 *)
ReadIsSeen ==
  /\ hashing = "open" => foff = 0 /\ seen = << >>
  /\ hashing \in {"open", "read", "final"} => Digests(algo, ctx, seen) /\ digest = NoDigest
  /\ hashing \in {"read", "final"} => 8 * (Len(seen) + len) < Word * Word

(* Nobody wrote to the file: what was read is its first part.              *)
SeenIsPart ==
  rewrites = 0 =>
    /\ hashing \in {"read", "final"} => seen = SubSeq(file, 1, foff) /\ foff + len = Len(file)
    /\ hashing = "final" => foff = Len(file)

HashInv == HashType /\ ReadIsSeen /\ SeenIsPart /\ DigestIsOfFile

LEMMA ContentsAre ==
  ASSUME NEW c \in Contents
  PROVE  c \in Seq(Int) /\ Len(c) \in Nat /\ 8 * Len(c) < Word * Word
  BY HashFileAssumption

(* The next piece of a file goes on where the part read ends.              *)
LEMMA PartGrows ==
  ASSUME NEW c \in Seq(Int), NEW m \in Nat, NEW n \in Nat, m + n <= Len(c)
  PROVE  SubSeq(c, 1, m) \o SubSeq(c, m + 1, m + n) = SubSeq(c, 1, m + n)
  OBVIOUS

LEMMA WholeIs ==
  ASSUME NEW c \in Seq(Int)
  PROVE  SubSeq(c, 1, 0) = << >> /\ SubSeq(c, 1, Len(c)) = c
  OBVIOUS

LEMMA HashInitInv == HashInit => HashInv
  <1> SUFFICES ASSUME HashInit PROVE HashInv
    OBVIOUS
  <1> USE DEF HashInit
  <1>1. algo \in Algorithms /\ ctx = InitOf(algo) /\ seen = << >>
    BY DEF Algorithms
  <1>2. Digests(algo, ctx, seen)
    BY <1>1, AlgorithmInit
  <1>3. seen \in Seq(Int) /\ Len(seen) = 0 /\ Word \in Nat \ {0}
    BY <1>1, BlockIs
  <1>4. 8 * Len(seen) < Word * Word
    <2>1. Word * Word > 0
      BY ONLY <1>3
    <2> QED BY ONLY <1>3, <2>1
  <1>5. HashType
    BY <1>1, <1>3, <1>4 DEF HashType
  <1> QED BY <1>2, <1>5 DEF HashInv, ReadIsSeen, SeenIsPart, DigestIsOfFile

(* What a digest says once it is there.                                    *)
LEMMA FinalIs ==
  ASSUME HashType, Digests(algo, ctx, seen), algo \in OneWord => 8 * Len(seen) < Word
  PROVE  FinalOf(algo, ctx) = Standard(algo, seen)
  BY AlgorithmFinal DEF HashType

LEMMA OpenFileInv == HashInv /\ OpenFile => HashInv'
  <1> SUFFICES ASSUME HashInv, OpenFile PROVE HashInv'
    OBVIOUS
  <1> USE DEF HashInv, OpenFile
  <1>1. file \in Seq(Int) /\ Len(file) \in Nat /\ 8 * Len(file) < Word * Word
    BY ContentsAre DEF HashType
  <1>2. HashType'
    BY <1>1 DEF HashType
  <1>3. ReadIsSeen'
    <2>1. seen = << >> /\ Len(seen) = 0 /\ 8 * (Len(seen) + Len(file)) = 8 * Len(file)
      BY <1>1 DEF ReadIsSeen
    <2> QED BY <1>1, <2>1 DEF ReadIsSeen
  <1>4. SeenIsPart'
    BY <1>1, WholeIs DEF SeenIsPart, ReadIsSeen
  <1> QED BY <1>2, <1>3, <1>4 DEF ReadIsSeen, DigestIsOfFile

LEMMA ReadChunkInv == HashInv /\ ReadChunk => HashInv'
  <1> SUFFICES ASSUME HashInv, ReadChunk PROVE HashInv'
    OBVIOUS
  <1>1. file \in Seq(Int) /\ Len(file) \in Nat
    BY ContentsAre DEF HashInv, HashType
  <1>2. PICK n \in 1..BufSize :
          /\ n <= len /\ foff + n <= Len(file)
          /\ ctx' = UpdateOf(algo, ctx, SubSeq(file, foff + 1, foff + n))
          /\ seen' = seen \o SubSeq(file, foff + 1, foff + n)
          /\ foff' = foff + n /\ len' = len - n
          /\ hashing' = IF n = len THEN "final" ELSE "read"
    BY DEF ReadChunk
  <1>3. hashing = "read" /\ UNCHANGED <<algo, file, digest, rewrites>>
    BY DEF ReadChunk
  <1>4. n \in Nat /\ n >= 1 /\ len \in Nat /\ foff \in Nat /\ seen \in Seq(Int) /\ algo \in Algorithms
    BY HashFileAssumption DEF HashInv, HashType
  <1> DEFINE data == SubSeq(file, foff + 1, foff + n)
  <1>5. data \in Seq(Int) /\ Len(data) = n
    BY <1>1, <1>2, <1>4
  <1>6. seen' \in Seq(Int) /\ Len(seen') = Len(seen) + n /\ Len(seen) \in Nat
    <2> HIDE DEF data
    <2>1. seen' = seen \o data
      BY <1>2 DEF data
    <2>2. seen \o data \in Seq(Int) /\ Len(seen \o data) = Len(seen) + Len(data) /\ Len(seen) \in Nat
      BY ONLY <1>4, <1>5, JoinIs
    <2> QED BY ONLY <1>5, <2>1, <2>2
  <1>7. Digests(algo, ctx, seen) /\ 8 * (Len(seen) + len) < Word * Word /\ digest = NoDigest
    BY <1>3 DEF HashInv, ReadIsSeen
  <1>8. Digests(algo', ctx', seen')
    <2>1. ctx' = UpdateOf(algo, ctx, data) /\ seen' = seen \o data
      BY <1>2
    <2> HIDE DEF data
    <2>2. Digests(algo, UpdateOf(algo, ctx, data), seen \o data)
      BY ONLY <1>4, <1>5, <1>7, AlgorithmUpdate
    <2> QED BY <1>3, <2>1, <2>2
  <1> HIDE DEF data
  <1>9. /\ len' \in Nat /\ foff' \in Nat /\ Len(seen') + len' = Len(seen) + len
        /\ 8 * Len(seen') <= 8 * (Len(seen) + len) /\ 8 * Len(seen') \in Nat
        /\ foff' + len' = foff + len /\ (n = len => len' = 0)
    <2> DEFINE k == Len(seen)
               k1 == Len(seen')
    <2>1. k1 = k + n /\ k \in Nat /\ len' = len - n /\ foff' = foff + n /\ n <= len
      BY <1>2, <1>6
    <2> HIDE DEF k, k1
    <2>2. /\ len' \in Nat /\ foff' \in Nat /\ k1 + len' = k + len
          /\ 8 * k1 <= 8 * (k + len) /\ 8 * k1 \in Nat
          /\ foff' + len' = foff + len /\ (n = len => len' = 0)
      BY ONLY <1>4, <2>1
    <2> QED BY <2>2 DEF k, k1
  <1>10. Word * Word \in Nat
    BY BlockIs
  <1>11. 8 * Len(seen') < Word * Word
    <2> DEFINE k == 8 * Len(seen')
               m == 8 * (Len(seen) + len)
               w == Word * Word
    <2>1. k <= m /\ m < w /\ k \in Nat /\ w \in Nat /\ m \in Int
      BY <1>4, <1>6, <1>7, <1>9, <1>10
    <2> HIDE DEF k, m, w
    <2>2. k < w
      BY ONLY <2>1
    <2> QED BY <2>2 DEF k, w
  <1>12. hashing' \in {"read", "final"}
    BY <1>2
  <1>13. HashType'
    BY <1>3, <1>6, <1>9, <1>11, <1>12 DEF HashInv, HashType
  <1>14. ReadIsSeen'
    <2>1. digest' = NoDigest /\ Digests(algo', ctx', seen')
      BY <1>3, <1>7, <1>8
    <2>2. 8 * (Len(seen') + len') < Word * Word
      BY <1>7, <1>9
    <2> QED BY <1>12, <2>1, <2>2 DEF ReadIsSeen
  <1>15. SeenIsPart'
    <2> SUFFICES ASSUME rewrites' = 0
                 PROVE  /\ seen' = SubSeq(file', 1, foff') /\ foff' + len' = Len(file')
                        /\ hashing' = "final" => foff' = Len(file')
      BY DEF SeenIsPart
    <2>1. seen = SubSeq(file, 1, foff) /\ foff + len = Len(file)
      BY <1>3 DEF HashInv, SeenIsPart
    <2>2. seen' = SubSeq(file, 1, foff + n)
      <3>1. SubSeq(file, 1, foff) \o SubSeq(file, foff + 1, foff + n) = SubSeq(file, 1, foff + n)
        BY <1>1, <1>2, <1>4, PartGrows
      <3> QED BY <1>2, <2>1, <3>1
    <2>3. foff' + len' = Len(file)
      BY <1>9, <2>1
    <2>4. hashing' = "final" => foff' = Len(file)
      BY <1>2, <1>9, <2>3
    <2> QED BY <1>2, <1>3, <2>2, <2>3, <2>4
  <1>16. DigestIsOfFile'
    BY <1>3, <1>7 DEF DigestIsOfFile
  <1> QED BY <1>13, <1>14, <1>15, <1>16 DEF HashInv

LEMMA ReadNothingInv == HashInv /\ ReadNothing => HashInv'
  <1> SUFFICES ASSUME HashInv, ReadNothing PROVE HashInv'
    OBVIOUS
  <1> USE DEF HashInv, ReadNothing
  <1>1. HashType'
    BY DEF HashType
  <1>2. ReadIsSeen'
    BY DEF ReadIsSeen, Digests
  <1>3. SeenIsPart'
    <2>1. Len(file) \in Nat /\ len \in Nat /\ foff \in Nat
      BY ContentsAre DEF HashType
    <2>2. rewrites = 0 => seen = SubSeq(file, 1, foff) /\ foff + len = Len(file)
      BY DEF SeenIsPart
    <2>3. len = 0 \/ foff >= Len(file)
      OBVIOUS
    <2>4. rewrites = 0 => foff = Len(file)
      BY ONLY <2>1, <2>2, <2>3
    <2> QED BY <2>2, <2>4 DEF SeenIsPart
  <1> QED BY <1>1, <1>2, <1>3 DEF DigestIsOfFile

LEMMA FileEndInv == HashInv /\ FileEnd => HashInv'
  <1> SUFFICES ASSUME HashInv, FileEnd PROVE HashInv'
    OBVIOUS
  <1> USE DEF HashInv, FileEnd
  <1>1. HashType'
    BY DEF HashType
  <1>2. ReadIsSeen' /\ SeenIsPart'
    BY DEF ReadIsSeen, SeenIsPart
  <1>3. algo \in OneWord /\ 8 * Len(seen) < Word => FinalOf(algo, ctx) = Standard(algo, seen)
    BY FinalIs DEF ReadIsSeen
  <1>4. algo \notin OneWord => FinalOf(algo, ctx) = Standard(algo, seen)
    BY FinalIs DEF ReadIsSeen
  <1>5. rewrites = 0 => seen = file
    <2>1. file \in Seq(Int)
      BY ContentsAre DEF HashType
    <2>2. rewrites = 0 => seen = SubSeq(file, 1, Len(file))
      BY DEF SeenIsPart
    <2> QED BY <2>1, <2>2, WholeIs
  <1>6. digest' = FinalOf(algo, ctx) /\ UNCHANGED <<algo, seen, file, rewrites>>
    OBVIOUS
  <1>7. DigestIsOfFile'
    BY ONLY <1>3, <1>4, <1>5, <1>6 DEF DigestIsOfFile
  <1> QED BY <1>1, <1>2, <1>7

LEMMA HashDataInv == HashInv /\ HashData => HashInv'
  <1> SUFFICES ASSUME HashInv, HashData PROVE HashInv'
    OBVIOUS
  <1> USE DEF HashInv, HashData
  <1>1. file \in Seq(Int) /\ Len(file) \in Nat /\ 8 * Len(file) < Word * Word /\ algo \in Algorithms
    BY ContentsAre DEF HashType
  <1>2. HashType'
    BY <1>1 DEF HashType
  <1>3. ReadIsSeen' /\ SeenIsPart'
    BY DEF ReadIsSeen, SeenIsPart
  <1> DEFINE c == UpdateOf(algo, ctx, file)
  <1>4. Digests(algo, c, file)
    <2>1. Digests(algo, ctx, seen) /\ seen = << >> /\ seen \in Seq(Int)
      BY DEF ReadIsSeen, HashType
    <2>2. Digests(algo, c, seen \o file)
      BY ONLY <1>1, <2>1, AlgorithmUpdate
    <2>3. seen \o file = file
      BY <1>1, <2>1, ConcatEmptySeq
    <2> QED BY <2>2, <2>3
  <1> HIDE DEF c
  <1>5. (algo \in OneWord => 8 * Len(file) < Word) => FinalOf(algo, c) = Standard(algo, file)
    BY ONLY <1>1, <1>4, AlgorithmFinal
  <1>6. digest' = FinalOf(algo, c) /\ seen' = file /\ UNCHANGED <<algo, file, rewrites>>
    BY DEF c
  <1>7. DigestIsOfFile'
    BY ONLY <1>5, <1>6 DEF DigestIsOfFile
  <1> QED BY <1>2, <1>3, <1>7

LEMMA RewriteInv == HashInv /\ Rewrite => HashInv'
  <1> SUFFICES ASSUME HashInv, Rewrite PROVE HashInv'
    OBVIOUS
  <1> USE DEF HashInv, Rewrite
  <1>1. HashType'
    BY DEF HashType
  <1>2. ReadIsSeen'
    BY DEF ReadIsSeen, Digests
  <1>3. rewrites' # 0
    BY DEF HashType
  <1>4. digest' = NoDigest
    BY DEF HashType, ReadIsSeen
  <1> QED BY <1>1, <1>2, <1>3, <1>4 DEF SeenIsPart, DigestIsOfFile

LEMMA HashNextInv == HashInv /\ [HashStep \/ Rewrite]_hvars => HashInv'
  <1> SUFFICES ASSUME HashInv, [HashStep \/ Rewrite]_hvars PROVE HashInv'
    OBVIOUS
  <1>1. CASE ReadFails
    <2>1. digest = NoDigest
      BY <1>1 DEF HashInv, ReadIsSeen, ReadFails
    <2> QED BY <1>1, <2>1 DEF HashInv, ReadFails, HashType, ReadIsSeen, SeenIsPart, DigestIsOfFile
  <1>2. CASE UNCHANGED hvars
    BY <1>2 DEF hvars, HashInv, HashType, ReadIsSeen, Digests, SeenIsPart, DigestIsOfFile
  <1> QED BY <1>1, <1>2, OpenFileInv, ReadChunkInv, ReadNothingInv, FileEndInv, HashDataInv, RewriteInv DEF HashStep

(* A digest is the standard's digest of the bytes that were read, in pieces*)
(* of any length, and of the whole file if nobody wrote to it: for every   *)
(* block and word length, every file, and any number of writes (SHA256File,*)
(* SHA512File and SHA512_256Data).                                         *)
THEOREM DigestAlwaysOfFile == HashSpec => []DigestIsOfFile
  <1>1. HashInv => DigestIsOfFile
    BY DEF HashInv
  <1> QED BY <1>1, HashInitInv, HashNextInv, PTL DEF HashSpec
=============================================================================
