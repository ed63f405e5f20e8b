--------------------------- MODULE ZVerifyProofs ---------------------------
(* Proofs about ZVerify, for every stream, every set of signings and every *)
(* way in which the stream falls into pieces: the header is parsed right,  *)
(* the output is signed, and a genuine archive is accepted.                *)
EXTENDS ZVerify, FiniteSetTheorems, SequenceTheorems, WellFoundedInduction, TLAPS

-----------------------------------------------------------------------------
(* Joining blocks.                                                         *)

(* Induction over the numbers, for a set of them.                          *)
LEMMA NatLeast ==
  ASSUME NEW T \in SUBSET Nat, T # {}
  PROVE  \E m \in T : \A n \in T : m <= n
  <1> DEFINE R == OpToRel(<, Nat)
  <1>1. IsWellFoundedOn(R, Nat)
    BY NatLessThanWellFounded
  <1>2. \A x, y \in Nat : <<y, x>> \in R <=> y < x
    BY DEF R, OpToRel
  <1> HIDE DEF R
  <1>3. PICK m \in T : \A n \in T : ~ (<<n, m>> \in R)
    BY <1>1, WFMin
  <1>4. \A n \in T : m \in Nat /\ n \in Nat /\ ~ (n < m)
    BY <1>2, <1>3
  <1> QED BY <1>4

LEMMA NatInSet ==
  ASSUME NEW S, 0 \in S, \A n \in Nat : n \in S => n + 1 \in S
  PROVE  Nat \subseteq S
  <1> SUFFICES ASSUME Nat \ S # {} PROVE FALSE
    OBVIOUS
  <1>1. PICK m \in Nat \ S : \A n \in Nat \ S : m <= n
    BY NatLeast
  <1>2. m # 0 /\ m - 1 \in Nat /\ m - 1 \in S
    BY <1>1
  <1>3. (m - 1) + 1 \in S
    BY <1>2
  <1> QED BY <1>1, <1>3

(* flat[k] is what the first k blocks are in one.                          *)
Joins(flat, blocks, n) ==
  /\ flat \in [0..n -> Seq(Bytes)]
  /\ flat[0] = << >>
  /\ \A k \in 1..n : flat[k] = flat[k - 1] \o blocks[k]

LEMMA JoinsExists ==
  ASSUME NEW blocks \in Seq(Seq(Bytes))
  PROVE  \E flat : Joins(flat, blocks, Len(blocks))
  <1> DEFINE S == {n \in Nat : n <= Len(blocks) => \E flat : Joins(flat, blocks, n)}
  <1>1. 0 \in S
    <2> DEFINE flat == [k \in 0..0 |-> << >>]
    <2>1. Joins(flat, blocks, 0)
      BY DEF Joins
    <2> QED BY <2>1
  <1>2. ASSUME NEW n \in Nat, n \in S PROVE n + 1 \in S
    <2> SUFFICES ASSUME n + 1 <= Len(blocks) PROVE \E flat : Joins(flat, blocks, n + 1)
      OBVIOUS
    <2>1. PICK flat : Joins(flat, blocks, n)
      BY <1>2
    <2> DEFINE more == [k \in 0..(n + 1) |-> IF k = n + 1 THEN flat[n] \o blocks[n + 1] ELSE flat[k]]
    <2>2. flat[n] \o blocks[n + 1] \in Seq(Bytes)
      BY <2>1 DEF Joins
    <2>3. more \in [0..(n + 1) -> Seq(Bytes)]
      BY <2>1, <2>2 DEF Joins
    <2>4. more[0] = << >>
      BY <2>1 DEF Joins
    <2>5. ASSUME NEW k \in 1..(n + 1) PROVE more[k] = more[k - 1] \o blocks[k]
      <3>0. k \in 0..(n + 1) /\ k - 1 \in 0..(n + 1) /\ k - 1 # n + 1 /\ k - 1 \in 0..n
        OBVIOUS
      <3>1. more[k - 1] = flat[k - 1]
        BY <3>0
      <3>2. CASE k = n + 1
        <4>1. more[k] = flat[n] \o blocks[n + 1]
          BY <3>0, <3>2
        <4>2. k - 1 = n
          BY <3>2
        <4> HIDE DEF more
        <4> QED BY <3>1, <3>2, <4>1, <4>2
      <3>3. CASE k # n + 1
        <4>1. k \in 1..n /\ more[k] = flat[k]
          BY <3>0, <3>3
        <4> QED BY <2>1, <3>1, <4>1 DEF Joins
      <3> QED BY <3>2, <3>3
    <2> HIDE DEF more
    <2>6. Joins(more, blocks, n + 1)
      <3>1. n + 1 \in Nat
        OBVIOUS
      <3> QED BY <2>3, <2>4, <2>5, <3>1 DEF Joins
    <2> QED BY <2>6
  <1>3. Len(blocks) \in S
    <2> HIDE DEF S
    <2> QED BY <1>1, <1>2, NatInSet
  <1> QED BY <1>3

LEMMA FlattenSeqJoins ==
  ASSUME NEW blocks \in Seq(Seq(Bytes)), NEW flat, Joins(flat, blocks, Len(blocks))
  PROVE  FlattenSeq(blocks) = flat[Len(blocks)]
  <1> DEFINE N == Len(blocks)
             Eq(g) == g = [i \in 1..N |-> IF i = 1 THEN blocks[i] ELSE g[i - 1] \o blocks[i]]
             f == CHOOSE g : Eq(g)
  <1>1. CASE N = 0
    BY <1>1 DEF FlattenSeq, Joins
  <1>2. CASE N # 0
    <2>1. FlattenSeq(blocks) = f[N]
      BY <1>2, Zenon DEF FlattenSeq
    <2>2. Eq([i \in 1..N |-> flat[i]])
      <3> DEFINE g == [i \in 1..N |-> flat[i]]
      <3>1. ASSUME NEW i \in 1..N
            PROVE  flat[i] = IF i = 1 THEN blocks[i] ELSE g[i - 1] \o blocks[i]
        <4>1. flat[i] = flat[i - 1] \o blocks[i]
          BY DEF Joins
        <4>2. CASE i = 1
          <5>1. flat[i - 1] = << >> /\ blocks[i] \in Seq(Bytes)
            BY <4>2 DEF Joins
          <5> QED BY <4>1, <4>2, <5>1
        <4>3. CASE i # 1
          <5>1. i - 1 \in 1..N
            BY <4>3
          <5> QED BY <4>1, <4>3, <5>1
        <4> QED BY <4>2, <4>3
      <3> QED BY <3>1
    <2>3. Eq(f)
      BY <2>2
    <2> HIDE DEF f
    <2> DEFINE S == {n \in Nat : n \in 1..N => f[n] = flat[n]}
    <2>4. 0 \in S
      OBVIOUS
    <2>5. ASSUME NEW n \in Nat, n \in S PROVE n + 1 \in S
      <3> SUFFICES ASSUME n + 1 \in 1..N PROVE f[n + 1] = flat[n + 1]
        OBVIOUS
      <3> DEFINE m == n + 1
      <3>1. f[m] = IF m = 1 THEN blocks[m] ELSE f[m - 1] \o blocks[m]
        BY <2>3
      <3>2. flat[m] = flat[m - 1] \o blocks[m] /\ blocks[m] \in Seq(Bytes)
        <4>1. m \in 1..Len(blocks)
          OBVIOUS
        <4> HIDE DEF m
        <4> QED BY <4>1 DEF Joins
      <3>3. CASE n = 0
        <4>1. flat[m - 1] = << >>
          BY <3>3 DEF Joins
        <4>2. m = 1
          BY <3>3
        <4> QED BY <3>1, <3>2, <4>1, <4>2
      <3>4. CASE n # 0
        <4>1. n \in 1..N /\ m # 1 /\ m - 1 = n
          BY <3>4
        <4> QED BY <2>5, <3>1, <3>2, <4>1
      <3> QED BY <3>3, <3>4
    <2>6. N \in S
      <3> HIDE DEF S
      <3> QED BY <2>4, <2>5, NatInSet
    <2> QED BY <1>2, <2>1, <2>6
  <1> QED BY <1>1, <1>2

(* The first blocks are a prefix of all.                                   *)
Continues(a, b) == \E rest \in Seq(Bytes) : a = b \o rest

LEMMA JoinsPrefix ==
  ASSUME NEW blocks \in Seq(Seq(Bytes)), NEW flat, NEW n \in Nat, Joins(flat, blocks, n), n <= Len(blocks),
         NEW k \in 0..n
  PROVE  Continues(flat[n], flat[k])
  <1> DEFINE P(j) == j <= n - k => \E rest \in Seq(Bytes) : flat[k + j] = flat[k] \o rest
             S == {j \in Nat : P(j)}
  <1>0. \A m \in 0..n : flat[m] \in Seq(Bytes)
    BY DEF Joins
  <1>1. 0 \in S
    <2>1. flat[k] = flat[k] \o << >>
      BY <1>0
    <2>2. << >> \in Seq(Bytes) /\ k + 0 = k
      OBVIOUS
    <2> QED BY <2>1, <2>2
  <1>2. ASSUME NEW j \in Nat, j \in S PROVE j + 1 \in S
    <2> SUFFICES P(j + 1)
      <3> HIDE DEF P
      <3> QED OBVIOUS
    <2> DEFINE m == k + (j + 1)
    <2> SUFFICES ASSUME j + 1 <= n - k PROVE \E rest \in Seq(Bytes) : flat[m] = flat[k] \o rest
      OBVIOUS
    <2>0. m \in 1..n /\ m - 1 = k + j /\ j <= n - k /\ m \in 1..Len(blocks)
      OBVIOUS
    <2>1. PICK rest \in Seq(Bytes) : flat[k + j] = flat[k] \o rest
      BY <1>2, <2>0
    <2>2. flat[m] = flat[k + j] \o blocks[m]
      BY <2>0 DEF Joins
    <2>3. blocks[m] \in Seq(Bytes)
      BY <2>0
    <2> HIDE DEF m
    <2>4. flat[k] \in Seq(Bytes)
      BY <1>0
    <2>5. flat[m] = (flat[k] \o rest) \o blocks[m]
      BY <2>1, <2>2
    <2>6. flat[m] = flat[k] \o (rest \o blocks[m])
      <3>1. (flat[k] \o rest) \o blocks[m] = flat[k] \o (rest \o blocks[m])
        <4>1. ASSUME NEW a \in Seq(Bytes), NEW b \in Seq(Bytes), NEW c \in Seq(Bytes)
              PROVE  (a \o b) \o c = a \o (b \o c)
          OBVIOUS
        <4> QED BY <2>3, <2>4, <4>1, Zenon
      <3> QED BY <2>5, <3>1
    <2>7. rest \o blocks[m] \in Seq(Bytes)
      BY <2>3
    <2> QED BY <2>6, <2>7
  <1>3. n - k \in S
    <2> HIDE DEF S
    <2>1. n - k \in Nat
      OBVIOUS
    <2> QED BY <1>1, <1>2, <2>1, NatInSet
  <1>4. P(n - k) /\ k + (n - k) = n
    BY <1>3
  <1> QED BY <1>4 DEF Continues

(* The header.                                                             *)

NoNul(b, from) == \A k \in (from + 1)..Len(b) : b[k] # Nul
FirstNul(b, from, p) ==
  p \in (from + 1)..Len(b) /\ b[p] = Nul /\ \A k \in (from + 1)..(p - 1) : b[k] # Nul
NameEnd(b, p) == IF HasName(b) THEN FirstNul(b, HeaderLen, p) ELSE p = HeaderLen
CommentEnd(b, from, p) == IF HasComment(b) THEN FirstNul(b, from, p) ELSE p = from

(* What readgz_header knows in each state, having read b.                  *)
Before(b, st, p) ==
  /\ st = 0 => p = 0
  /\ st = 1 => p = HeaderLen /\ HasName(b)
  /\ st = 2 => NameEnd(b, p) /\ HasComment(b)
After(b, st, p, from) ==
  /\ st \in {1, 2, 3}
  /\ st = 1 => p = HeaderLen /\ HasName(b) /\ NoNul(b, HeaderLen)
  /\ st = 2 => NameEnd(b, p) /\ HasComment(b) /\ NoNul(b, p)
  /\ st = 3 => NameEnd(b, from) /\ CommentEnd(b, from, p)

LEMMA NulAfterIs ==
  ASSUME NEW b, Len(b) \in Nat, NEW from \in Nat
  PROVE  /\ NulAfter(b, from) = 0 => NoNul(b, from)
         /\ NulAfter(b, from) # 0 => FirstNul(b, from, NulAfter(b, from))
         /\ NulAfter(b, from) \in Nat
  <1> DEFINE nuls == {i \in (from + 1)..Len(b) : b[i] = Nul}
             first == CHOOSE i \in nuls : \A j \in nuls : i <= j
  <1>1. NulAfter(b, from) = IF nuls = {} THEN 0 ELSE first
    BY DEF NulAfter
  <1>2. CASE nuls = {}
    BY <1>1, <1>2 DEF NoNul
  <1>3. CASE nuls # {}
    <2>1. nuls \in SUBSET Nat
      OBVIOUS
    <2>2. \E i \in nuls : \A j \in nuls : i <= j
      <3> HIDE DEF nuls
      <3> QED BY <1>3, <2>1, NatLeast
    <2>3. first \in nuls /\ \A j \in nuls : first <= j
      <3> HIDE DEF nuls
      <3> QED BY <2>2
    <2> HIDE DEF first
    <2>4. first # 0 /\ FirstNul(b, from, first)
      BY <2>3 DEF FirstNul
    <2> QED BY <1>1, <1>3, <2>3, <2>4
  <1> QED BY <1>2, <1>3

LEMMA ParsedIs ==
  ASSUME NEW b, Len(b) \in Nat, Len(b) >= HeaderLen,
         NEW st \in {0, 1, 2}, NEW p \in Nat, Before(b, st, p)
  PROVE  LET h == Parsed(b, st, p)
         IN After(b, h.state, h.pos, h.from) /\ h.pos \in HeaderLen..Len(b) /\ h.from \in Nat
  <1> DEFINE name == IF st = 0 THEN HeaderLen ELSE p
             text == IF st <= 1 /\ HasName(b) THEN NulAfter(b, name) ELSE name
             last == IF HasComment(b) THEN NulAfter(b, text) ELSE text
             h == Parsed(b, st, p)
  <1>1. HeaderLen \in Nat /\ HeaderLen >= 2
    BY HeaderAssumption
  <1>2. h = CASE text = 0 -> [state |-> 1, pos |-> name, from |-> 0]
              [] text # 0 /\ last = 0 -> [state |-> 2, pos |-> text, from |-> 0]
              [] OTHER -> [state |-> 3, pos |-> last, from |-> text]
    BY DEF Parsed
  <1>3. name \in Nat /\ (st \in {0, 1} => name = HeaderLen) /\ (st = 2 => name = p)
    BY <1>1 DEF Before
  <1> HIDE DEF name
  <1>4. /\ text = 0 => name = HeaderLen /\ HasName(b) /\ NoNul(b, HeaderLen)
        /\ text # 0 => NameEnd(b, text)
        /\ text \in Nat
    <2>1. CASE st \in {0, 1} /\ HasName(b)
      BY <1>3, <2>1, NulAfterIs DEF NameEnd
    <2>2. CASE st \in {0, 1} /\ ~ HasName(b)
      BY <1>1, <1>3, <2>2 DEF NameEnd
    <2>3. CASE st = 2
      <3>1. text = p
        BY <1>3, <2>3
      <3>2. NameEnd(b, p) /\ p # 0
        BY <1>1, <2>3 DEF Before, NameEnd, FirstNul
      <3> QED BY <3>1, <3>2
    <2> QED BY <2>1, <2>2, <2>3
  <1> HIDE DEF text
  <1>5. text # 0 => text \in HeaderLen..Len(b)
    BY <1>1, <1>4 DEF NameEnd, FirstNul
  <1>6. /\ text # 0 /\ last = 0 => HasComment(b) /\ NoNul(b, text)
        /\ text # 0 /\ last # 0 => CommentEnd(b, text, last) /\ last \in HeaderLen..Len(b)
    <2>1. CASE HasComment(b)
      <3>1. last = NulAfter(b, text)
        BY <2>1
      <3> HIDE DEF last
      <3>2. text # 0 /\ last # 0 => FirstNul(b, text, last)
        BY <1>4, <3>1, NulAfterIs
      <3>3. text # 0 /\ last # 0 => last \in HeaderLen..Len(b)
        BY <1>1, <1>5, <3>2 DEF FirstNul
      <3> QED BY <1>4, <2>1, <3>1, <3>2, <3>3, NulAfterIs DEF CommentEnd
    <2>2. CASE ~ HasComment(b)
      BY <1>4, <1>5, <2>2 DEF CommentEnd
    <2> QED BY <2>1, <2>2
  <1> HIDE DEF last, h
  <1>7. CASE text = 0
    <2>1. h = [state |-> 1, pos |-> name, from |-> 0]
      BY <1>2, <1>7
    <2>2. h.state = 1 /\ h.pos = HeaderLen /\ h.from = 0
      BY <1>4, <1>7, <2>1
    <2> QED BY <1>1, <1>4, <1>7, <2>2 DEF After, h
  <1>8. CASE text # 0 /\ last = 0
    <2>1. h = [state |-> 2, pos |-> text, from |-> 0]
      BY <1>2, <1>8
    <2>2. h.state = 2 /\ h.pos = text /\ h.from = 0
      BY <2>1
    <2> QED BY <1>1, <1>4, <1>5, <1>6, <1>8, <2>2 DEF After, h
  <1>9. CASE text # 0 /\ last # 0
    <2>1. h = [state |-> 3, pos |-> last, from |-> text]
      BY <1>2, <1>9
    <2>2. h.state = 3 /\ h.pos = last /\ h.from = text
      BY <2>1
    <2> QED BY <1>1, <1>4, <1>5, <1>6, <1>9, <2>2 DEF After, h
  <1> QED BY <1>7, <1>8, <1>9

-----------------------------------------------------------------------------
(* Parsing the header as it arrives.                                       *)

Places == {"header", "signature", "open", "fake", "residual", "fill", "check", "write", "end"} \cup Exits

(* readgz_header has read the beginning of the stream, and knows where it  *)
(* is in it; after it nothing of this changes.                             *)
Place ==
  /\ pc = "header" => off = Len(hbuf) /\ state \in {0, 1, 2} /\ comment = << >>
  /\ pc \notin {"header", "exit1", "stopped"} => state = 3
  /\ state = 0 => pos = 0
  /\ state # 0 =>
       /\ Len(hbuf) >= HeaderLen /\ ~ BadHeader(hbuf)
       /\ \E from \in Nat :
            /\ After(hbuf, state, pos, from)
            /\ state = 3 => comment = SubSeq(hbuf, from + 1, pos - 1)
HeaderType ==
  /\ stream \in Seq(Bytes) /\ hbuf \in Seq(Bytes)
  /\ off \in 0..Len(stream) /\ sz \in Nat \ {0}
  /\ state \in 0..3 /\ pos \in 0..Len(hbuf)
  /\ pc \in Places
  /\ Len(hbuf) <= off /\ hbuf = SubSeq(stream, 1, Len(hbuf))
  /\ buffer \in Seq(Bytes) /\ residual \in 0..Len(hbuf)
(* The signature was verified.                                             *)
Copying == {"open", "fake", "residual", "fill", "check", "write", "end", "exit0", "exit4"}
VerifiedFirst == pc \in Copying => Verified

HeaderInv == HeaderType /\ Place /\ VerifiedFirst

(* A piece of the stream is put behind what was read.                      *)
LEMMA Piece ==
  ASSUME NEW s \in Seq(Bytes), NEW a \in 0..Len(s), NEW m \in a..Len(s), NEW n \in 1..(Len(s) - m)
  PROVE  /\ SubSeq(s, a + 1, m) \o SubSeq(s, m + 1, m + n) = SubSeq(s, a + 1, m + n)
         /\ SubSeq(s, a + 1, m) \in Seq(Bytes) /\ Len(SubSeq(s, a + 1, m)) = m - a
         /\ SubSeq(s, a + 1, m + n) \in Seq(Bytes) /\ Len(SubSeq(s, a + 1, m + n)) = m + n - a
         /\ m + n \in 0..Len(s)
  <1>1. a + 1 \in 1..(Len(s) + 1) /\ m \in ((a + 1) - 1)..Len(s) /\ m + n \in m..Len(s)
    OBVIOUS
  <1>2. SubSeq(s, a + 1, m) \o SubSeq(s, m + 1, m + n) = SubSeq(s, a + 1, m + n)
    BY <1>1, ConcatAdjacentSubSeq
  <1>3. SubSeq(s, a + 1, m) \in Seq(Bytes) /\ Len(SubSeq(s, a + 1, m)) = m - a
    OBVIOUS
  <1>4. SubSeq(s, a + 1, m + n) \in Seq(Bytes) /\ Len(SubSeq(s, a + 1, m + n)) = m + n - a
    OBVIOUS
  <1> QED BY <1>1, <1>2, <1>3, <1>4

(* What readgz_header knew of the beginning holds of more of the stream.   *)
LEMMA MoreRead ==
  ASSUME NEW a, NEW b, Len(a) \in Nat, Len(b) \in Nat, Len(a) <= Len(b),
         HeaderLen <= Len(a), \A k \in 1..Len(a) : b[k] = a[k],
         ~ BadHeader(a), NEW st \in {1, 2}, NEW p, NEW from, After(a, st, p, from)
  PROVE  ~ BadHeader(b) /\ Before(b, st, p)
  <1>1. b[1] = a[1] /\ b[2] = a[2]
    BY HeaderAssumption
  <1>2. ~ BadHeader(b) /\ (HasName(b) <=> HasName(a)) /\ (HasComment(b) <=> HasComment(a))
    BY <1>1 DEF BadHeader, HasName, HasComment
  <1>3. NameEnd(a, p) => NameEnd(b, p)
    BY <1>2, HeaderAssumption DEF NameEnd, FirstNul
  <1> QED BY <1>2, <1>3 DEF Before, After

LEMMA SignedIs ==
  ASSUME Verified
  PROVE  /\ comment[1].signed \in Signings /\ comment = Comment(comment[1].signed)
         /\ SignedSize \in Nat \ {0} /\ SignedSize = comment[1].signed.size
         /\ Len(Hashes) = Len(comment[1].signed.blocks)
         /\ \A k \in 1..Len(Hashes) : Hashes[k] = Hash(comment[1].signed.blocks[k])
  <1>1. PICK s \in Signings : comment = Comment(s)
    BY DEF Verified
  <1> DEFINE hashes == [i \in 1..Len(s.blocks) |-> Hash(s.blocks[i])]
             U == {SigByte(s)} \cup {hashes[i] : i \in 1..Len(s.blocks)}
  <1>2. Len(s.blocks) \in Nat /\ s.size \in Nat \ {0}
    BY ZVerifyAssumption
  <1>3. hashes \in Seq(U) /\ Len(hashes) = Len(s.blocks) /\ <<SigByte(s)>> \in Seq(U)
    BY <1>2
  <1>4. comment = <<SigByte(s)>> \o hashes
    BY <1>1 DEF Comment
  <1> HIDE DEF hashes, U
  <1>5. comment \in Seq(U) /\ Len(comment) = 1 + Len(s.blocks) /\ comment[1] = SigByte(s)
        /\ \A k \in 1..Len(s.blocks) : comment[k + 1] = hashes[k]
    BY <1>2, <1>3, <1>4
  <1>6. comment[1].signed = s
    BY <1>5 DEF SigByte
  <1>7. Len(Hashes) = Len(s.blocks) /\ \A k \in 1..Len(s.blocks) : Hashes[k] = comment[k + 1]
    BY <1>2, <1>5 DEF Hashes
  <1>8. \A k \in 1..Len(s.blocks) : Hashes[k] = Hash(s.blocks[k])
    BY <1>5, <1>7 DEF hashes
  <1> QED BY <1>1, <1>2, <1>6, <1>7, <1>8 DEF SignedSize

LEMMA CommentFirst ==
  ASSUME NEW s \in Signings
  PROVE  Len(Comment(s)) >= 1 /\ Comment(s)[1] = SigByte(s)
  <1> DEFINE hashes == [i \in 1..Len(s.blocks) |-> Hash(s.blocks[i])]
             U == {SigByte(s)} \cup {hashes[i] : i \in 1..Len(s.blocks)}
  <1>1. Len(s.blocks) \in Nat
    BY ZVerifyAssumption
  <1>2. hashes \in Seq(U) /\ <<SigByte(s)>> \in Seq(U)
    BY <1>1
  <1>3. Comment(s) = <<SigByte(s)>> \o hashes
    BY DEF Comment
  <1> HIDE DEF hashes, U
  <1> QED BY <1>2, <1>3

LEMMA HeaderInit == Init => HeaderInv
  <1> SUFFICES ASSUME Init PROVE HeaderInv
    OBVIOUS
  <1> USE ZVerifyAssumption DEF Init
  <1>1. HeaderType
    <2>1. stream \in Seq(Bytes) /\ Len(stream) \in Nat
      OBVIOUS
    <2>2. hbuf = SubSeq(stream, 1, Len(hbuf))
      BY <2>1
    <2> QED BY <2>1, <2>2 DEF HeaderType, Places
  <1>2. Place
    BY DEF Place
  <1> QED BY <1>1, <1>2 DEF HeaderInv, VerifiedFirst, Copying

LEMMA HeaderNext == HeaderInv /\ [Next]_vars => HeaderInv'
  <1> SUFFICES ASSUME HeaderInv, [Next]_vars PROVE HeaderInv'
    OBVIOUS
  <1>0. Len(stream) \in Nat /\ Len(hbuf) \in Nat
    BY DEF HeaderInv, HeaderType
  <1>1. CASE ReadHeader
    <2> DEFINE n0 == Smaller(sz' - Len(hbuf), Len(stream) - off)
    <2>0. sz \in Nat /\ sz > 0 /\ sz' \in {sz, 2 * sz}
      BY <1>1 DEF ReadHeader, HeaderInv, HeaderType
    <2>1. /\ sz' \in Nat \ {0}
          /\ pc = "header" /\ UNCHANGED <<stream, buffer, residual>>
          /\ buffer \in Seq(Bytes) /\ residual \in 0..Len(hbuf)
      <3>1. sz' \in Nat \ {0}
        BY <2>0
      <3> QED BY <1>1, <3>1 DEF ReadHeader, copying, HeaderInv, HeaderType
    <2>a. VerifiedFirst'
      BY <1>1 DEF ReadHeader, VerifiedFirst, Copying
    <2>2. PICK n \in 1..n0 :
            LET b == hbuf \o SubSeq(stream, off + 1, off + n)
                h == Parsed(b, state, pos)
            IN /\ off' = off + n
               /\ hbuf' = b
               /\ CASE Len(b) < HeaderLen -> UNCHANGED <<pc, state, pos, comment>>
                    [] Len(b) >= HeaderLen /\ BadHeader(b) ->
                         pc' = "exit1" /\ UNCHANGED <<state, pos, comment>>
                    [] OTHER ->
                         /\ state' = h.state /\ pos' = h.pos
                         /\ pc' = IF h.state = 3 THEN "signature" ELSE "header"
                         /\ comment' = IF h.state = 3 THEN SubSeq(b, h.from + 1, h.pos - 1) ELSE << >>
      BY <1>1 DEF ReadHeader
    <2> DEFINE b == SubSeq(stream, 1, off + n)
               h == Parsed(b, state, pos)
    <2>3. off \in 0..Len(stream) /\ n \in 1..(Len(stream) - off) /\ stream \in Seq(Bytes)
      BY <1>0, <2>1 DEF Smaller, HeaderInv, HeaderType
    <2>4. /\ hbuf = SubSeq(stream, 1, off) /\ hbuf \in Seq(Bytes) /\ off = Len(hbuf)
          /\ state \in {0, 1, 2} /\ comment = << >>
      BY <2>1 DEF HeaderInv, HeaderType, Place
    <2>5. /\ hbuf \o SubSeq(stream, off + 1, off + n) = b /\ b \in Seq(Bytes) /\ Len(b) = off + n
          /\ off + n \in 0..Len(stream)
      <3>1. 0 \in 0..Len(stream) /\ 0 + 1 = 1
        BY <1>0
      <3> QED BY <2>3, <2>4, <3>1, Piece
    <2>6. \A k \in 1..Len(hbuf) : b[k] = hbuf[k]
      BY <2>3, <2>4
    <2> HIDE DEF b
    <2>7. /\ off' = off + n /\ hbuf' = b
          /\ CASE Len(b) < HeaderLen -> UNCHANGED <<pc, state, pos, comment>>
               [] Len(b) >= HeaderLen /\ BadHeader(b) ->
                    pc' = "exit1" /\ UNCHANGED <<state, pos, comment>>
               [] OTHER ->
                    /\ state' = h.state /\ pos' = h.pos
                    /\ pc' = IF h.state = 3 THEN "signature" ELSE "header"
                    /\ comment' = IF h.state = 3 THEN SubSeq(b, h.from + 1, h.pos - 1) ELSE << >>
      BY <2>2, <2>5
    <2>8. state # 0 => ~ BadHeader(b) /\ Before(b, state, pos) /\ Len(b) >= HeaderLen
      <3> SUFFICES ASSUME state # 0 PROVE ~ BadHeader(b) /\ Before(b, state, pos) /\ Len(b) >= HeaderLen
        OBVIOUS
      <3>1. PICK from \in Nat : After(hbuf, state, pos, from)
        BY DEF HeaderInv, Place
      <3>2. Len(hbuf) >= HeaderLen /\ ~ BadHeader(hbuf) /\ state \in {1, 2}
        BY <2>4 DEF HeaderInv, Place
      <3>3. Len(hbuf) <= Len(b) /\ Len(b) >= HeaderLen /\ Len(b) \in Nat
        BY <1>0, <2>3, <2>4, <2>5, <3>2, HeaderAssumption
      <3> QED BY <1>0, <2>6, <3>1, <3>2, <3>3, HeaderAssumption, MoreRead
    <2>9. state = 0 => pos = 0 /\ Before(b, state, pos)
      BY DEF HeaderInv, Place, Before
    <2>10. hbuf' = SubSeq(stream', 1, Len(hbuf')) /\ Len(hbuf') = off' /\ off' \in 0..Len(stream') /\ hbuf' \in Seq(Bytes)
      BY <2>1, <2>5, <2>7 DEF b
    <2>11. pos \in 0..Len(b) /\ pos \in Nat
      BY <1>0, <2>3, <2>4, <2>5 DEF HeaderInv, HeaderType
    <2>12. CASE Len(b) < HeaderLen
      <3>1. UNCHANGED <<pc, state, pos, comment>> /\ state = 0
        BY <2>5, <2>7, <2>8, <2>12, HeaderAssumption
      <3>2. HeaderType'
        BY <2>1, <2>3, <2>7, <2>10, <2>11, <3>1 DEF HeaderInv, HeaderType
      <3>3. Place'
        BY <2>1, <2>4, <2>9, <2>10, <3>1 DEF Place
      <3> QED BY <2>a, <3>2, <3>3 DEF HeaderInv
    <2>13. CASE Len(b) >= HeaderLen /\ BadHeader(b)
      <3>1. pc' = "exit1" /\ UNCHANGED <<state, pos, comment>> /\ state = 0
        BY <2>5, <2>7, <2>8, <2>13, HeaderAssumption
      <3>2. HeaderType'
        BY <2>1, <2>3, <2>7, <2>10, <2>11, <3>1 DEF HeaderInv, HeaderType, Places, Exits
      <3>3. Place'
        BY <2>9, <3>1 DEF Place
      <3> QED BY <2>a, <3>2, <3>3 DEF HeaderInv
    <2>14. CASE Len(b) >= HeaderLen /\ ~ BadHeader(b)
      <3>1. /\ state' = h.state /\ pos' = h.pos
            /\ pc' = IF h.state = 3 THEN "signature" ELSE "header"
            /\ comment' = IF h.state = 3 THEN SubSeq(b, h.from + 1, h.pos - 1) ELSE << >>
        BY <2>5, <2>7, <2>14, HeaderAssumption
      <3>2. After(b, h.state, h.pos, h.from) /\ h.pos \in HeaderLen..Len(b) /\ h.from \in Nat
        <4>1. Before(b, state, pos) /\ Len(b) \in Nat
          BY <2>5, <2>8, <2>9
        <4> QED BY <2>4, <2>11, <2>14, <4>1, ParsedIs
      <3> HIDE DEF h
      <3>3. h.state \in {1, 2, 3}
        BY <3>2 DEF After
      <3>4. HeaderType'
        <4>1. residual' \in 0..Len(hbuf')
          <5>1. Len(hbuf') = Len(hbuf) + n /\ n \in Nat
            <6>1. hbuf' = b
              BY <2>7, Zenon
            <6> QED BY <2>3, <2>4, <2>5, <6>1
          <5> QED BY <1>0, <2>1, <5>1
        <4>2. pos' \in 0..Len(hbuf') /\ state' \in 0..3 /\ pc' \in Places
          <5>0. HeaderLen \in Nat /\ Len(b) \in Nat
            BY <2>5, HeaderAssumption
          <5>1. h.pos \in 0..Len(b)
            BY <3>2, <5>0
          <5> QED BY <2>7, <3>1, <3>3, <5>1 DEF Places
        <4>3. buffer' \in Seq(Bytes) /\ stream' \in Seq(Bytes) /\ sz' \in Nat \ {0}
          BY <2>1, <2>3
        <4>4. Len(hbuf') <= off'
          BY <2>3, <2>10
        <4> QED BY <2>10, <4>1, <4>2, <4>3, <4>4 DEF HeaderType
      <3>5. Place'
        <4>1. /\ After(hbuf', state', pos', h.from) /\ h.from \in Nat
              /\ state' = 3 => comment' = SubSeq(hbuf', h.from + 1, pos' - 1)
          BY <2>7, <3>1, <3>2
        <4>2. /\ Len(hbuf') >= HeaderLen /\ ~ BadHeader(hbuf') /\ state' \in {1, 2, 3}
              /\ pc' = IF state' = 3 THEN "signature" ELSE "header"
              /\ state' # 3 => comment' = << >>
          BY <2>7, <2>14, <3>1, <3>3
        <4>3. \E from \in Nat :
                /\ After(hbuf', state', pos', from)
                /\ state' = 3 => comment' = SubSeq(hbuf', from + 1, pos' - 1)
          BY <4>1, Zenon
        <4>4. CASE state' = 3
          BY <4>2, <4>3, <4>4 DEF Place
        <4>5. CASE state' # 3
          <5>1. pc' = "header" /\ state' \in {1, 2} /\ comment' = << >> /\ off' = Len(hbuf')
            BY <2>10, <4>2, <4>5
          <5> QED BY <4>2, <4>3, <4>5, <5>1 DEF Place
        <4> QED BY <4>4, <4>5
      <3> QED BY <2>a, <3>4, <3>5 DEF HeaderInv
    <2> QED BY <2>5, <2>12, <2>13, <2>14, HeaderAssumption
  <1>2. CASE Fill
    <2>1. UNCHANGED <<stream, pc, header, residual>>
      BY <1>2 DEF Fill
    <2>2. off' \in 0..Len(stream) /\ off <= off' /\ buffer' \in Seq(Bytes)
      <3>1. PICK n \in 1..Smaller(SignedSize - Len(buffer), Len(stream) - off) :
              off' = off + n /\ buffer' = buffer \o SubSeq(stream, off + 1, off + n)
        BY <1>2 DEF Fill
      <3>2. n \in Nat /\ n <= Len(stream) - off
        <4>0. Verified
          BY <1>2 DEF Fill, HeaderInv, VerifiedFirst, Copying
        <4>1. off \in Nat /\ SignedSize \in Nat /\ Len(buffer) \in Nat
          BY <4>0, SignedIs DEF HeaderInv, HeaderType
        <4>2. CASE SignedSize - Len(buffer) < Len(stream) - off
          BY <1>0, <3>1, <4>1, <4>2 DEF Smaller
        <4>3. CASE ~ (SignedSize - Len(buffer) < Len(stream) - off)
          BY <1>0, <3>1, <4>1, <4>3 DEF Smaller
        <4> QED BY <4>2, <4>3
      <3>3. off \in 0..Len(stream) /\ buffer \in Seq(Bytes) /\ stream \in Seq(Bytes)
        BY DEF HeaderInv, HeaderType
      <3> QED BY <1>0, <3>1, <3>2, <3>3
    <2>3. pc = "fill"
      BY <1>2 DEF Fill
    <2>4. VerifiedFirst'
      BY <2>1 DEF HeaderInv, VerifiedFirst, Verified, header
    <2>5. HeaderType'
      BY <1>0, <2>1, <2>2 DEF HeaderInv, HeaderType, header
    <2>6. Place'
      BY <2>1, <2>3 DEF HeaderInv, Place, header
    <2> QED BY <2>4, <2>5, <2>6 DEF HeaderInv
  <1>3. ASSUME UNCHANGED <<stream, off, header>>, buffer' \in Seq(Bytes), residual' \in 0..Len(hbuf),
               \/ pc' = pc
               \/ pc' \in {"exit1", "stopped"}
               \/ pc' \in Copying /\ pc \notin {"header", "exit1", "stopped"} /\ Verified
        PROVE  HeaderInv'
    BY <1>3 DEF HeaderInv, HeaderType, Place, header, Places, Exits, Copying, VerifiedFirst, Verified
  <1>b. /\ buffer \in Seq(Bytes) /\ residual \in 0..Len(hbuf) /\ pos \in 0..Len(hbuf)
        /\ pc \in Copying => Verified
    BY DEF HeaderInv, HeaderType, VerifiedFirst
  <1>4. CASE HeaderTruncated
    BY <1>3, <1>4, <1>b DEF HeaderTruncated, Exit, copying
  <1>5. CASE VerifySignature
    BY <1>3, <1>5, <1>b DEF VerifySignature, Exit, Copying, copying
  <1>6. CASE OpenOut \/ WriteHeader
    BY <1>3, <1>6, <1>b DEF OpenOut, WriteHeader, Copying, copying
  <1>7. CASE TakeResidual
    <2> DEFINE n == Smaller(Len(hbuf) - residual, SignedSize)
    <2>1. Verified
      BY <1>7, <1>b DEF TakeResidual, Copying
    <2>2. n \in 0..(Len(hbuf) - residual)
      BY <1>0, <1>b, <2>1, SignedIs DEF Smaller
    <2>3. buffer' = SubSeq(hbuf, residual + 1, residual + n) /\ residual' = residual + n
      BY <1>7 DEF TakeResidual
    <2> HIDE DEF n
    <2>4. buffer' \in Seq(Bytes) /\ residual' \in 0..Len(hbuf)
      <3>1. hbuf \in Seq(Bytes)
        BY DEF HeaderInv, HeaderType
      <3> QED BY <1>0, <1>b, <2>2, <2>3, <3>1
    <2> QED BY <1>3, <1>7, <2>1, <2>4 DEF TakeResidual, Copying
  <1>8. CASE Filled
    BY <1>3, <1>8, <1>b DEF Filled, Exit, Copying, copying
  <1>9. CASE Check
    BY <1>3, <1>9, <1>b DEF Check, Exit, Copying, copying
  <1>10. CASE Write \/ Written
    BY <1>3, <1>10, <1>b DEF Write, Written, Copying
  <1>11. CASE End
    BY <1>3, <1>11, <1>b DEF End, Exit, Copying, copying
  <1>12. CASE Stop
    BY <1>3, <1>12, <1>b DEF Stop, Exit, copying
  <1>13. CASE UNCHANGED vars
    BY <1>3, <1>13, <1>b DEF vars, header, copying
  <1> QED
    BY <1>1, <1>2, <1>4, <1>5, <1>6, <1>7, <1>8, <1>9, <1>10, <1>11, <1>12, <1>13 DEF Next, Step, Done

(* However the pieces fall, the parser ends at the byte that ends the last *)
(* string, and the comment is what lies before it (readgz_header).         *)
THEOREM HeaderAlwaysAgrees == Spec => []HeaderAgrees
  <1>1. HeaderInv => HeaderAgrees
    <2> SUFFICES ASSUME HeaderInv, state = 3 PROVE HeaderAgrees
      BY DEF HeaderAgrees
    <2> DEFINE nuls == {i \in (HeaderLen + 1)..pos : stream[i] = Nul}
               strings == stream[2].flags \cap {"NAME", "COMMENT"}
    <2>0. HeaderLen \in Nat /\ HeaderLen >= 2 /\ Len(stream) \in Nat /\ Len(hbuf) \in Nat
      BY HeaderAssumption DEF HeaderInv, HeaderType
    <2>1. PICK from \in Nat : After(hbuf, 3, pos, from) /\ comment = SubSeq(hbuf, from + 1, pos - 1)
      BY DEF HeaderInv, Place
    <2>2. Len(hbuf) >= HeaderLen /\ ~ BadHeader(hbuf) /\ pos \in 0..Len(hbuf) /\ hbuf \in Seq(Bytes)
      BY DEF HeaderInv, HeaderType, Place
    <2>3. /\ NameEnd(hbuf, from) /\ CommentEnd(hbuf, from, pos)
      BY <2>1 DEF After
    <2>4. \A k \in 1..Len(hbuf) : stream[k] = hbuf[k]
      <3>1. hbuf = SubSeq(stream, 1, Len(hbuf)) /\ Len(hbuf) \in 0..Len(stream) /\ stream \in Seq(Bytes)
        BY <2>0 DEF HeaderInv, HeaderType
      <3> DEFINE n == Len(hbuf)
      <3>2. \A k \in 1..n : SubSeq(stream, 1, n)[k] = stream[k]
        BY <3>1
      <3> QED BY <3>1, <3>2
    <2>5. hbuf = SubSeq(stream, 1, Len(hbuf))
      BY DEF HeaderInv, HeaderType
    <2>6. from \in HeaderLen..pos /\ pos \in HeaderLen..Len(hbuf)
      BY <2>0, <2>2, <2>3 DEF NameEnd, CommentEnd, FirstNul
    <2>7. nuls = {i \in (HeaderLen + 1)..pos : hbuf[i] = Nul}
      BY <2>0, <2>4, <2>6
    <2>8. /\ "NAME" \in strings <=> HasName(hbuf)
          /\ "COMMENT" \in strings <=> HasComment(hbuf)
      BY <2>0, <2>2, <2>4 DEF HasName, HasComment
    <2>9. /\ HasName(hbuf) /\ HasComment(hbuf) => nuls = {from, pos} /\ from # pos
          /\ HasName(hbuf) /\ ~ HasComment(hbuf) => nuls = {pos}
          /\ ~ HasName(hbuf) /\ HasComment(hbuf) => nuls = {pos}
          /\ ~ HasName(hbuf) /\ ~ HasComment(hbuf) => nuls = {} /\ pos = HeaderLen
      <3>1. CASE HasName(hbuf) /\ HasComment(hbuf)
        <4>1. /\ from \in (HeaderLen + 1)..Len(hbuf) /\ hbuf[from] = Nul
              /\ \A k \in (HeaderLen + 1)..(from - 1) : hbuf[k] # Nul
          BY <2>3, <3>1 DEF NameEnd, FirstNul
        <4>2. /\ pos \in (from + 1)..Len(hbuf) /\ hbuf[pos] = Nul
              /\ \A k \in (from + 1)..(pos - 1) : hbuf[k] # Nul
          BY <2>3, <3>1 DEF CommentEnd, FirstNul
        <4>3. \A i \in (HeaderLen + 1)..pos : hbuf[i] = Nul <=> i = from \/ i = pos
          <5> SUFFICES ASSUME NEW i \in (HeaderLen + 1)..pos PROVE hbuf[i] = Nul <=> i = from \/ i = pos
            OBVIOUS
          <5>1. i \in (HeaderLen + 1)..(from - 1) \/ i = from \/ i \in (from + 1)..(pos - 1) \/ i = pos
            BY <2>0, <2>6, <4>1, <4>2
          <5>2. i # from /\ i # pos => hbuf[i] # Nul
            BY <4>1, <4>2, <5>1
          <5> QED BY <4>1, <4>2, <5>2
        <4>4. from \in (HeaderLen + 1)..pos /\ pos \in (HeaderLen + 1)..pos /\ from # pos
          BY <2>0, <2>6, <4>1, <4>2
        <4>5. nuls = {from, pos}
          BY <2>7, <4>3, <4>4
        <4> QED BY <3>1, <4>4, <4>5
      <3>2. CASE HasName(hbuf) /\ ~ HasComment(hbuf)
        <4>1. /\ pos \in (HeaderLen + 1)..Len(hbuf) /\ hbuf[pos] = Nul
              /\ \A k \in (HeaderLen + 1)..(pos - 1) : hbuf[k] # Nul
          BY <2>3, <3>2 DEF NameEnd, CommentEnd, FirstNul
        <4>2. nuls = {pos}
          BY <2>0, <2>6, <2>7, <4>1
        <4> QED BY <3>2, <4>2
      <3>3. CASE ~ HasName(hbuf) /\ HasComment(hbuf)
        <4>1. /\ pos \in (HeaderLen + 1)..Len(hbuf) /\ hbuf[pos] = Nul
              /\ \A k \in (HeaderLen + 1)..(pos - 1) : hbuf[k] # Nul
          BY <2>3, <3>3 DEF NameEnd, CommentEnd, FirstNul
        <4>2. nuls = {pos}
          BY <2>0, <2>6, <2>7, <4>1
        <4> QED BY <3>3, <4>2
      <3>4. CASE ~ HasName(hbuf) /\ ~ HasComment(hbuf)
        <4>1. pos = HeaderLen
          BY <2>3, <3>4 DEF NameEnd, CommentEnd
        <4>2. nuls = {}
          BY <2>0, <2>7, <4>1
        <4> QED BY <3>4, <4>1, <4>2
      <3> QED BY <3>1, <3>2, <3>3, <3>4
    <2>10. /\ HasName(hbuf) /\ HasComment(hbuf) => strings = {"NAME", "COMMENT"}
           /\ HasName(hbuf) /\ ~ HasComment(hbuf) => strings = {"NAME"}
           /\ ~ HasName(hbuf) /\ HasComment(hbuf) => strings = {"COMMENT"}
           /\ ~ HasName(hbuf) /\ ~ HasComment(hbuf) => strings = {}
      BY <2>8
    <2> HIDE DEF nuls, strings
    <2>11. Cardinality({}) = 0
      BY FS_EmptySet
    <2>12. ASSUME NEW a PROVE IsFiniteSet({a}) /\ Cardinality({a}) = 1
      <3>1. {} \cup {a} = {a} /\ a \notin {}
        OBVIOUS
      <3> QED BY <2>11, <3>1, FS_AddElement, FS_EmptySet
    <2>13. ASSUME NEW a, NEW b, a # b PROVE Cardinality({a, b}) = 2
      <3>1. {a} \cup {b} = {a, b} /\ b \notin {a}
        BY <2>13
      <3>2. Cardinality({a} \cup {b}) = Cardinality({a}) + 1
        BY <2>12, <3>1, FS_AddElement
      <3> QED BY <2>12, <3>1, <3>2
    <2>14. Cardinality(nuls) = Cardinality(strings)
      <3>1. CASE HasName(hbuf) /\ HasComment(hbuf)
        <4>1. Cardinality(nuls) = 2
          <5>1. from # pos => Cardinality({from, pos}) = 2
            BY <2>13
          <5> QED BY <2>9, <3>1, <5>1
        <4>2. Cardinality(strings) = 2
          <5>1. "NAME" # "COMMENT"
            OBVIOUS
          <5>2. Cardinality({"NAME", "COMMENT"}) = 2
            BY <2>13, <5>1
          <5> QED BY <2>10, <3>1, <5>2
        <4> QED BY <4>1, <4>2
      <3>2. CASE HasName(hbuf) /\ ~ HasComment(hbuf)
        BY <2>9, <2>10, <2>12, <3>2
      <3>3. CASE ~ HasName(hbuf) /\ HasComment(hbuf)
        BY <2>9, <2>10, <2>12, <3>3
      <3>4. CASE ~ HasName(hbuf) /\ ~ HasComment(hbuf)
        BY <2>9, <2>10, <3>4
      <3> QED BY <3>1, <3>2, <3>3, <3>4
    <2>15. "COMMENT" \in strings =>
             /\ comment = SubSeq(stream, pos - Len(comment), pos - 1)
             /\ Nul \notin Range(comment)
      <3> SUFFICES ASSUME HasComment(hbuf)
                   PROVE  /\ comment = SubSeq(stream, pos - Len(comment), pos - 1)
                          /\ Nul \notin Range(comment)
        BY <2>8
      <3>1. pos \in (from + 1)..Len(hbuf) /\ \A k \in (from + 1)..(pos - 1) : hbuf[k] # Nul
        BY <2>3 DEF CommentEnd, FirstNul
      <3>2. /\ Len(comment) = pos - 1 - from
            /\ \A k \in 1..Len(comment) : comment[k] = hbuf[from + k]
        BY <2>0, <2>1, <2>2, <3>1
      <3>3. Nul \notin Range(comment)
        <4>1. \A k \in 1..Len(comment) : comment[k] # Nul
          BY <2>0, <3>1, <3>2
        <4>2. comment \in Seq(Bytes)
          BY <2>0, <2>1, <2>2, <3>1
        <4>3. DOMAIN comment = 1..Len(comment)
          BY <4>2
        <4> QED BY <4>1, <4>3 DEF Range
      <3>4. SubSeq(hbuf, from + 1, pos - 1) = SubSeq(stream, from + 1, pos - 1)
        <4>1. stream \in Seq(Bytes) /\ Len(hbuf) <= Len(stream)
          BY <2>0 DEF HeaderInv, HeaderType
        <4> DEFINE a == SubSeq(hbuf, from + 1, pos - 1)
                   b == SubSeq(stream, from + 1, pos - 1)
        <4>2. a \in Seq(Bytes) /\ Len(a) = pos - 1 - from /\ \A k \in 1..Len(a) : a[k] = hbuf[from + k]
          BY <2>1, <3>2, <2>0, <2>2, <3>1
        <4>3. b \in Seq(Bytes) /\ Len(b) = pos - 1 - from /\ \A k \in 1..Len(b) : b[k] = stream[from + k]
          BY <2>0, <3>1, <4>1
        <4> HIDE DEF a, b
        <4>4. \A k \in 1..Len(a) : a[k] = b[k]
          BY <2>0, <2>4, <3>1, <4>2, <4>3
        <4> QED BY <4>2, <4>3, <4>4, SeqEqual DEF a, b
      <3>5. pos - Len(comment) = from + 1
        BY <2>0, <3>1, <3>2
      <3> QED BY <2>1, <3>3, <3>4, <3>5
    <2>16. /\ strings # {} => pos \in nuls
           /\ strings = {} => pos = HeaderLen
      BY <2>9, <2>10
    <2> QED BY <2>5, <2>14, <2>15, <2>16 DEF HeaderAgrees, nuls, strings
  <1> QED BY <1>1, HeaderInit, HeaderNext, PTL DEF Spec

(* The output.                                                             *)

AllBytes ==
  Bytes \cup {Nul, Magic, Name, FlagByte({"COMMENT"}), FlagByte({"NAME", "COMMENT"})}
        \cup UNION {Range(Comment(s)) : s \in Signings}

Signer == comment[1].signed
NBlocks(s) == Len(s.blocks)
Flat(s) == CHOOSE flat : Joins(flat, s.blocks, NBlocks(s))
Start(s) == FixedHeader({"COMMENT"}) \o Comment(s) \o <<Nul>>

LEMMA FlatIs ==
  ASSUME NEW s \in Signings
  PROVE  /\ NBlocks(s) \in Nat /\ s.blocks \in Seq(Seq(Bytes)) /\ NBlocks(s) = Len(s.blocks)
         /\ Joins(Flat(s), s.blocks, NBlocks(s))
         /\ \A k \in 0..NBlocks(s) : Flat(s)[k] \in Seq(Bytes)
         /\ Flat(s)[0] = << >>
         /\ \A k \in 1..NBlocks(s) : Flat(s)[k] = Flat(s)[k - 1] \o s.blocks[k] /\ s.blocks[k] \in Seq(Bytes)
         /\ FlattenSeq(s.blocks) = Flat(s)[NBlocks(s)]
  <1>1. s.blocks \in Seq(Seq(Bytes)) /\ NBlocks(s) = Len(s.blocks) /\ NBlocks(s) \in Nat
    BY ZVerifyAssumption DEF NBlocks
  <1>2. Joins(Flat(s), s.blocks, NBlocks(s))
    BY <1>1, JoinsExists DEF Flat
  <1>3. \A k \in 1..NBlocks(s) : s.blocks[k] \in Seq(Bytes)
    BY <1>1
  <1>4. FlattenSeq(s.blocks) = Flat(s)[NBlocks(s)]
    BY <1>1, <1>2, FlattenSeqJoins
  <1> QED BY <1>1, <1>2, <1>3, <1>4 DEF Joins

LEMMA CommentIs ==
  ASSUME NEW s \in Signings
  PROVE  Comment(s) \in Seq(AllBytes) /\ Len(Comment(s)) = 1 + NBlocks(s)
  <1> DEFINE hashes == [i \in 1..Len(s.blocks) |-> Hash(s.blocks[i])]
             T == {SigByte(s)} \cup {hashes[i] : i \in 1..Len(s.blocks)}
  <1>1. hashes \in Seq(T) /\ Len(hashes) = NBlocks(s) /\ <<SigByte(s)>> \in Seq(T)
    BY FlatIs DEF NBlocks
  <1>2. Comment(s) = <<SigByte(s)>> \o hashes
    BY DEF Comment
  <1> HIDE DEF hashes, T
  <1>3. Comment(s) \in Seq(T) /\ Len(Comment(s)) = 1 + NBlocks(s)
    BY <1>1, <1>2, FlatIs
  <1>4. DOMAIN Comment(s) = 1..Len(Comment(s)) /\ Comment(s) = [k \in 1..Len(Comment(s)) |-> Comment(s)[k]]
    BY <1>3
  <1>5. \A k \in 1..Len(Comment(s)) : Comment(s)[k] \in AllBytes
    BY <1>4 DEF AllBytes, Range
  <1>6. Comment(s) \in Seq(AllBytes)
    BY <1>3, <1>4, <1>5
  <1> QED BY <1>3, <1>6

LEMMA ConcatParts ==
  ASSUME NEW T, NEW a \in Seq(T), NEW b \in Seq(T)
  PROVE  /\ a \o b \in Seq(T) /\ Len(a \o b) = Len(a) + Len(b)
         /\ \A i \in 1..Len(a) : (a \o b)[i] = a[i]
         /\ \A i \in 1..Len(b) : (a \o b)[Len(a) + i] = b[i]
  OBVIOUS

LEMMA FixedHeaderIs ==
  ASSUME NEW flags, FlagByte(flags) \in AllBytes
  PROVE  /\ FixedHeader(flags) \in Seq(AllBytes) /\ Len(FixedHeader(flags)) = HeaderLen
         /\ FixedHeader(flags)[1] = Magic /\ FixedHeader(flags)[2] = FlagByte(flags)
  <1>1. HeaderLen - 2 \in Nat /\ HeaderLen \in Nat
    BY HeaderAssumption
  <1> DEFINE rest == [i \in 1..(HeaderLen - 2) |-> Nul]
             first == <<Magic, FlagByte(flags)>>
  <1>2. rest \in Seq(AllBytes) /\ Len(rest) = HeaderLen - 2
    <2>1. Nul \in AllBytes
      BY DEF AllBytes
    <2> QED BY <1>1, <2>1
  <1>3. first \in Seq(AllBytes) /\ Len(first) = 2 /\ first[1] = Magic /\ first[2] = FlagByte(flags)
    <2>1. Magic \in AllBytes
      BY DEF AllBytes
    <2> HIDE DEF AllBytes
    <2> QED BY <2>1
  <1> HIDE DEF rest, first
  <1>4. /\ first \o rest \in Seq(AllBytes) /\ Len(first \o rest) = HeaderLen
        /\ (first \o rest)[1] = Magic /\ (first \o rest)[2] = FlagByte(flags)
    <2>1. /\ first \o rest \in Seq(AllBytes) /\ Len(first \o rest) = Len(first) + Len(rest)
          /\ \A i \in 1..Len(first) : (first \o rest)[i] = first[i]
      <3>1. first \in Seq(AllBytes) /\ rest \in Seq(AllBytes)
        BY <1>2, <1>3
      <3> QED BY <3>1, ConcatParts, ZenonT(40)
    <2>2. 1 \in 1..Len(first) /\ 2 \in 1..Len(first) /\ Len(first) + Len(rest) = HeaderLen
      BY <1>1, <1>2, <1>3
    <2> QED BY <1>3, <2>1, <2>2
  <1> QED BY <1>4 DEF FixedHeader, first, rest

LEMMA ArchiveIs ==
  ASSUME NEW s \in Signings
  PROVE  /\ Start(s) \in Seq(AllBytes)
         /\ Archive(s) = Start(s) \o Flat(s)[NBlocks(s)]
         /\ \A k \in 0..NBlocks(s) : Flat(s)[k] \in Seq(AllBytes)
  <1> DEFINE F == FixedHeader({"COMMENT"})
             C == Comment(s)
             N == <<Nul>>
             D == Flat(s)[NBlocks(s)]
  <1>1. F \in Seq(AllBytes)
    BY FixedHeaderIs DEF AllBytes
  <1>2. C \in Seq(AllBytes)
    BY CommentIs
  <1>3. N \in Seq(AllBytes)
    <2>1. Nul \in AllBytes
      BY DEF AllBytes
    <2> QED BY <2>1
  <1>4. \A k \in 0..NBlocks(s) : Flat(s)[k] \in Seq(AllBytes)
    <2>1. Bytes \subseteq AllBytes
      BY DEF AllBytes
    <2> QED BY <2>1, FlatIs, SeqMonotonic
  <1>5. D \in Seq(AllBytes)
    <2>1. NBlocks(s) \in Nat
      BY FlatIs
    <2>2. NBlocks(s) \in 0..NBlocks(s)
      BY <2>1
    <2> QED BY <1>4, <2>2
  <1>6. Archive(s) = F \o ((C \o N) \o D)
    BY FlatIs DEF Archive, Signed
  <1>7. Start(s) = (F \o C) \o N
    BY Zenon DEF Start
  <1> HIDE DEF F, C, N, D
  <1>8. C \o N \in Seq(AllBytes) /\ F \o C \in Seq(AllBytes) /\ (F \o C) \o N \in Seq(AllBytes)
    BY <1>1, <1>2, <1>3
  <1>9. F \o ((C \o N) \o D) = (F \o (C \o N)) \o D
    BY <1>1, <1>5, <1>8, ConcatAssociative, SMTT(30)
  <1>10. F \o (C \o N) = (F \o C) \o N
    BY <1>1, <1>2, <1>3, ConcatAssociative, SMTT(30)
  <1> QED BY <1>4, <1>6, <1>7, <1>8, <1>9, <1>10 DEF D

LEMMA ArchiveInSeq ==
  ASSUME NEW s \in Signings
  PROVE  Archive(s) \in Seq(AllBytes)
  <1>1. NBlocks(s) \in Nat
    BY FlatIs
  <1>2. NBlocks(s) \in 0..NBlocks(s)
    BY <1>1
  <1> DEFINE n == NBlocks(s)
             a == Start(s)
             b == Flat(s)[n]
  <1>3. a \in Seq(AllBytes) /\ Archive(s) = a \o b
    BY ArchiveIs, Zenon
  <1>4. \A k \in 0..n : Flat(s)[k] \in Seq(AllBytes)
    BY ArchiveIs, Zenon
  <1>5. b \in Seq(AllBytes)
    BY <1>2, <1>4, Zenon
  <1> HIDE DEF a, b
  <1> QED BY <1>3, <1>5

LEMMA PrefixIs ==
  ASSUME NEW T, NEW a \in Seq(T), NEW b \in Seq(T)
  PROVE  IsPrefix(a, a \o b)
  <1>1. Len(a) <= Len(a \o b)
    OBVIOUS
  <1>2. SubSeq(a, 1, Len(a)) = a
    OBVIOUS
  <1>3. SubSeq(a \o b, 1, Len(a)) = a
    <2> DEFINE u == SubSeq(a \o b, 1, Len(a))
    <2>1. a \o b \in Seq(T) /\ Len(a) <= Len(a \o b) /\ \A k \in 1..Len(a) : (a \o b)[k] = a[k]
      OBVIOUS
    <2> DEFINE c == a \o b
    <2> HIDE DEF c
    <2>2. u \in Seq(T) /\ Len(u) = Len(a) /\ \A k \in 1..Len(u) : u[k] = a[k]
      BY <2>1 DEF c
    <2> HIDE DEF u
    <2> QED BY <2>2, SeqEqual DEF u
  <1> QED BY <1>1, <1>2, <1>3 DEF IsPrefix

(* The first blocks, and a part of one more, are the beginning of the      *)
(* archive.                                                                *)
LEMMA BlocksPrefix ==
  ASSUME NEW s \in Signings, NEW k \in 0..NBlocks(s)
  PROVE  IsPrefix(Start(s) \o Flat(s)[k], Archive(s))
  <1>1. PICK rest \in Seq(Bytes) : Flat(s)[NBlocks(s)] = Flat(s)[k] \o rest
    <2> DEFINE n == NBlocks(s)
               flat == Flat(s)
               blocks == s.blocks
    <2>1. /\ n \in Nat /\ n = Len(blocks) /\ k \in 0..n
          /\ blocks \in Seq(Seq(Bytes)) /\ Joins(flat, blocks, n)
      BY FlatIs, Zenon
    <2> HIDE DEF n, flat, blocks
    <2>2. n <= Len(blocks)
      BY <2>1
    <2>3. \E rest \in Seq(Bytes) : flat[n] = flat[k] \o rest
      <3>1. Continues(flat[n], flat[k])
        BY <2>1, <2>2, JoinsPrefix
      <3> QED BY <3>1 DEF Continues
    <2> QED BY <2>3 DEF n, flat
  <1>2. rest \in Seq(AllBytes)
    <2>1. Bytes \subseteq AllBytes
      BY DEF AllBytes
    <2> QED BY <2>1, SeqMonotonic
  <1>3. Start(s) \in Seq(AllBytes) /\ Flat(s)[k] \in Seq(AllBytes)
    BY ArchiveIs
  <1>4. Archive(s) = (Start(s) \o Flat(s)[k]) \o rest
    <2>1. Archive(s) = Start(s) \o (Flat(s)[k] \o rest)
      BY <1>1, ArchiveIs
    <2>2. (Start(s) \o Flat(s)[k]) \o rest = Start(s) \o (Flat(s)[k] \o rest)
      <3> DEFINE a == Start(s)
                 b == Flat(s)[k]
      <3>1. a \in Seq(AllBytes) /\ b \in Seq(AllBytes)
        BY <1>3
      <3> HIDE DEF a, b
      <3>2. (a \o b) \o rest = a \o (b \o rest)
        BY <1>2, <3>1, ConcatAssociative
      <3> QED BY <3>2 DEF a, b
    <2> QED BY <2>1, <2>2, Zenon
  <1>5. Start(s) \o Flat(s)[k] \in Seq(AllBytes)
    BY <1>3
  <1> QED BY <1>2, <1>4, <1>5, PrefixIs

LEMMA PrefixTransitive ==
  ASSUME NEW T, NEW a \in Seq(T), NEW b \in Seq(T), NEW c \in Seq(T), IsPrefix(a, b), IsPrefix(b, c)
  PROVE  IsPrefix(a, c)
  <1>1. Len(a) <= Len(b) /\ Len(b) <= Len(c) /\ Len(a) <= Len(c)
    BY DEF IsPrefix
  <1>2. \A k \in 1..Len(a) : a[k] = b[k]
    <2>1. SubSeq(a, 1, Len(a)) = SubSeq(b, 1, Len(a))
      BY DEF IsPrefix
    <2>2. \A k \in 1..Len(a) : SubSeq(a, 1, Len(a))[k] = a[k] /\ SubSeq(b, 1, Len(a))[k] = b[k]
      BY <1>1
    <2> QED BY <2>1, <2>2
  <1>3. \A k \in 1..Len(b) : b[k] = c[k]
    <2>1. SubSeq(b, 1, Len(b)) = SubSeq(c, 1, Len(b))
      BY DEF IsPrefix
    <2>2. \A k \in 1..Len(b) : SubSeq(b, 1, Len(b))[k] = b[k] /\ SubSeq(c, 1, Len(b))[k] = c[k]
      BY <1>1
    <2> QED BY <2>1, <2>2
  <1> DEFINE u == SubSeq(a, 1, Len(a))
             v == SubSeq(c, 1, Len(a))
  <1>4. u \in Seq(T) /\ Len(u) = Len(a) /\ \A k \in 1..Len(a) : u[k] = a[k]
    OBVIOUS
  <1>5. v \in Seq(T) /\ Len(v) = Len(a) /\ \A k \in 1..Len(a) : v[k] = c[k]
    BY <1>1
  <1>6. \A k \in 1..Len(u) : u[k] = v[k]
    BY <1>1, <1>2, <1>3, <1>4, <1>5
  <1> HIDE DEF u, v
  <1>7. u = v
    BY <1>4, <1>5, <1>6, SeqEqual
  <1> QED BY <1>1, <1>7 DEF IsPrefix, u, v

-----------------------------------------------------------------------------
(* The copy.                                                               *)

BeforeOutput == {"header", "signature", "open", "exit1"}
BetweenBlocks == {"residual", "fill", "check", "end", "exit0", "exit4"}
OutInv ==
  /\ pc \in BeforeOutput => out = NoFile
  /\ pc = "fake" => out = << >>
  /\ pc \in BeforeOutput \cup {"fake"} => sha = 0 /\ wrote = 0
  /\ pc \in BetweenBlocks =>
       sha \in 0..NBlocks(Signer) /\ wrote = 0 /\ out = Start(Signer) \o Flat(Signer)[sha]
  /\ pc = "write" =>
       /\ sha \in 1..NBlocks(Signer) /\ buffer = Signer.blocks[sha] /\ wrote \in 0..Len(buffer)
       /\ out = (Start(Signer) \o Flat(Signer)[sha - 1]) \o SubSeq(buffer, 1, wrote)
  /\ pc = "exit0" => sha = NBlocks(Signer)
  /\ pc = "stopped" =>
       \/ out = NoFile
       \/ Signer \in Signings /\ comment = Comment(Signer) /\ IsPrefix(out, Archive(Signer))

(* Where block k + 1 begins and ends in the archive.                       *)
LEMMA NextBlock ==
  ASSUME NEW s \in Signings, NEW k \in 1..NBlocks(s)
  PROVE  /\ Start(s) \o Flat(s)[k] = (Start(s) \o Flat(s)[k - 1]) \o s.blocks[k]
         /\ Start(s) \o Flat(s)[k - 1] \in Seq(AllBytes) /\ s.blocks[k] \in Seq(AllBytes)
         /\ Start(s) \o Flat(s)[k] \in Seq(AllBytes)
  <1> DEFINE a == Start(s)
             b == Flat(s)[k - 1]
             c == s.blocks[k]
  <1>a. NBlocks(s) \in Nat
    BY FlatIs, Zenon
  <1>0. k - 1 \in 0..NBlocks(s) /\ k \in 0..NBlocks(s)
    BY <1>a
  <1>1. Flat(s)[k] = b \o c /\ c \in Seq(Bytes)
    BY FlatIs
  <1>2. a \in Seq(AllBytes) /\ b \in Seq(AllBytes) /\ Flat(s)[k] \in Seq(AllBytes)
    BY <1>0, ArchiveIs
  <1>3. c \in Seq(AllBytes)
    <2>1. Bytes \subseteq AllBytes
      BY DEF AllBytes
    <2> HIDE DEF c
    <2> QED BY <1>1, <2>1, SeqMonotonic
  <1> HIDE DEF a, b, c
  <1>4. (a \o b) \o c = a \o (b \o c)
    BY <1>2, <1>3, ConcatAssociative
  <1>5. a \o b \in Seq(AllBytes) /\ a \o Flat(s)[k] \in Seq(AllBytes)
    BY <1>2
  <1> QED BY <1>1, <1>3, <1>4, <1>5 DEF a, b, c

(* A part of a block is written.                                           *)
LEMMA PartWritten ==
  ASSUME NEW b \in Seq(AllBytes), NEW w \in 0..Len(b), NEW n \in 1..(Len(b) - w), NEW a \in Seq(AllBytes)
  PROVE  (a \o SubSeq(b, 1, w)) \o SubSeq(b, w + 1, w + n) = a \o SubSeq(b, 1, w + n)
  <1> DEFINE u == SubSeq(b, 1, w)
             v == SubSeq(b, w + 1, w + n)
  <1>1. u \in Seq(AllBytes) /\ v \in Seq(AllBytes)
    OBVIOUS
  <1>2. u \o v = SubSeq(b, 1, w + n)
    <2>1. 1 \in 1..(Len(b) + 1) /\ w \in (1 - 1)..Len(b) /\ w + n \in w..Len(b)
      OBVIOUS
    <2> QED BY <2>1, ConcatAdjacentSubSeq
  <1> HIDE DEF u, v
  <1>3. (a \o u) \o v = a \o (u \o v)
    BY <1>1, ConcatAssociative, SMTT(30)
  <1> QED BY <1>2, <1>3 DEF u, v

LEMMA OutIsPrefix ==
  ASSUME HeaderInv, OutInv, pc \in Copying \cup {"write"}, out # NoFile
  PROVE  Signer \in Signings /\ comment = Comment(Signer) /\ IsPrefix(out, Archive(Signer))
  <1> DEFINE s == Signer
  <1>1. s \in Signings /\ comment = Comment(s)
    <2>1. Verified
      BY DEF HeaderInv, VerifiedFirst, Copying
    <2> QED BY <2>1, SignedIs DEF Signer
  <1> HIDE DEF s
  <1>2. IsPrefix(out, Archive(s))
    <2>1. CASE pc \in BetweenBlocks
      <3>1. sha \in 0..NBlocks(s) /\ out = Start(s) \o Flat(s)[sha]
        BY <2>1 DEF OutInv, s
      <3> QED BY <1>1, <3>1, BlocksPrefix
    <2>2. CASE pc = "write"
      <3> DEFINE a == Start(s) \o Flat(s)[sha - 1]
                 u == SubSeq(buffer, 1, wrote)
                 v == SubSeq(buffer, wrote + 1, Len(buffer))
      <3>1. /\ sha \in 1..NBlocks(s) /\ buffer = s.blocks[sha] /\ wrote \in 0..Len(buffer)
            /\ out = a \o u
        BY <2>2 DEF OutInv, s
      <3>2. a \in Seq(AllBytes) /\ buffer \in Seq(AllBytes) /\ Start(s) \o Flat(s)[sha] = a \o buffer
            /\ Start(s) \o Flat(s)[sha] \in Seq(AllBytes)
        BY <1>1, <3>1, NextBlock
      <3>3. u \in Seq(AllBytes) /\ v \in Seq(AllBytes) /\ u \o v = buffer
        <4>1. u \in Seq(AllBytes) /\ v \in Seq(AllBytes)
          BY <3>1, <3>2
        <4>2. 1 \in 1..(Len(buffer) + 1) /\ wrote \in (1 - 1)..Len(buffer) /\ Len(buffer) \in wrote..Len(buffer)
          BY <3>1, <3>2
        <4>3. u \o v = SubSeq(buffer, 1, Len(buffer))
          BY <3>2, <4>2, ConcatAdjacentSubSeq
        <4>4. SubSeq(buffer, 1, Len(buffer)) = buffer
          BY <3>2
        <4> QED BY <4>1, <4>3, <4>4
      <3> HIDE DEF a, u, v
      <3>4. (a \o u) \o v = a \o (u \o v)
        <4>1. a \in Seq(AllBytes) /\ u \in Seq(AllBytes) /\ v \in Seq(AllBytes)
          BY <3>2, <3>3
        <4> QED BY <4>1, ConcatAssociative
      <3>8. out \in Seq(AllBytes) /\ a \o buffer = out \o v
        BY <3>1, <3>2, <3>3, <3>4
      <3>5. out \in Seq(AllBytes) /\ IsPrefix(out, a \o buffer)
        BY <3>3, <3>8, PrefixIs
      <3>6. sha \in 0..NBlocks(s)
        BY <1>1, <3>1, FlatIs
      <3>7. IsPrefix(a \o buffer, Archive(s)) /\ a \o buffer \in Seq(AllBytes)
        BY <1>1, <3>2, <3>6, BlocksPrefix
      <3> QED BY <1>1, <3>5, <3>7, ArchiveInSeq, PrefixTransitive
    <2>3. CASE pc = "fake"
      <3>1. out = << >>
        BY <2>3 DEF OutInv
      <3>2. Archive(s) \in Seq(AllBytes) /\ << >> \o Archive(s) = Archive(s) /\ << >> \in Seq(AllBytes)
        BY <1>1, ArchiveInSeq
      <3> QED BY <3>1, <3>2, PrefixIs
    <2>4. pc # "open"
      BY DEF OutInv, BeforeOutput
    <2> QED BY <2>1, <2>2, <2>3, <2>4 DEF Copying, BetweenBlocks
  <1> QED BY <1>1, <1>2 DEF s

LEMMA OutInit == Init => OutInv
  BY DEF Init, OutInv, BeforeOutput, BetweenBlocks

LEMMA OutNext == HeaderInv /\ OutInv /\ [Next]_vars => OutInv'
  <1> SUFFICES ASSUME HeaderInv, OutInv, [Next]_vars PROVE OutInv'
    OBVIOUS
  <1> DEFINE s == Signer
             N == NBlocks(s)
  <1>0. pc \in Copying \cup {"write"} =>
          /\ s \in Signings /\ comment = Comment(s) /\ N \in Nat
          /\ Len(Hashes) = N /\ \A k \in 1..N : Hashes[k] = Hash(s.blocks[k])
    <2> SUFFICES ASSUME pc \in Copying \cup {"write"}
                 PROVE  /\ s \in Signings /\ comment = Comment(s) /\ N \in Nat
                        /\ Len(Hashes) = N /\ \A k \in 1..N : Hashes[k] = Hash(s.blocks[k])
      OBVIOUS
    <2>1. Verified
      BY DEF HeaderInv, VerifiedFirst, Copying
    <2>2. /\ s \in Signings /\ comment = Comment(s)
          /\ Len(Hashes) = Len(s.blocks) /\ \A k \in 1..Len(Hashes) : Hashes[k] = Hash(s.blocks[k])
      BY <2>1, SignedIs DEF Signer
    <2>3. N \in Nat /\ N = Len(s.blocks)
      BY <2>2, FlatIs
    <2> QED BY <2>2, <2>3
  <1>a. UNCHANGED header => Signer' = Signer
    BY DEF header, Signer
  <1>1. CASE ReadHeader
    <2>1. pc = "header" /\ pc' \in {"header", "exit1", "signature"}
      BY <1>1 DEF ReadHeader
    <2>2. UNCHANGED <<sha, wrote, out>>
      BY <1>1 DEF ReadHeader, copying
    <2> QED BY <2>1, <2>2 DEF OutInv, BeforeOutput, BetweenBlocks
  <1>2. CASE HeaderTruncated \/ VerifySignature \/ OpenOut
    BY <1>2 DEF HeaderTruncated, VerifySignature, OpenOut, Exit, copying, OutInv, BeforeOutput, BetweenBlocks
  <1>3. CASE WriteHeader
    <2>1. /\ pc = "fake" /\ pc' = "residual" /\ UNCHANGED <<sha, wrote>> /\ UNCHANGED header
          /\ out' = (FixedHeader({"COMMENT"}) \o comment) \o <<Nul>>
      BY <1>3 DEF WriteHeader
    <2>2. s \in Signings /\ comment = Comment(s) /\ sha = 0 /\ wrote = 0 /\ N \in Nat
      BY <1>0, <2>1 DEF Copying, OutInv
    <2>3. out' = Start(s)
      BY <2>1, <2>2, Zenon DEF Start
    <2>4. Start(s) \o Flat(s)[0] = Start(s)
      <3>1. Flat(s)[0] = << >>
        BY <2>2, FlatIs
      <3>2. Start(s) \in Seq(AllBytes)
        BY <2>2, ArchiveIs
      <3> QED BY <3>1, <3>2
    <2>5. /\ sha' \in 0..NBlocks(Signer') /\ wrote' = 0 /\ out' = Start(Signer') \o Flat(Signer')[sha']
      BY <1>a, <2>1, <2>2, <2>3, <2>4, SMTT(30)
    <2> QED BY <2>1, <2>5 DEF OutInv, BeforeOutput, BetweenBlocks
  <1>4. CASE TakeResidual \/ Fill \/ Filled \/ End
    <2>1. /\ pc \in {"residual", "fill", "end"} /\ pc' \in {"fill", "check", "end", "exit0", "exit4"}
          /\ UNCHANGED header /\ UNCHANGED <<sha, wrote, out>>
      BY <1>4 DEF TakeResidual, Fill, Filled, End, Exit, copying
    <2>2. pc' = "exit0" => sha = N
      <3> SUFFICES ASSUME pc' = "exit0" PROVE sha = N
        OBVIOUS
      <3>1. End
        BY <1>4 DEF TakeResidual, Fill, Filled
      <3>2. pc = "end" /\ sha = Len(Hashes)
        BY <3>1 DEF End, Exit
      <3> QED BY <1>0, <3>2 DEF Copying
    <2>3. sha \in 0..N /\ wrote = 0 /\ out = Start(s) \o Flat(s)[sha]
      BY <2>1 DEF OutInv, BetweenBlocks
    <2>4. /\ sha' \in 0..NBlocks(Signer') /\ wrote' = 0 /\ out' = Start(Signer') \o Flat(Signer')[sha']
          /\ pc' = "exit0" => sha' = NBlocks(Signer')
      BY <1>a, <2>1, <2>2, <2>3
    <2> QED BY <2>1, <2>4 DEF OutInv, BeforeOutput, BetweenBlocks
  <1>5. CASE Check
    <2>1. pc = "check" /\ UNCHANGED header /\ UNCHANGED <<wrote, out, buffer>>
      BY <1>5 DEF Check, Exit, copying
    <2>2. /\ s \in Signings /\ comment = Comment(s) /\ N \in Nat
          /\ Len(Hashes) = N /\ \A k \in 1..N : Hashes[k] = Hash(s.blocks[k])
      BY <1>0, <2>1 DEF Copying
    <2>3. sha \in 0..N /\ wrote = 0 /\ out = Start(s) \o Flat(s)[sha]
      BY <2>1 DEF OutInv, BetweenBlocks
    <2>4. CASE pc' = "write"
      <3>1. sha < Len(Hashes) /\ Hashes[sha + 1] = Hash(buffer) /\ sha' = sha + 1
        BY <1>5, <2>4 DEF Check, Exit
      <3>2. sha + 1 \in 1..N /\ (sha + 1) - 1 = sha
        BY <2>2, <2>3, <3>1
      <3>3. Hash(buffer) = Hash(s.blocks[sha + 1])
        BY <2>2, <3>1, <3>2
      <3>4. buffer = s.blocks[sha + 1]
        BY <3>3 DEF Hash
      <3>5. out = (Start(s) \o Flat(s)[sha]) \o SubSeq(buffer, 1, 0) /\ Len(buffer) \in Nat
        <4> DEFINE a == Start(s) \o Flat(s)[sha]
        <4>1. a \in Seq(AllBytes)
          BY <2>2, <3>2, NextBlock
        <4>2. buffer \in Seq(Bytes)
          BY DEF HeaderInv, HeaderType
        <4>3. SubSeq(buffer, 1, 0) = << >>
          BY <4>2
        <4> HIDE DEF a
        <4>4. a \o << >> = a
          BY <4>1
        <4> QED BY <2>3, <4>2, <4>3, <4>4 DEF a
      <3>6. /\ sha' \in 1..NBlocks(Signer') /\ buffer' = Signer'.blocks[sha'] /\ wrote' \in 0..Len(buffer')
            /\ out' = (Start(Signer') \o Flat(Signer')[sha' - 1]) \o SubSeq(buffer', 1, wrote')
        BY <1>a, <2>1, <2>3, <3>1, <3>2, <3>4, <3>5
      <3> QED BY <2>4, <3>6 DEF OutInv, BeforeOutput, BetweenBlocks
    <2>5. CASE pc' # "write"
      <3>1. pc' = "exit4" /\ sha' = sha
        BY <1>5, <2>5 DEF Check, Exit, copying
      <3>2. sha' \in 0..NBlocks(Signer') /\ wrote' = 0 /\ out' = Start(Signer') \o Flat(Signer')[sha']
        BY <1>a, <2>1, <2>3, <3>1
      <3> QED BY <3>1, <3>2 DEF OutInv, BeforeOutput, BetweenBlocks
    <2> QED BY <2>4, <2>5
  <1>6. CASE Write \/ Written
    <2>1. pc = "write" /\ UNCHANGED header /\ UNCHANGED <<sha, buffer>>
      BY <1>6 DEF Write, Written
    <2>2. s \in Signings /\ N \in Nat
      BY <1>0, <2>1
    <2> DEFINE a == Start(s) \o Flat(s)[sha - 1]
    <2>3. /\ sha \in 1..N /\ buffer = s.blocks[sha] /\ wrote \in 0..Len(buffer)
          /\ out = a \o SubSeq(buffer, 1, wrote)
      BY <2>1 DEF OutInv
    <2>4. a \in Seq(AllBytes) /\ buffer \in Seq(AllBytes) /\ Start(s) \o Flat(s)[sha] = a \o buffer
      BY <2>2, <2>3, NextBlock
    <2>5. CASE Write
      <3>1. PICK n \in 1..(Len(buffer) - wrote) :
              out' = out \o SubSeq(buffer, wrote + 1, wrote + n) /\ wrote' = wrote + n /\ pc' = pc
        BY <2>5 DEF Write
      <3> HIDE DEF a
      <3>2. out' = a \o SubSeq(buffer, 1, wrote + n)
        BY <2>3, <2>4, <3>1, PartWritten
      <3>3. wrote + n \in 0..Len(buffer)
        BY <2>3, <2>4, <3>1
      <3>4. /\ sha' \in 1..NBlocks(Signer') /\ buffer' = Signer'.blocks[sha'] /\ wrote' \in 0..Len(buffer')
            /\ out' = (Start(Signer') \o Flat(Signer')[sha' - 1]) \o SubSeq(buffer', 1, wrote')
        BY <1>a, <2>1, <2>3, <3>1, <3>2, <3>3 DEF a
      <3> QED BY <2>1, <3>1, <3>4 DEF OutInv, BeforeOutput, BetweenBlocks
    <2>6. CASE Written
      <3>1. wrote = Len(buffer) /\ pc' \in {"end", "residual"} /\ wrote' = 0 /\ out' = out
        BY <2>6 DEF Written
      <3> HIDE DEF a
      <3>2. SubSeq(buffer, 1, Len(buffer)) = buffer
        BY <2>4
      <3>3. out = Start(s) \o Flat(s)[sha]
        BY <2>3, <2>4, <3>1, <3>2
      <3>4. sha \in 0..N
        BY <2>2, <2>3
      <3>5. sha' \in 0..NBlocks(Signer') /\ wrote' = 0 /\ out' = Start(Signer') \o Flat(Signer')[sha']
        BY <1>a, <2>1, <3>1, <3>3, <3>4
      <3> QED BY <3>1, <3>5 DEF OutInv, BeforeOutput, BetweenBlocks
    <2> QED BY <1>6, <2>5, <2>6
  <1>7. CASE Stop
    <2>1. pc \notin Exits /\ pc' = "stopped" /\ UNCHANGED header /\ UNCHANGED <<sha, wrote, out>> /\ comment' = comment
      BY <1>7 DEF Stop, Exit, copying, header
    <2>2. \/ out = NoFile
          \/ Signer \in Signings /\ comment = Comment(Signer) /\ IsPrefix(out, Archive(Signer))
      <3>1. CASE pc \in BeforeOutput
        BY <3>1 DEF OutInv
      <3>2. CASE pc \notin BeforeOutput
        <4>1. pc \in Copying \cup {"write"}
          BY <2>1, <3>2 DEF HeaderInv, HeaderType, Places, Copying, BeforeOutput
        <4> QED BY <4>1, OutIsPrefix
      <3> QED BY <3>1, <3>2
    <2>3. \/ out' = NoFile
          \/ Signer' \in Signings /\ comment' = Comment(Signer') /\ IsPrefix(out', Archive(Signer'))
      BY <1>a, <2>1, <2>2
    <2> QED BY <2>1, <2>3 DEF OutInv, BeforeOutput, BetweenBlocks
  <1>8. CASE UNCHANGED vars
    <2>1. UNCHANGED <<pc, sha, wrote, out, buffer, comment>> /\ UNCHANGED header
      BY <1>8 DEF vars, header
    <2> QED BY <1>a, <2>1 DEF OutInv
  <1> QED
    BY <1>1, <1>2, <1>3, <1>4, <1>5, <1>6, <1>7, <1>8 DEF Next, Step, Done

(* What is accepted is the archive of the signing that the comment is of.  *)
LEMMA AcceptedIs ==
  HeaderInv /\ OutInv /\ pc = "exit0" =>
    Signer \in Signings /\ comment = Comment(Signer) /\ out = Archive(Signer)
  <1> SUFFICES ASSUME HeaderInv, OutInv, pc = "exit0"
               PROVE  Signer \in Signings /\ comment = Comment(Signer) /\ out = Archive(Signer)
    OBVIOUS
  <1>1. Verified
    BY DEF HeaderInv, VerifiedFirst, Copying
  <1>2. Signer \in Signings /\ comment = Comment(Signer)
    BY <1>1, SignedIs DEF Signer
  <1>3. out = Start(Signer) \o Flat(Signer)[NBlocks(Signer)]
    BY DEF OutInv, BetweenBlocks
  <1>4. Archive(Signer) = Start(Signer) \o Flat(Signer)[NBlocks(Signer)]
    BY <1>2, ArchiveIs
  <1> QED BY <1>2, <1>3, <1>4

(* What is in the output file is always the beginning of an archive whose  *)
(* owner signed it, and with an exit with 0 all of it (copy_blocks).       *)
THEOREM OutputAlwaysSigned == Spec => []OutputIsSigned
  <1>1. HeaderInv /\ OutInv => OutputIsSigned
    <2> SUFFICES ASSUME HeaderInv, OutInv PROVE OutputIsSigned
      OBVIOUS
    <2>1. ASSUME out # NoFile
          PROVE  Signer \in Signings /\ comment = Comment(Signer) /\ IsPrefix(out, Archive(Signer))
      <3>1. CASE pc = "stopped"
        BY <2>1, <3>1 DEF OutInv
      <3>2. CASE pc # "stopped"
        <4>1. pc \notin BeforeOutput
          BY <2>1 DEF OutInv
        <4>2. pc \in Copying \cup {"write"}
          BY <3>2, <4>1 DEF HeaderInv, HeaderType, Places, Exits, Copying, BeforeOutput
        <4> QED BY <2>1, <4>2, OutIsPrefix
      <3> QED BY <3>1, <3>2
    <2>2. ASSUME pc = "exit0"
          PROVE  Signer \in Signings /\ comment = Comment(Signer) /\ out = Archive(Signer)
      BY <2>2, AcceptedIs
    <2> QED BY <2>1, <2>2, Zenon DEF OutputIsSigned
  <1> QED BY <1>1, HeaderInit, HeaderNext, OutInit, OutNext, PTL DEF Spec

-----------------------------------------------------------------------------
(* A genuine archive.                                                      *)

Genuine(s) ==
  \E h \in {FixedHeader({"COMMENT"}), FixedHeader({"NAME", "COMMENT"}) \o <<Name, Nul>>} : stream = h \o Signed(s)

(* The stream begins with head, whose first m bytes end with the name.     *)
Opening(s, head, m) ==
  /\ head \in Seq(AllBytes) /\ stream = head \o Flat(s)[NBlocks(s)]
  /\ m \in Nat /\ m >= HeaderLen /\ Len(head) = m + Len(Comment(s)) + 1
  /\ stream[1] = Magic /\ stream[2] \in {FlagByte({"COMMENT"}), FlagByte({"NAME", "COMMENT"})}
  /\ IF HasName(stream)
       THEN m = HeaderLen + 2 /\ stream[HeaderLen + 1] # Nul /\ stream[HeaderLen + 2] = Nul
       ELSE m = HeaderLen
  /\ HasComment(stream)
  /\ \A j \in 1..Len(Comment(s)) : stream[m + j] = Comment(s)[j] /\ stream[m + j] # Nul
  /\ stream[Len(head)] = Nul

LEMMA CommentText ==
  ASSUME NEW s \in Signings
  PROVE  /\ Comment(s) \in Seq(AllBytes) /\ Len(Comment(s)) \in Nat
         /\ \A j \in 1..Len(Comment(s)) : Comment(s)[j] # Nul
  <1>1. Comment(s) \in Seq(AllBytes) /\ Len(Comment(s)) \in Nat
    BY CommentIs
  <1> DEFINE C == Comment(s)
  <1>2. Nul \notin Range(C)
    BY ZVerifyAssumption
  <1>3. DOMAIN C = 1..Len(C)
    BY <1>1
  <1> HIDE DEF C
  <1>4. \A j \in 1..Len(C) : C[j] # Nul
    BY <1>2, <1>3 DEF Range
  <1> QED BY <1>1, <1>4 DEF C

LEMMA GenuineOpening ==
  ASSUME NEW s \in Signings, Genuine(s)
  PROVE  \E head, m : Opening(s, head, m)
  <1> DEFINE C == Comment(s)
             F == Flat(s)[NBlocks(s)]
  <1>1. PICK h \in {FixedHeader({"COMMENT"}), FixedHeader({"NAME", "COMMENT"}) \o <<Name, Nul>>} :
          stream = h \o ((C \o <<Nul>>) \o F)
    BY FlatIs DEF Genuine, Signed
  <1>2. C \in Seq(AllBytes) /\ Len(C) \in Nat /\ \A j \in 1..Len(C) : C[j] # Nul
    BY CommentText
  <1>3. F \in Seq(AllBytes)
    <2>1. NBlocks(s) \in Nat
      BY FlatIs, Zenon
    <2>2. NBlocks(s) \in 0..NBlocks(s)
      BY <2>1
    <2>3. \A k \in 0..NBlocks(s) : Flat(s)[k] \in Seq(AllBytes)
      BY ArchiveIs, Zenon
    <2> QED BY <2>2, <2>3, Zenon
  <1>4. Nul \in AllBytes /\ Name \in AllBytes /\ Name # Nul /\ HeaderLen \in Nat /\ HeaderLen >= 2
        /\ FlagByte({"COMMENT"}) \in AllBytes /\ FlagByte({"NAME", "COMMENT"}) \in AllBytes
    BY ZVerifyAssumption, HeaderAssumption DEF AllBytes
  <1>5. /\ h \in Seq(AllBytes) /\ Len(h) \in {HeaderLen, HeaderLen + 2} /\ Len(h) \in Nat
        /\ h[1] = Magic
        /\ Len(h) = HeaderLen => h[2] = FlagByte({"COMMENT"})
        /\ Len(h) = HeaderLen + 2 =>
             h[2] = FlagByte({"NAME", "COMMENT"}) /\ h[HeaderLen + 1] = Name /\ h[HeaderLen + 2] = Nul
    <2>1. CASE h = FixedHeader({"COMMENT"})
      BY <1>4, <2>1, FixedHeaderIs
    <2>2. CASE h = FixedHeader({"NAME", "COMMENT"}) \o <<Name, Nul>>
      <3> DEFINE f == FixedHeader({"NAME", "COMMENT"})
                 n == <<Name, Nul>>
      <3>1. f \in Seq(AllBytes) /\ Len(f) = HeaderLen /\ f[1] = Magic /\ f[2] = FlagByte({"NAME", "COMMENT"})
        BY <1>4, FixedHeaderIs
      <3>2. n \in Seq(AllBytes) /\ Len(n) = 2 /\ n[1] = Name /\ n[2] = Nul
        BY <1>4
      <3> HIDE DEF f, n
      <3>3. /\ f \o n \in Seq(AllBytes) /\ Len(f \o n) = HeaderLen + 2
            /\ (f \o n)[1] = Magic /\ (f \o n)[2] = FlagByte({"NAME", "COMMENT"})
            /\ (f \o n)[HeaderLen + 1] = Name /\ (f \o n)[HeaderLen + 2] = Nul
        <4>1. /\ f \o n \in Seq(AllBytes) /\ Len(f \o n) = Len(f) + Len(n)
              /\ \A i \in 1..Len(f) : (f \o n)[i] = f[i]
              /\ \A i \in 1..Len(n) : (f \o n)[Len(f) + i] = n[i]
          <5>1. f \in Seq(AllBytes) /\ n \in Seq(AllBytes)
            BY <3>1, <3>2
          <5> QED BY <5>1, ConcatParts
        <4>2. 1 \in 1..Len(f) /\ 2 \in 1..Len(f)
          BY <1>4, <3>1
        <4>3. 1 \in 1..Len(n) /\ 2 \in 1..Len(n)
          BY <3>2
        <4> QED BY <3>1, <3>2, <4>1, <4>2, <4>3
      <3>4. h = f \o n
        BY <2>2 DEF f, n
      <3> QED BY <1>4, <3>3, <3>4
    <2> QED BY <2>1, <2>2
  <1> DEFINE z == <<Nul>>
             hc == h \o C
             head == hc \o z
             m == Len(h)
  <1>6. z \in Seq(AllBytes) /\ Len(z) = 1 /\ z[1] = Nul
    BY <1>4
  <1>7. stream = head \o F
    <2> HIDE DEF C, F, z
    <2>1. stream = h \o ((C \o z) \o F)
      BY <1>1 DEF z
    <2>2. C \o z \in Seq(AllBytes)
      BY <1>2, <1>6
    <2>3. h \o ((C \o z) \o F) = (h \o (C \o z)) \o F
      <3>1. h \in Seq(AllBytes)
        BY <1>5
      <3> QED BY <1>3, <2>2, <3>1, ConcatAssociative, SMTT(30)
    <2>4. h \o (C \o z) = (h \o C) \o z
      <3>1. h \in Seq(AllBytes) /\ C \in Seq(AllBytes) /\ z \in Seq(AllBytes)
        BY <1>2, <1>5, <1>6
      <3> QED BY <3>1, ConcatAssociative, SMTT(30)
    <2> QED BY <2>1, <2>3, <2>4
  <1> HIDE DEF z, C, F
  <1>8. /\ hc \in Seq(AllBytes) /\ Len(hc) = m + Len(C)
        /\ \A i \in 1..m : hc[i] = h[i]
        /\ \A j \in 1..Len(C) : hc[m + j] = C[j]
    BY <1>2, <1>5
  <1> HIDE DEF hc
  <1>9. /\ head \in Seq(AllBytes) /\ Len(head) = m + Len(C) + 1
        /\ \A i \in 1..(m + Len(C)) : head[i] = hc[i]
        /\ head[m + Len(C) + 1] = Nul
    <2>1. m + Len(C) \in Nat
      BY <1>2, <1>5
    <2>2. /\ hc \o z \in Seq(AllBytes) /\ Len(hc \o z) = Len(hc) + Len(z)
          /\ \A i \in 1..Len(hc) : (hc \o z)[i] = hc[i]
          /\ \A i \in 1..Len(z) : (hc \o z)[Len(hc) + i] = z[i]
      BY <1>6, <1>8, ConcatParts
    <2> QED BY <1>6, <1>8, <2>1, <2>2
  <1> HIDE DEF head
  <1>10. \A i \in 1..Len(head) : stream[i] = head[i]
    BY <1>3, <1>7, <1>9
  <1> DEFINE L == Len(C)
  <1>11. /\ L \in Nat /\ m \in Nat /\ m >= HeaderLen
         /\ \A i \in 1..m : stream[i] = h[i]
         /\ \A j \in 1..L : stream[m + j] = C[j]
         /\ stream[Len(head)] = Nul
    <2> HIDE DEF m, L
    <2>0. L \in Nat /\ m \in Nat /\ m >= HeaderLen /\ Len(head) = m + L + 1
      BY <1>2, <1>4, <1>5, <1>9 DEF m, L
    <2>1. ASSUME NEW i \in 1..m PROVE stream[i] = h[i]
      <3>1. i \in 1..(m + L) /\ i \in 1..Len(head)
        BY <2>0
      <3> QED BY <1>8, <1>9, <1>10, <3>1 DEF m, L
    <2>2. ASSUME NEW j \in 1..L PROVE stream[m + j] = C[j]
      <3>1. m + j \in 1..(m + L) /\ m + j \in 1..Len(head)
        BY <2>0
      <3> QED BY <1>8, <1>9, <1>10, <3>1 DEF m, L
    <2>3. Len(head) \in 1..Len(head)
      BY <2>0
    <2> QED BY <1>9, <1>10, <2>0, <2>1, <2>2, <2>3 DEF m, L
  <1>12. /\ stream[1] = Magic
         /\ m = HeaderLen => stream[2] = FlagByte({"COMMENT"})
         /\ m = HeaderLen + 2 =>
              stream[2] = FlagByte({"NAME", "COMMENT"}) /\ stream[HeaderLen + 1] = Name /\ stream[HeaderLen + 2] = Nul
    <2>1. 1 \in 1..m /\ 2 \in 1..m /\ (m = HeaderLen + 2 => HeaderLen + 1 \in 1..m /\ HeaderLen + 2 \in 1..m)
      BY <1>4, <1>11
    <2> QED BY <1>5, <1>11, <2>1
  <1> HIDE DEF m, L
  <1>13. (HasName(stream) <=> m = HeaderLen + 2) /\ HasComment(stream)
    <2>1. m \in {HeaderLen, HeaderLen + 2} /\ HeaderLen # HeaderLen + 2
      BY <1>4, <1>5 DEF m
    <2> QED BY <1>12, <2>1 DEF HasName, HasComment, FlagByte
  <1>14. Opening(s, head, m)
    <2>1. m \in {HeaderLen, HeaderLen + 2}
      BY <1>5 DEF m
    <2>2. head \in Seq(AllBytes) /\ stream = head \o F /\ Len(head) = m + Len(C) + 1
      BY <1>7, <1>9 DEF m
    <2>3. stream[2] \in {FlagByte({"COMMENT"}), FlagByte({"NAME", "COMMENT"})}
      BY <1>12, <2>1
    <2>4. \A j \in 1..Len(C) : stream[m + j] = C[j] /\ stream[m + j] # Nul
      BY <1>2, <1>11 DEF L
    <2>5. IF HasName(stream)
            THEN m = HeaderLen + 2 /\ stream[HeaderLen + 1] # Nul /\ stream[HeaderLen + 2] = Nul
            ELSE m = HeaderLen
      BY <1>4, <1>12, <1>13, <2>1
    <2> QED BY <1>11, <1>12, <1>13, <2>2, <2>3, <2>4, <2>5 DEF Opening, C, F
  <1> QED BY <1>14

LEMMA ParserMeets ==
  ASSUME NEW s \in Signings, NEW head, NEW m, Opening(s, head, m),
         NEW b, Len(b) \in Nat, Len(b) >= HeaderLen, \A k \in 1..Len(b) : b[k] = stream[k],
         NEW p, NEW from
  PROVE  /\ ~ BadHeader(b) /\ HasComment(b)
         /\ After(b, 3, p, from) => from = m /\ p = Len(head)
         /\ \A st \in {1, 2} : After(b, st, p, from) => Len(b) < Len(head)
  <1> DEFINE L == Len(Comment(s))
             e == Len(head)
  <1>0. HeaderLen \in Nat /\ HeaderLen >= 2 /\ L \in Nat /\ m \in Nat /\ m >= HeaderLen /\ e = m + L + 1
    BY HeaderAssumption, CommentText DEF Opening
  <1>1. b[1] = stream[1] /\ b[2] = stream[2]
    <2>1. 1 \in 1..Len(b) /\ 2 \in 1..Len(b)
      BY <1>0
    <2> QED BY <2>1
  <1>2. /\ stream[1] = Magic /\ stream[2] \in {FlagByte({"COMMENT"}), FlagByte({"NAME", "COMMENT"})}
        /\ HasComment(stream)
    BY DEF Opening
  <1>3. ~ BadHeader(b) /\ HasComment(b) /\ (HasName(b) <=> HasName(stream))
    BY <1>1, <1>2 DEF BadHeader, HasComment, HasName
  <1>4. /\ HasName(stream) => m = HeaderLen + 2 /\ stream[HeaderLen + 1] # Nul /\ stream[HeaderLen + 2] = Nul
        /\ ~ HasName(stream) => m = HeaderLen
    BY DEF Opening
  <1>5. (\A j \in 1..L : stream[m + j] # Nul) /\ stream[e] = Nul
    BY DEF Opening
  <1> HIDE DEF L, e
  <1>6. ASSUME NEW q, NameEnd(b, q) PROVE q = m
    <2>1. CASE HasName(b)
      <3>1. q \in (HeaderLen + 1)..Len(b) /\ b[q] = Nul /\ \A k \in (HeaderLen + 1)..(q - 1) : b[k] # Nul
        BY <1>6, <2>1 DEF NameEnd, FirstNul
      <3>2. m = HeaderLen + 2 /\ stream[HeaderLen + 1] # Nul /\ stream[HeaderLen + 2] = Nul
        BY <1>3, <1>4, <2>1
      <3>3. q # HeaderLen + 1
        BY <1>0, <3>1, <3>2
      <3>4. ~ (q > HeaderLen + 2)
        BY <1>0, <3>1, <3>2
      <3> QED BY <1>0, <3>1, <3>2, <3>3, <3>4
    <2>2. CASE ~ HasName(b)
      BY <1>3, <1>4, <1>6, <2>2 DEF NameEnd
    <2> QED BY <2>1, <2>2
  <1>7. ASSUME NEW q, CommentEnd(b, m, q) PROVE q = e
    <2>1. q \in (m + 1)..Len(b) /\ b[q] = Nul /\ \A k \in (m + 1)..(q - 1) : b[k] # Nul
      BY <1>3, <1>7 DEF CommentEnd, FirstNul
    <2>2. ~ (q < e)
      <3> SUFFICES ASSUME q < e PROVE FALSE
        OBVIOUS
      <3>1. q - m \in 1..L /\ m + (q - m) = q /\ q \in 1..Len(b)
        BY <1>0, <2>1
      <3> QED BY <1>5, <2>1, <3>1
    <2>3. ~ (q > e)
      <3> SUFFICES ASSUME q > e PROVE FALSE
        OBVIOUS
      <3>1. e \in (m + 1)..(q - 1) /\ e \in 1..Len(b)
        BY <1>0, <2>1
      <3> QED BY <1>5, <2>1, <3>1
    <2> QED BY <1>0, <2>1, <2>2, <2>3
  <1>8. After(b, 3, p, from) => from = m /\ p = e
    BY <1>6, <1>7 DEF After
  <1>9. After(b, 1, p, from) => Len(b) < e
    <2> SUFFICES ASSUME HasName(b), NoNul(b, HeaderLen), Len(b) >= e PROVE FALSE
      BY <1>0 DEF After
    <2>1. HeaderLen + 2 \in (HeaderLen + 1)..Len(b) /\ HeaderLen + 2 \in 1..Len(b)
      BY <1>0, <1>3, <1>4
    <2> QED BY <1>3, <1>4, <2>1 DEF NoNul
  <1>10. After(b, 2, p, from) => Len(b) < e
    <2> SUFFICES ASSUME NameEnd(b, p), NoNul(b, p), Len(b) >= e PROVE FALSE
      BY <1>0 DEF After
    <2>1. p = m
      BY <1>6
    <2>2. e \in (m + 1)..Len(b) /\ e \in 1..Len(b)
      BY <1>0
    <2> QED BY <1>5, <2>1, <2>2 DEF NoNul
  <1> QED BY <1>3, <1>8, <1>9, <1>10 DEF e

LEMMA GenuineHeader ==
  ASSUME HeaderInv, state = 3, NEW s \in Signings, NEW head, NEW m, Opening(s, head, m)
  PROVE  pos = Len(head) /\ comment = Comment(s) /\ HasComment(hbuf)
  <1>1. PICK from \in Nat : After(hbuf, 3, pos, from) /\ comment = SubSeq(hbuf, from + 1, pos - 1)
    BY DEF HeaderInv, Place
  <1>2. /\ Len(hbuf) >= HeaderLen /\ hbuf \in Seq(Bytes) /\ stream \in Seq(Bytes) /\ Len(hbuf) \in Nat
        /\ Len(stream) \in Nat /\ Len(hbuf) <= Len(stream) /\ hbuf = SubSeq(stream, 1, Len(hbuf)) /\ pos \in 0..Len(hbuf)
    BY DEF HeaderInv, HeaderType, Place
  <1> DEFINE n == Len(hbuf)
             C == Comment(s)
  <1>3. \A k \in 1..n : hbuf[k] = stream[k]
    <2>1. \A k \in 1..n : SubSeq(stream, 1, n)[k] = stream[k]
      BY <1>2
    <2> QED BY <1>2, <2>1
  <1>4. from = m /\ pos = Len(head) /\ HasComment(hbuf)
    BY <1>1, <1>2, <1>3, ParserMeets
  <1>5. C \in Seq(AllBytes) /\ Len(C) \in Nat
    BY CommentText
  <1>6. m \in Nat /\ pos = m + Len(C) + 1 /\ \A j \in 1..Len(C) : stream[m + j] = C[j]
    BY <1>4 DEF Opening
  <1> HIDE DEF C
  <1>7. comment \in Seq(Bytes) /\ Len(comment) = Len(C) /\ \A j \in 1..Len(comment) : comment[j] = hbuf[m + j]
    <2> DEFINE l == pos - 1
    <2>a. comment = SubSeq(hbuf, m + 1, l)
      BY <1>1, <1>4
    <2>b. l = m + Len(C) /\ m \in Nat /\ l <= Len(hbuf)
      BY <1>2, <1>5, <1>6
    <2>1. comment = SubSeq(hbuf, m + 1, l) /\ l = m + Len(C) /\ m \in Nat /\ l <= Len(hbuf)
      BY <2>a, <2>b
    <2> HIDE DEF l
    <2>2. SubSeq(hbuf, m + 1, l) \in Seq(Bytes) /\ Len(SubSeq(hbuf, m + 1, l)) = Len(C)
          /\ \A j \in 1..Len(C) : SubSeq(hbuf, m + 1, l)[j] = hbuf[m + j]
      BY <1>2, <1>5, <2>1
    <2> QED BY <2>1, <2>2
  <1>8. \A j \in 1..Len(comment) : comment[j] = C[j]
    <2> SUFFICES ASSUME NEW j \in 1..Len(comment) PROVE comment[j] = C[j]
      OBVIOUS
    <2>1. m + j \in 1..n /\ j \in 1..Len(C)
      BY <1>2, <1>5, <1>6, <1>7
    <2> QED BY <1>3, <1>6, <1>7, <2>1
  <1>9. comment = C
    BY <1>5, <1>7, <1>8, SeqEqual
  <1> QED BY <1>4, <1>9 DEF C

(* Where the first k blocks end in the stream.                             *)
Base(s, k) == Len(stream) - Len(Flat(s)[NBlocks(s)]) + Len(Flat(s)[k])

LEMMA Associates ==
  \A a, b, c \in Seq(AllBytes) : a \o (b \o c) = (a \o b) \o c
  BY ConcatAssociative, SMTT(30)

LEMMA MiddleOf ==
  ASSUME NEW T, NEW a \in Seq(T), NEW b \in Seq(T), NEW c \in Seq(T)
  PROVE  SubSeq((a \o b) \o c, Len(a) + 1, Len(a) + Len(b)) = b
  <1> DEFINE ab == a \o b
             t == ab \o c
             u == SubSeq(t, Len(a) + 1, Len(a) + Len(b))
  <1>1. /\ ab \in Seq(T) /\ Len(ab) = Len(a) + Len(b) /\ \A i \in 1..Len(b) : ab[Len(a) + i] = b[i]
    BY ConcatParts
  <1> HIDE DEF ab
  <1>2. t \in Seq(T) /\ Len(t) = Len(ab) + Len(c) /\ \A i \in 1..Len(ab) : t[i] = ab[i]
    <2>1. ab \in Seq(T)
      BY <1>1
    <2> QED BY <2>1, ConcatParts
  <1> HIDE DEF t
  <1>3. Len(a) \in Nat /\ Len(b) \in Nat /\ Len(c) \in Nat
    OBVIOUS
  <1>4. \A i \in 1..Len(b) : t[Len(a) + i] = b[i]
    <2> SUFFICES ASSUME NEW i \in 1..Len(b) PROVE t[Len(a) + i] = b[i]
      OBVIOUS
    <2>1. Len(a) + i \in 1..Len(ab)
      BY <1>1, <1>3
    <2> QED BY <1>1, <1>2, <2>1
  <1>5. u \in Seq(T) /\ Len(u) = Len(b) /\ \A i \in 1..Len(u) : u[i] = t[Len(a) + i]
    BY <1>1, <1>2, <1>3
  <1> HIDE DEF u
  <1>6. u = b
    BY <1>4, <1>5, SeqEqual
  <1> QED BY <1>6 DEF u, t, ab

LEMMA Lengths ==
  ASSUME NEW s \in Signings
  PROVE  /\ NBlocks(s) \in Nat /\ s.size \in Nat \ {0}
         /\ \A k \in 0..NBlocks(s) : Len(Flat(s)[k]) \in Nat /\ Len(Flat(s)[k]) <= Len(Flat(s)[NBlocks(s)])
         /\ Len(Flat(s)[0]) = 0
         /\ \A k \in 1..NBlocks(s) :
              /\ Len(s.blocks[k]) \in 1..s.size /\ (k < NBlocks(s) => Len(s.blocks[k]) = s.size)
              /\ Len(Flat(s)[k]) = Len(Flat(s)[k - 1]) + Len(s.blocks[k])
         /\ \A k \in 0..NBlocks(s) : k # NBlocks(s) => Len(Flat(s)[k]) < Len(Flat(s)[NBlocks(s)])
  <1> DEFINE n == NBlocks(s)
             flat == Flat(s)
             blocks == s.blocks
  <1>1. /\ n \in Nat /\ n = Len(blocks) /\ blocks \in Seq(Seq(Bytes)) /\ Joins(flat, blocks, n)
    BY FlatIs, Zenon
  <1>2. /\ s.size \in Nat \ {0}
        /\ \A k \in 1..n : Len(blocks[k]) \in 1..s.size /\ (k < n => Len(blocks[k]) = s.size)
    BY <1>1, ZVerifyAssumption
  <1> HIDE DEF n, flat, blocks
  <1>3. \A k \in 0..n : flat[k] \in Seq(Bytes) /\ Len(flat[k]) \in Nat
    BY <1>1 DEF Joins
  <1>4. Len(flat[0]) = 0
    BY <1>1 DEF Joins
  <1>5. ASSUME NEW k \in 1..n PROVE Len(flat[k]) = Len(flat[k - 1]) + Len(blocks[k])
    <2>0. k - 1 \in 0..n /\ k \in 1..Len(blocks)
      BY <1>1
    <2>a. blocks[k] \in Seq(Bytes)
      BY <1>1, <2>0, ElementOfSeq
    <2>b. flat[k] = flat[k - 1] \o blocks[k]
      BY <1>1, Zenon DEF Joins
    <2>1. flat[k] = flat[k - 1] \o blocks[k] /\ blocks[k] \in Seq(Bytes)
      BY <2>a, <2>b
    <2>2. flat[k - 1] \in Seq(Bytes)
      BY <1>3, <2>0
    <2> QED BY <2>1, <2>2
  <1>6. ASSUME NEW k \in 0..n PROVE Len(flat[k]) <= Len(flat[n])
    <2>1. Continues(flat[n], flat[k])
      BY <1>1, JoinsPrefix
    <2>2. PICK rest \in Seq(Bytes) : flat[n] = flat[k] \o rest
      BY <2>1 DEF Continues
    <2> QED BY <1>3, <2>2
  <1>7. ASSUME NEW k \in 0..n, k # n PROVE Len(flat[k]) < Len(flat[n])
    <2>1. k + 1 \in 1..n /\ k + 1 \in 0..n /\ (k + 1) - 1 = k /\ n \in 0..n
      BY <1>1, <1>7
    <2>2. Len(flat[k + 1]) = Len(flat[k]) + Len(blocks[k + 1]) /\ Len(flat[k + 1]) <= Len(flat[n])
      BY <1>5, <1>6, <2>1
    <2>3. Len(blocks[k + 1]) \in 1..s.size
      BY <1>2, <2>1
    <2>4. Len(flat[k]) \in Nat /\ Len(flat[k + 1]) \in Nat /\ Len(flat[n]) \in Nat /\ s.size \in Nat
      BY <1>2, <1>3, <2>1
    <2>5. Len(blocks[k + 1]) \in Nat /\ Len(blocks[k + 1]) >= 1
      BY <2>3, <2>4
    <2> DEFINE u == Len(flat[k])
               v == Len(flat[k + 1])
               w == Len(flat[n])
               b == Len(blocks[k + 1])
    <2>6. u \in Nat /\ v \in Nat /\ w \in Nat /\ b \in Nat /\ b >= 1 /\ v = u + b /\ v <= w
      BY <2>2, <2>4, <2>5
    <2> HIDE DEF u, v, w, b
    <2>7. u < w
      BY <2>6
    <2> QED BY <2>7 DEF u, w
  <1> QED BY <1>1, <1>2, <1>3, <1>4, <1>5, <1>6, <1>7 DEF n, flat, blocks

LEMMA Bases ==
  ASSUME NEW s \in Signings, NEW head, NEW m, Opening(s, head, m)
  PROVE  /\ Len(head) \in Nat /\ Len(stream) \in Nat /\ Base(s, 0) = Len(head) /\ Base(s, NBlocks(s)) = Len(stream)
         /\ \A k \in 0..NBlocks(s) : Base(s, k) \in 0..Len(stream)
         /\ \A k \in 0..NBlocks(s) : k # NBlocks(s) => Base(s, k) < Len(stream)
         /\ \A k \in 1..NBlocks(s) :
              /\ Base(s, k) = Base(s, k - 1) + Len(s.blocks[k])
              /\ SubSeq(stream, Base(s, k - 1) + 1, Base(s, k)) = s.blocks[k]
  <1> DEFINE n == NBlocks(s)
             flat == Flat(s)
             blocks == s.blocks
  <1>1. /\ n \in Nat /\ n = Len(blocks) /\ blocks \in Seq(Seq(Bytes)) /\ Joins(flat, blocks, n)
        /\ \A k \in 0..n : flat[k] \in Seq(Bytes)
        /\ \A k \in 1..n : flat[k] = flat[k - 1] \o blocks[k] /\ blocks[k] \in Seq(Bytes)
    BY FlatIs, Zenon
  <1>2. head \in Seq(AllBytes) /\ stream = head \o flat[n]
    BY DEF Opening
  <1>3. /\ \A k \in 0..n : Len(flat[k]) \in Nat /\ Len(flat[k]) <= Len(flat[n])
        /\ Len(flat[0]) = 0
        /\ \A k \in 1..n : Len(flat[k]) = Len(flat[k - 1]) + Len(blocks[k])
        /\ \A k \in 0..n : k # n => Len(flat[k]) < Len(flat[n])
    BY Lengths
  <1>4. \A k \in 0..n : Base(s, k) = Len(stream) - Len(flat[n]) + Len(flat[k])
    BY DEF Base
  <1> HIDE DEF n, flat, blocks
  <1>a. n \in 0..n /\ 0 \in 0..n
    BY <1>1
  <1>b. Bytes \subseteq AllBytes
    BY DEF AllBytes
  <1>c. flat[n] \in Seq(AllBytes)
    BY <1>1, <1>a, <1>b, SeqMonotonic
  <1>5. Len(head) \in Nat /\ Len(stream) \in Nat /\ Len(stream) = Len(head) + Len(flat[n])
    BY <1>2, <1>c
  <1>6. \A k \in 0..n : Base(s, k) = Len(head) + Len(flat[k])
    BY <1>3, <1>4, <1>5, <1>a
  <1>7. Base(s, 0) = Len(head) /\ Base(s, n) = Len(stream)
    <2>1. Base(s, 0) = Len(head) + Len(flat[0]) /\ Base(s, n) = Len(head) + Len(flat[n])
      BY <1>6, <1>a
    <2> QED BY <1>3, <1>5, <2>1
  <1>8. ASSUME NEW k \in 0..n PROVE Base(s, k) \in 0..Len(stream)
    <2>1. Len(flat[k]) \in Nat /\ Len(flat[n]) \in Nat /\ Len(flat[k]) <= Len(flat[n])
      BY <1>3, <1>a
    <2>2. Base(s, k) = Len(head) + Len(flat[k])
      BY <1>6
    <2> QED BY <1>5, <2>1, <2>2
  <1>9. ASSUME NEW k \in 0..n, k # n PROVE Base(s, k) < Len(stream)
    <2>1. Len(flat[k]) \in Nat /\ Len(flat[n]) \in Nat /\ Len(flat[k]) < Len(flat[n])
      BY <1>3, <1>9, <1>a
    <2>2. Base(s, k) = Len(head) + Len(flat[k])
      BY <1>6
    <2> QED BY <1>5, <2>1, <2>2
  <1>10. ASSUME NEW k \in 1..n
         PROVE  /\ Base(s, k) = Base(s, k - 1) + Len(blocks[k])
                /\ SubSeq(stream, Base(s, k - 1) + 1, Base(s, k)) = blocks[k]
    <2>0. k \in 0..n /\ k - 1 \in 0..n
      BY <1>1
    <2>1. Len(flat[k]) = Len(flat[k - 1]) + Len(blocks[k]) /\ Len(flat[k - 1]) \in Nat /\ Len(blocks[k]) \in Nat
      <3>1. blocks[k] \in Seq(Bytes)
        BY <1>1
      <3>2. Len(blocks[k]) \in Nat
        BY <3>1
      <3> QED BY <1>3, <2>0, <3>2
    <2>2. Base(s, k) = Base(s, k - 1) + Len(blocks[k]) /\ Base(s, k - 1) = Len(head) + Len(flat[k - 1])
      <3>1. Base(s, k) = Len(head) + Len(flat[k]) /\ Base(s, k - 1) = Len(head) + Len(flat[k - 1])
        BY <1>6, <2>0
      <3> DEFINE h == Len(head)
                 x == Len(flat[k - 1])
                 y == Len(blocks[k])
      <3>2. h \in Nat /\ x \in Nat /\ y \in Nat
        BY <1>5, <2>1
      <3> HIDE DEF h, x, y
      <3>3. h + (x + y) = (h + x) + y
        BY <3>2
      <3> QED BY <2>1, <3>1, <3>3, Zenon DEF h, x, y
    <2>3. PICK rest \in Seq(Bytes) : flat[n] = flat[k] \o rest
      <3>0. n <= Len(blocks)
        BY <1>1
      <3>1. Continues(flat[n], flat[k])
        BY <1>1, <2>0, <3>0, JoinsPrefix
      <3> QED BY <3>1 DEF Continues
    <2> DEFINE f == flat[k - 1]
               b == blocks[k]
               a == head \o f
    <2>4. f \in Seq(AllBytes) /\ b \in Seq(AllBytes) /\ rest \in Seq(AllBytes)
      <3>1. f \in Seq(Bytes) /\ b \in Seq(Bytes)
        BY <1>1, <2>0
      <3> HIDE DEF f, b
      <3> QED BY <1>b, <3>1, SeqMonotonic
    <2>5. stream = head \o ((f \o b) \o rest)
      BY <1>1, <1>2, <2>3
    <2> HIDE DEF f, b
    <2>6. f \o b \in Seq(AllBytes) /\ a \in Seq(AllBytes) /\ Len(a) = Len(head) + Len(f)
      BY <1>2, <2>4
    <2>7. head \o ((f \o b) \o rest) = (head \o (f \o b)) \o rest
      <3>1. head \in Seq(AllBytes) /\ f \o b \in Seq(AllBytes) /\ rest \in Seq(AllBytes)
        BY <1>2, <2>4, <2>6
      <3> DEFINE fb == f \o b
      <3> HIDE DEF fb
      <3>2. head \o (fb \o rest) = (head \o fb) \o rest
        BY <3>1, Associates DEF fb
      <3> QED BY <3>2 DEF fb
    <2>8. head \o (f \o b) = (head \o f) \o b
      <3>1. head \in Seq(AllBytes) /\ f \in Seq(AllBytes) /\ b \in Seq(AllBytes)
        BY <1>2, <2>4
      <3> QED BY <3>1, Associates
    <2>9. stream = (a \o b) \o rest
      BY <2>5, <2>7, <2>8
    <2> HIDE DEF a
    <2>10. SubSeq((a \o b) \o rest, Len(a) + 1, Len(a) + Len(b)) = b
      BY <2>4, <2>6, MiddleOf
    <2>11. Len(a) = Base(s, k - 1) /\ Len(a) + Len(b) = Base(s, k)
      BY <2>2, <2>6 DEF b, f
    <2> QED BY <2>2, <2>9, <2>10, <2>11 DEF b
  <1> QED BY <1>5, <1>7, <1>8, <1>9, <1>10 DEF n, blocks

-----------------------------------------------------------------------------
(* The copy of a genuine archive.                                          *)

(* Where the next byte of the payload is.                                  *)
Cursor == IF residual < Len(hbuf) THEN residual ELSE off

(* The archive s arrives: no check fails, and the copy keeps in step with  *)
(* the blocks.                                                             *)
Follows(s) ==
  /\ pc \notin {"exit1", "exit4"}
  /\ pc = "header" /\ state = 0 => Len(hbuf) < HeaderLen
  /\ pc \in {"signature", "open", "fake"} => off = Len(hbuf)
  /\ pc \in {"residual", "fill", "check", "write"} /\ residual < Len(hbuf) => off = Len(hbuf)
  /\ pc = "residual" => Cursor = Base(s, sha)
  /\ pc = "fill" =>
       /\ Cursor = Base(s, sha) + Len(buffer)
       /\ buffer = SubSeq(stream, Base(s, sha) + 1, Base(s, sha) + Len(buffer)) /\ Len(buffer) <= s.size
       /\ Len(buffer) < s.size => residual = Len(hbuf)
  /\ pc = "check" => sha < NBlocks(s) /\ buffer = s.blocks[sha + 1] /\ Cursor = Base(s, sha + 1)
  /\ pc = "write" => Cursor = Base(s, sha)
  /\ pc = "end" => sha = NBlocks(s)

GenuineInv == \A s \in Signings : Genuine(s) => Follows(s)

LEMMA SubSeqIs ==
  ASSUME NEW T, NEW t \in Seq(T), NEW a \in 0..Len(t), NEW k \in 0..(Len(t) - a)
  PROVE  /\ SubSeq(t, a + 1, a + k) \in Seq(T) /\ Len(SubSeq(t, a + 1, a + k)) = k
         /\ \A i \in 1..k : SubSeq(t, a + 1, a + k)[i] = t[a + i]
  OBVIOUS

LEMMA SignerOf ==
  ASSUME NEW s \in Signings, comment = Comment(s)
  PROVE  /\ Verified /\ Signer = s /\ SignedSize = s.size
         /\ Len(Hashes) = NBlocks(s) /\ \A k \in 1..NBlocks(s) : Hashes[k] = Hash(s.blocks[k])
  <1>1. Verified
    BY DEF Verified
  <1>2. comment[1].signed = s
    <2> DEFINE hashes == [i \in 1..Len(s.blocks) |-> Hash(s.blocks[i])]
               U == {SigByte(s)} \cup {hashes[i] : i \in 1..Len(s.blocks)}
               sig == <<SigByte(s)>>
    <2>1. hashes \in Seq(U) /\ sig \in Seq(U) /\ Len(sig) = 1 /\ sig[1] = SigByte(s)
      BY FlatIs DEF NBlocks
    <2>2. comment = sig \o hashes
      BY DEF Comment
    <2> HIDE DEF hashes, U, sig
    <2>3. 1 \in 1..Len(sig) /\ \A i \in 1..Len(sig) : (sig \o hashes)[i] = sig[i]
      <3>1. 1 \in 1..Len(sig)
        BY <2>1
      <3>2. hashes \in Seq(U) /\ sig \in Seq(U)
        BY <2>1
      <3>3. \A i \in 1..Len(sig) : (sig \o hashes)[i] = sig[i]
        BY <3>2, ConcatParts
      <3> QED BY <3>1, <3>3
    <2>4. comment[1] = SigByte(s)
      BY <2>1, <2>2, <2>3
    <2> QED BY <2>4 DEF SigByte
  <1> QED BY <1>1, <1>2, SignedIs DEF Signer, NBlocks

LEMMA Verifies ==
  ASSUME HeaderInv, pc \notin {"header", "exit1", "stopped"}, NEW s \in Signings, Genuine(s)
  PROVE  comment = Comment(s) /\ HasComment(hbuf) /\ pos = Base(s, 0)
  <1>1. state = 3
    BY DEF HeaderInv, Place
  <1>2. PICK head, m : Opening(s, head, m)
    BY GenuineOpening
  <1>3. pos = Len(head) /\ comment = Comment(s) /\ HasComment(hbuf)
    BY <1>1, <1>2, GenuineHeader
  <1> QED BY <1>2, <1>3, Bases

(* A whole block, or what is left, is in the buffer.                       *)
LEMMA WholeBlock ==
  ASSUME NEW s \in Signings, Genuine(s), HeaderInv, NEW k \in 0..NBlocks(s),
         buffer = SubSeq(stream, Base(s, k) + 1, Base(s, k) + Len(buffer)), Len(buffer) <= s.size,
         Base(s, k) + Len(buffer) <= Len(stream),
         Len(buffer) = s.size \/ Base(s, k) + Len(buffer) = Len(stream)
  PROVE  /\ buffer = << >> => k = NBlocks(s)
         /\ buffer # << >> => /\ k < NBlocks(s) /\ buffer = s.blocks[k + 1]
                              /\ Base(s, k + 1) = Base(s, k) + Len(buffer)
  <1>1. PICK head, m : Opening(s, head, m)
    BY GenuineOpening
  <1> DEFINE n == NBlocks(s)
             B == Base(s, k)
             L == Len(buffer)
             size == s.size
             len == Len(stream)
  <1>2. n \in Nat /\ size \in Nat /\ size > 0
    <2>1. n \in Nat /\ size \in Nat \ {0}
      BY Lengths, Zenon
    <2> QED BY <2>1
  <1>3. len \in Nat /\ B \in 0..len /\ (k # n => B < len) /\ Base(s, n) = len
    BY <1>1, Bases
  <1>4. buffer \in Seq(Bytes) /\ L \in Nat /\ (buffer = << >> <=> L = 0)
    BY DEF HeaderInv, HeaderType
  <1>5. L <= size /\ B + L <= len /\ (L = size \/ B + L = len)
    OBVIOUS
  <1>6. CASE L = 0
    <2>1. B = len
      <3> HIDE DEF n, B, L, size, len
      <3> QED BY <1>2, <1>3, <1>5, <1>6
    <2>2. k = n
      <3> HIDE DEF n, B, L, size, len
      <3> QED BY <1>3, <2>1
    <2> QED BY <1>4, <1>6, <2>2
  <1>7. CASE L # 0
    <2>1. B < len
      <3> HIDE DEF n, B, L, size, len
      <3> QED BY <1>3, <1>4, <1>5, <1>7
    <2>2. k # n
      <3>1. k = n => B = len
        BY <1>3
      <3> HIDE DEF n, B, L, size, len
      <3> QED BY <1>3, <2>1, <3>1
    <2>3. k + 1 \in 1..n /\ (k + 1) - 1 = k /\ k < n /\ k + 1 \in 0..n
      BY <1>2, <2>2
    <2> DEFINE C == Base(s, k + 1)
               M == Len(s.blocks[k + 1])
    <2>4. /\ C = B + M /\ SubSeq(stream, B + 1, C) = s.blocks[k + 1] /\ C \in 0..len
          /\ (k + 1 = n => C = len)
      BY <1>1, <2>3, Bases
    <2>5. M \in 1..size /\ (k + 1 < n => M = size)
      BY <2>3, Lengths
    <2>6. k + 1 < n \/ k + 1 = n
      BY <1>2, <2>3
    <2>7. L = M
      <3> HIDE DEF n, B, L, size, len, C, M
      <3>1. CASE k + 1 < n
        BY <1>2, <1>3, <1>4, <1>5, <2>4, <2>5, <3>1
      <3>2. CASE k + 1 = n
        BY <1>2, <1>3, <1>4, <1>5, <2>4, <2>5, <3>2
      <3> QED BY <2>6, <3>1, <3>2
    <2>8. buffer = s.blocks[k + 1] /\ C = B + L
      BY <2>4, <2>7
    <2> QED BY <1>4, <1>7, <2>3, <2>8
  <1> QED BY <1>6, <1>7

LEMMA GenuineInit == Init => GenuineInv
  BY HeaderAssumption DEF Init, GenuineInv, Follows

LEMMA GenuineNext ==
  ASSUME HeaderInv, HeaderInv', OutInv, GenuineInv, [Next]_vars
  PROVE  GenuineInv'
  <1> SUFFICES ASSUME NEW s \in Signings, Genuine(s)' PROVE Follows(s)'
    BY DEF GenuineInv
  <1>0. stream' = stream
    BY DEF Next, Step, Done, Stop, Exit, vars, ReadHeader, HeaderTruncated, VerifySignature, OpenOut, WriteHeader,
           TakeResidual, Fill, Filled, Check, Write, Written, End
  <1>1. Genuine(s) /\ Follows(s)
    BY <1>0 DEF Genuine, GenuineInv
  <1>2. PICK head, m : Opening(s, head, m)
    BY <1>1, GenuineOpening
  <1> DEFINE B(k) == Base(s, k)
             n == NBlocks(s)
  <1>3. \A k \in 0..n : Base(s, k)' = Base(s, k)
    BY <1>0 DEF Base
  <1>4. /\ Len(stream) \in Nat /\ Len(hbuf) \in Nat /\ off \in 0..Len(stream) /\ Len(hbuf) <= off
        /\ residual \in 0..Len(hbuf) /\ stream \in Seq(Bytes) /\ hbuf \in Seq(Bytes)
        /\ hbuf = SubSeq(stream, 1, Len(hbuf)) /\ buffer \in Seq(Bytes) /\ Len(buffer) \in Nat
    BY DEF HeaderInv, HeaderType
  <1>5. n \in Nat /\ s.size \in Nat \ {0}
    BY Lengths, Zenon
  <1>6. /\ \A k \in 0..n : B(k) \in 0..Len(stream)
        /\ Len(head) \in Nat /\ B(0) = Len(head) /\ HeaderLen <= Len(head) /\ Len(head) <= Len(stream)
    <2>1. (\A k \in 0..n : B(k) \in 0..Len(stream)) /\ Len(head) \in Nat /\ B(0) = Len(head)
      BY <1>2, Bases
    <2>2. HeaderLen <= Len(head)
      BY HeaderAssumption, CommentText, <1>2 DEF Opening
    <2>3. B(0) \in 0..Len(stream)
      BY <1>5, <2>1
    <2> QED BY <1>4, <2>1, <2>2, <2>3
  <1>7. pc \notin {"header", "exit1", "stopped"} =>
          /\ comment = Comment(s) /\ HasComment(hbuf) /\ pos = B(0)
          /\ Verified /\ Signer = s /\ SignedSize = s.size
          /\ Len(Hashes) = n /\ \A k \in 1..n : Hashes[k] = Hash(s.blocks[k])
    BY <1>1, Verifies, SignerOf
  <1>8. pc \in BetweenBlocks => sha \in 0..n
    BY <1>7 DEF OutInv, BetweenBlocks
  <1>9. Base(s, sha)' = B(sha') /\ Base(s, sha + 1)' = B(sha' + 1)
    BY <1>0 DEF Base
  <1> HIDE DEF B
  <1>10. CASE ReadHeader
    <2>1. pc = "header" /\ off = Len(hbuf)
      BY <1>10 DEF ReadHeader, HeaderInv, Place
    <2>2. PICK k \in 1..Smaller(sz' - Len(hbuf), Len(stream) - off) :
            LET b == hbuf \o SubSeq(stream, off + 1, off + k)
                h == Parsed(b, state, pos)
            IN /\ off' = off + k
               /\ hbuf' = b
               /\ CASE Len(b) < HeaderLen -> UNCHANGED <<pc, state, pos, comment>>
                    [] Len(b) >= HeaderLen /\ BadHeader(b) ->
                         pc' = "exit1" /\ UNCHANGED <<state, pos, comment>>
                    [] OTHER ->
                         /\ state' = h.state /\ pos' = h.pos
                         /\ pc' = IF h.state = 3 THEN "signature" ELSE "header"
                         /\ comment' = IF h.state = 3 THEN SubSeq(b, h.from + 1, h.pos - 1) ELSE << >>
      BY <1>10 DEF ReadHeader
    <2> DEFINE b == hbuf'
               h == Parsed(b, state, pos)
    <2>3. /\ CASE Len(b) < HeaderLen -> UNCHANGED <<pc, state, pos, comment>>
               [] Len(b) >= HeaderLen /\ BadHeader(b) ->
                    pc' = "exit1" /\ UNCHANGED <<state, pos, comment>>
               [] OTHER ->
                    /\ state' = h.state /\ pos' = h.pos
                    /\ pc' = IF h.state = 3 THEN "signature" ELSE "header"
                    /\ comment' = IF h.state = 3 THEN SubSeq(b, h.from + 1, h.pos - 1) ELSE << >>
      BY <2>2
    <2>4. off' = off + k /\ b = hbuf \o SubSeq(stream, off + 1, off + k)
      BY <2>2
    <2>5. off' = Len(b)
      <3>1. sz \in Nat
        BY DEF HeaderInv, HeaderType
      <3>2. sz' \in Nat
        <4>1. sz' = sz \/ sz' = 2 * sz
          BY <1>10 DEF ReadHeader
        <4> QED BY <3>1, <4>1
      <3>3. k \in 1..(Len(stream) - off)
        BY <1>4, <3>2 DEF Smaller
      <3>4. SubSeq(stream, off + 1, off + k) \in Seq(Bytes) /\ Len(SubSeq(stream, off + 1, off + k)) = k
        BY <1>4, <3>3
      <3>5. Len(hbuf \o SubSeq(stream, off + 1, off + k)) = Len(hbuf) + k
        BY <1>4, <3>4
      <3> QED BY <2>1, <2>4, <3>5
    <2>6. Len(b) \in Nat /\ HeaderLen \in Nat
      BY HeaderAssumption DEF HeaderInv, HeaderType
    <2>7. CASE Len(b) < HeaderLen
      <3>1. pc' = "header"
        BY <2>1, <2>3, <2>6, <2>7
      <3> QED BY <2>7, <3>1 DEF Follows
    <2>8. CASE Len(b) >= HeaderLen
      <3>1. \A i \in 1..Len(b) : b[i] = stream[i]
        <4>1. b = SubSeq(stream, 1, Len(b)) /\ Len(b) <= Len(stream)
          BY <1>0, <1>4, SMTT(30) DEF HeaderInv, HeaderType
        <4> DEFINE l == Len(b)
        <4>2. l \in Nat /\ l <= Len(stream)
          BY <2>6, <4>1
        <4> HIDE DEF l
        <4>3. \A i \in 1..l : SubSeq(stream, 1, l)[i] = stream[i]
          BY <1>4, <4>2
        <4> QED BY <4>1, <4>3 DEF l
      <3>2. ~ BadHeader(b)
        <4> HIDE DEF b
        <4> QED BY <1>2, <2>6, <2>8, <3>1, ParserMeets
      <3>3. state' = h.state /\ pc' = IF h.state = 3 THEN "signature" ELSE "header"
        BY <2>3, <2>6, <2>8, <3>2
      <3>4. h.state # 0
        BY DEF Parsed
      <3>5. pc' \in {"header", "signature"} /\ state' # 0
        BY <3>3, <3>4
      <3> QED BY <2>5, <3>5 DEF Follows
    <2> QED BY <2>6, <2>7, <2>8
  <1>11. CASE HeaderTruncated
    <2>1. pc = "header" /\ off = Len(stream) /\ off = Len(hbuf) /\ state \in {0, 1, 2}
      BY <1>11 DEF HeaderTruncated, HeaderInv, Place
    <2>2. Len(hbuf) >= HeaderLen /\ Len(hbuf) >= Len(head)
      BY HeaderAssumption, <1>6, <2>1
    <2>3. state \in {1, 2}
      BY HeaderAssumption, <1>1, <1>4, <2>1, <2>2 DEF Follows
    <2>4. PICK from \in Nat : After(hbuf, state, pos, from)
      BY <2>3 DEF HeaderInv, Place
    <2>5. \A i \in 1..Len(hbuf) : hbuf[i] = stream[i]
      <3> DEFINE l == Len(hbuf)
      <3>1. l \in Nat /\ l <= Len(stream) /\ hbuf = SubSeq(stream, 1, l)
        BY <1>4
      <3> HIDE DEF l
      <3>2. \A i \in 1..l : SubSeq(stream, 1, l)[i] = stream[i]
        BY <1>4, <3>1
      <3> QED BY <3>1, <3>2 DEF l
    <2>6. Len(hbuf) < Len(head)
      BY <1>2, <1>4, <2>2, <2>3, <2>4, <2>5, ParserMeets
    <2> QED BY <1>4, <1>6, <2>2, <2>6
  <1>12. CASE VerifySignature
    <2>1. pc = "signature" /\ pc' = "open" /\ UNCHANGED <<off, hbuf>>
      BY <1>7, <1>12 DEF VerifySignature, header
    <2> QED BY <1>1, <2>1 DEF Follows
  <1>13. CASE OpenOut
    <2>1. pc = "open" /\ pc' = "fake" /\ UNCHANGED <<off, hbuf>>
      BY <1>13 DEF OpenOut, header
    <2> QED BY <1>1, <2>1 DEF Follows
  <1>14. CASE WriteHeader
    <2>1. pc = "fake" /\ pc' = "residual" /\ UNCHANGED <<off, hbuf, sha>> /\ residual' = pos
      BY <1>14 DEF WriteHeader, header
    <2>2. off = Len(hbuf) /\ sha = 0 /\ pos = B(0) /\ pos \in 0..Len(hbuf)
      BY <1>1, <1>7, <2>1 DEF Follows, OutInv, HeaderInv, HeaderType
    <2>3. Cursor' = B(0)
      <3>1. Cursor' = IF pos < Len(hbuf) THEN pos ELSE Len(hbuf)
        BY <2>1, <2>2 DEF Cursor
      <3>2. CASE pos < Len(hbuf)
        BY <2>2, <3>1, <3>2
      <3>3. CASE ~ (pos < Len(hbuf))
        <4>1. pos = Len(hbuf)
          BY <1>4, <2>2, <3>3
        <4> QED BY <2>2, <3>1, <3>3, <4>1
      <3> QED BY <3>2, <3>3
    <2>4. Base(s, sha)' = B(0)
      <3>1. 0 \in 0..n /\ sha' = 0
        BY <1>5, <2>1, <2>2
      <3> QED BY <1>0, <2>2, <3>1 DEF Base, B
    <2> QED BY <2>1, <2>2, <2>3, <2>4 DEF Follows

  <1>15. CASE TakeResidual
    <2> DEFINE r == residual
               l == Len(hbuf)
               k == Smaller(l - r, s.size)
               b == B(sha)
    <2>1. /\ pc = "residual" /\ pc' = "fill" /\ UNCHANGED <<off, hbuf, sha>>
          /\ buffer' = SubSeq(hbuf, r + 1, r + k) /\ residual' = r + k
      BY <1>7, <1>15 DEF TakeResidual, header
    <2>2. sha \in 0..n /\ b \in 0..Len(stream)
      BY <1>6, <1>8, <2>1 DEF BetweenBlocks
    <2>3. Cursor = b /\ (r < l => off = l)
      BY <1>1, <2>1 DEF Follows, B
    <2>4. r \in 0..l /\ l \in Nat /\ off \in 0..Len(stream) /\ l <= off /\ s.size \in Nat /\ s.size > 0
      BY <1>4, <1>5
    <2>5. Cursor = IF r < l THEN r ELSE off
      BY DEF Cursor
    <2>6. k \in 0..(l - r) /\ k <= s.size /\ (k < s.size => r + k = l) /\ (r = l <=> k = 0)
      BY <2>4 DEF Smaller
    <2>7. Cursor' = IF r + k < l THEN r + k ELSE off
      BY <2>1 DEF Cursor
    <2>8. buffer' \in Seq(Bytes) /\ Len(buffer') = k
      <3>1. r \in 0..Len(hbuf) /\ k \in 0..(Len(hbuf) - r) /\ hbuf \in Seq(Bytes)
        BY <1>4, <2>6
      <3> HIDE DEF r, k
      <3>2. SubSeq(hbuf, r + 1, r + k) \in Seq(Bytes) /\ Len(SubSeq(hbuf, r + 1, r + k)) = k
        BY <3>1, SubSeqIs
      <3> QED BY <2>1, <3>2
    <2>9. Cursor' = b + k
      <3> HIDE DEF r, l, k, b
      <3>1. CASE r < l
        BY <2>3, <2>4, <2>5, <2>6, <2>7, <3>1
      <3>2. CASE r = l
        BY <2>3, <2>4, <2>5, <2>6, <2>7, <3>2
      <3> QED BY <2>4, <3>1, <3>2
    <2>10. buffer' = SubSeq(stream, b + 1, b + k)
      <3>1. CASE r < l
        <4>1. r = b
          BY <2>3, <2>5, <3>1
        <4>2. hbuf = SubSeq(stream, 1, l) /\ l \in 0..Len(stream)
          BY <1>4
        <4>a. r \in 0..Len(hbuf) /\ k \in 0..(Len(hbuf) - r) /\ hbuf \in Seq(Bytes)
          BY <1>4, <2>6
        <4> HIDE DEF r, l, k, b
        <4>b. r \in 0..Len(stream) /\ k \in 0..(Len(stream) - r)
          BY <1>4, <4>a
        <4>3. SubSeq(hbuf, r + 1, r + k) \in Seq(Bytes) /\ Len(SubSeq(hbuf, r + 1, r + k)) = k
              /\ \A i \in 1..k : SubSeq(hbuf, r + 1, r + k)[i] = hbuf[r + i]
          BY <4>a, SubSeqIs
        <4>4. SubSeq(stream, r + 1, r + k) \in Seq(Bytes) /\ Len(SubSeq(stream, r + 1, r + k)) = k
              /\ \A i \in 1..k : SubSeq(stream, r + 1, r + k)[i] = stream[r + i]
          BY <1>4, <4>b, SubSeqIs
        <4>5. \A i \in 1..k : hbuf[r + i] = stream[r + i]
          <5>1. \A i \in 1..l : SubSeq(stream, 1, l)[i] = stream[i]
            BY <1>4, <4>2
          <5>2. ASSUME NEW i \in 1..k PROVE r + i \in 1..l
            BY <2>4, <2>6
          <5> QED BY <4>2, <5>1, <5>2
        <4> DEFINE u == SubSeq(hbuf, r + 1, r + k)
                   v == SubSeq(stream, r + 1, r + k)
        <4>6. u \in Seq(Bytes) /\ v \in Seq(Bytes) /\ Len(u) = Len(v) /\ \A i \in 1..Len(u) : u[i] = v[i]
          BY <4>3, <4>4, <4>5
        <4> HIDE DEF u, v
        <4>7. u = v
          BY <4>6, SeqEqual
        <4> QED BY <2>1, <4>1, <4>7 DEF u, v
      <3>2. CASE r = l
        <4>1. k = 0
          BY <2>6, <3>2
        <4> HIDE DEF r, l, k, b
        <4>2. SubSeq(stream, b + 1, b + k) = << >>
          BY <1>4, <2>2, <4>1
        <4>3. buffer' = << >>
          BY <2>8, <4>1
        <4> QED BY <4>2, <4>3
      <3> QED BY <2>4, <3>1, <3>2
    <2>11. Base(s, sha)' = b
      BY <1>9, <2>1
    <2>12. (residual < Len(hbuf) => off = Len(hbuf))' /\ (k < s.size => residual' = Len(hbuf)')
      <3>1. residual' = r + k /\ Len(hbuf)' = l /\ off' = off
        BY <2>1
      <3> HIDE DEF r, l, k, b
      <3> QED BY <2>3, <2>4, <2>6, <3>1
    <2>13. /\ Cursor' = Base(s, sha)' + Len(buffer')
           /\ buffer' = SubSeq(stream', Base(s, sha)' + 1, Base(s, sha)' + Len(buffer'))
           /\ Len(buffer') <= s.size
           /\ Len(buffer') < s.size => residual' = Len(hbuf')
           /\ residual' < Len(hbuf') => off' = Len(hbuf')
      <3> HIDE DEF r, l, k, b
      <3> QED BY <1>0, <2>6, <2>8, <2>9, <2>10, <2>11, <2>12
    <2> QED BY <2>1, <2>13 DEF Follows
  <1>16. CASE Fill
    <2> DEFINE b == B(sha)
               l == Len(buffer)
    <2>1. PICK k \in 1..Smaller(s.size - l, Len(stream) - off) :
            buffer' = buffer \o SubSeq(stream, off + 1, off + k) /\ off' = off + k
      BY <1>7, <1>16 DEF Fill
    <2>2. pc = "fill" /\ l < s.size /\ UNCHANGED <<pc, hbuf, residual, sha>>
      BY <1>7, <1>16 DEF Fill, header
    <2>3. sha \in 0..n /\ b \in 0..Len(stream)
      BY <1>6, <1>8, <2>2 DEF BetweenBlocks
    <2>4. Cursor = b + l /\ buffer = SubSeq(stream, b + 1, b + l) /\ residual = Len(hbuf)
      BY <1>1, <2>2 DEF Follows, B
    <2>5. off = b + l
      BY <1>4, <2>4 DEF Cursor
    <2>6. k \in Nat /\ k >= 1 /\ k <= s.size - l /\ k <= Len(stream) - off
      <3> HIDE DEF l
      <3>1. off \in Nat /\ Len(stream) \in Nat /\ s.size \in Nat /\ l \in Nat
        BY <1>4, <1>5 DEF l
      <3> QED BY <2>1, <3>1 DEF Smaller
    <2>7. /\ buffer' = SubSeq(stream, b + 1, b + l + k) /\ Len(buffer') = l + k
      <3>1. b \in 0..Len(stream) /\ b + l \in b..Len(stream) /\ k \in 1..(Len(stream) - (b + l)) /\ l \in Nat
        <4> HIDE DEF b, l
        <4>1. l \in Nat
          BY <1>4 DEF l
        <4> QED BY <1>4, <2>3, <2>5, <2>6, <4>1
      <3> HIDE DEF b, l
      <3>2. /\ SubSeq(stream, b + 1, b + l) \o SubSeq(stream, (b + l) + 1, (b + l) + k) = SubSeq(stream, b + 1, (b + l) + k)
            /\ Len(SubSeq(stream, b + 1, (b + l) + k)) = (b + l) + k - b
        BY <1>4, <3>1, Piece
      <3>3. (b + l) + k - b = l + k /\ b + l + k = (b + l) + k
        BY <3>1
      <3> QED BY <2>1, <2>4, <2>5, <3>2, <3>3
    <2>8. Cursor' = b + (l + k)
      <3>1. Cursor' = off + k
        BY <1>4, <2>1, <2>2, <2>4 DEF Cursor
      <3>2. b \in Nat /\ l \in Nat
        BY <1>4, <2>3
      <3> HIDE DEF b, l
      <3> QED BY <2>5, <2>6, <3>1, <3>2
    <2>9. b + l + k = b + (l + k) /\ l + k <= s.size
      <3>1. b \in Nat /\ l \in Nat /\ s.size \in Nat
        BY <1>4, <1>5, <2>3
      <3> HIDE DEF b, l
      <3> QED BY <2>6, <3>1
    <2>10. Base(s, sha)' = b /\ ~ (residual' < Len(hbuf)') /\ residual' = Len(hbuf)'
      BY <1>4, <1>9, <2>2, <2>4
    <2>11. /\ Cursor' = Base(s, sha)' + Len(buffer')
           /\ buffer' = SubSeq(stream', Base(s, sha)' + 1, Base(s, sha)' + Len(buffer'))
           /\ Len(buffer') <= s.size
           /\ residual' = Len(hbuf') /\ ~ (residual' < Len(hbuf'))
      <3> HIDE DEF b, l
      <3> QED BY <1>0, <2>7, <2>8, <2>9, <2>10
    <2> QED BY <2>2, <2>11 DEF Follows
  <1>17. CASE Filled
    <2> DEFINE b == B(sha)
               l == Len(buffer)
    <2>1. /\ pc' = IF buffer = << >> THEN "end" ELSE "check"
          /\ UNCHANGED <<off, hbuf, residual, sha, buffer>>
      BY <1>7, <1>17 DEF Filled, header, copying
    <2>2. pc = "fill"
      BY <1>17 DEF Filled
    <2>3. sha \in 0..n /\ b \in 0..Len(stream)
      BY <1>6, <1>8, <2>2 DEF BetweenBlocks
    <2>4. /\ Cursor = b + l /\ buffer = SubSeq(stream, b + 1, b + l) /\ l <= s.size
          /\ l < s.size => residual = Len(hbuf)
          /\ residual < Len(hbuf) => off = Len(hbuf)
      BY <1>1, <2>2 DEF Follows, B
    <2>5. b + l <= Len(stream) /\ (l = s.size \/ b + l = Len(stream))
      <3>1. Cursor <= Len(stream) /\ (residual = Len(hbuf) => Cursor = off)
        <4> DEFINE h == Len(hbuf)
                   e == Len(stream)
        <4>1. residual \in 0..h /\ h \in Nat /\ off \in 0..e /\ h <= off /\ e \in Nat
              /\ Cursor = IF residual < h THEN residual ELSE off
          BY <1>4 DEF Cursor
        <4> HIDE DEF h, e
        <4>2. Cursor <= e
          BY <4>1
        <4>3. residual = h => Cursor = off
          BY <4>1
        <4> QED BY <4>2, <4>3 DEF h, e
      <3>2. l < s.size \/ l = s.size
        <4>1. l \in Nat /\ s.size \in Nat
          BY <1>4, <1>5
        <4> HIDE DEF l
        <4> QED BY <2>4, <4>1
      <3>3. l = s.size \/ off = Len(stream)
        BY <1>7, <1>17 DEF Filled
      <3> HIDE DEF b, l
      <3> QED BY <2>4, <3>1, <3>2, <3>3
    <2>6. /\ buffer = << >> => sha = n
          /\ buffer # << >> => sha < n /\ buffer = s.blocks[sha + 1] /\ B(sha + 1) = b + l
      BY <1>1, <2>3, <2>4, <2>5, WholeBlock DEF B
    <2>7. Cursor' = Cursor /\ Base(s, sha + 1)' = B(sha + 1)
      BY <1>9, <2>1 DEF Cursor
    <2> HIDE DEF b, l
    <2> QED BY <2>1, <2>4, <2>6, <2>7 DEF Follows
  <1>18. CASE Check
    <2>1. pc = "check" /\ UNCHANGED <<off, hbuf, residual>>
      BY <1>18 DEF Check, Exit, header, copying
    <2>2. sha < n /\ buffer = s.blocks[sha + 1] /\ Cursor = B(sha + 1) /\ (residual < Len(hbuf) => off = Len(hbuf))
      BY <1>1, <2>1 DEF Follows, B
    <2>3. sha \in 0..n
      BY <1>8, <2>1 DEF BetweenBlocks
    <2>4. sha < Len(Hashes) /\ Hashes[sha + 1] = Hash(buffer)
      <3>1. sha + 1 \in 1..n
        BY <1>5, <2>2, <2>3
      <3> QED BY <1>7, <2>1, <2>2, <3>1
    <2>5. pc' = "write" /\ sha' = sha + 1
      BY <1>18, <2>4 DEF Check
    <2>6. Cursor' = Cursor /\ Base(s, sha)' = B(sha + 1)
      BY <1>9, <2>1, <2>5 DEF Cursor
    <2> QED BY <2>1, <2>2, <2>5, <2>6 DEF Follows
  <1>19. CASE Write
    <2>1. pc = "write" /\ pc' = "write" /\ UNCHANGED <<off, hbuf, residual, sha>>
      BY <1>19 DEF Write, header
    <2>2. Cursor' = Cursor /\ Base(s, sha)' = B(sha)
      BY <1>9, <2>1 DEF Cursor
    <2> QED BY <1>1, <2>1, <2>2 DEF Follows, B
  <1>20. CASE Written
    <2>1. pc = "write" /\ UNCHANGED <<off, hbuf, residual, sha>> /\ pc' = IF Len(buffer) # s.size THEN "end" ELSE "residual"
      BY <1>7, <1>20 DEF Written, header
    <2>2. Cursor' = Cursor /\ Base(s, sha)' = B(sha)
      BY <1>9, <2>1 DEF Cursor
    <2>3. Len(buffer) # s.size => sha = n
      <3>1. sha \in 1..n /\ buffer = s.blocks[sha]
        BY <1>7, <2>1 DEF OutInv
      <3>2. sha < n => Len(s.blocks[sha]) = s.size
        BY <3>1, Lengths
      <3> QED BY <1>5, <3>1, <3>2
    <2> QED BY <1>1, <2>1, <2>2, <2>3 DEF Follows, B
  <1>21. CASE End
    <2>1. pc = "end" /\ sha = Len(Hashes)
      BY <1>1, <1>7, <1>21 DEF End, Follows
    <2>2. pc' = "exit0"
      BY <1>21, <2>1 DEF End, Exit
    <2> QED BY <2>2 DEF Follows
  <1>22. CASE Stop
    BY <1>22 DEF Stop, Exit, Follows
  <1>23. CASE UNCHANGED vars
    <2>1. UNCHANGED <<pc, state, hbuf, off, residual, buffer, sha>>
      BY <1>23 DEF vars
    <2>2. Cursor' = Cursor /\ Base(s, sha)' = Base(s, sha) /\ Base(s, sha + 1)' = Base(s, sha + 1)
      BY <1>0, <2>1 DEF Cursor, Base
    <2>3. Follows(s)' <=> Follows(s)
      <3> HIDE DEF n
      <3> QED BY <1>0, <2>1, <2>2, Zenon DEF Follows
    <2> QED BY <1>1, <2>3
  <1> QED
    BY <1>10, <1>11, <1>12, <1>13, <1>14, <1>15, <1>16, <1>17, <1>18, <1>19, <1>20, <1>21, <1>22, <1>23
    DEF Next, Step, Done

(* An archive that the owner signed is accepted however it is cut into     *)
(* pieces: the reads that fill a block, the rest of the header's buffer    *)
(* and the end of the file fall as they may (copy_blocks).                 *)
THEOREM GenuineAlwaysAccepted == Spec => []GenuineAccepted
  <1>1. GenuineInv => GenuineAccepted
    BY DEF GenuineInv, GenuineAccepted, Genuine, Follows
  <1>2. HeaderInv /\ HeaderInv' /\ OutInv /\ GenuineInv /\ [Next]_vars => GenuineInv'
    BY GenuineNext
  <1> QED BY <1>1, <1>2, HeaderInit, HeaderNext, OutInit, OutNext, GenuineInit, PTL DEF Spec

=============================================================================
